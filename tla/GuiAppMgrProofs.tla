--------------------------- MODULE GuiAppMgrProofs ---------------------------
(* Proofs about GuiAppMgr: whatever the bounds on the lists, the kinds of  *)
(* messages listed and the plugins, the manager, the lists and the         *)
(* toolbars of the view agree after every event.                           *)
(*                                                                         *)
(* IInv says of the state of all the objects at once what TypeOK and the   *)
(* properties say of the variables, and what they need: no message is      *)
(* listed twice, what is listed is known to the message manager, a dialog  *)
(* works on the selected message, the next message that is added becomes   *)
(* the current item only while none is selected. Inside a handler only     *)
(* parts of it hold, because the counts, the toolbars and the lists are    *)
(* changed one after the other: the lemmas say which, for each slot, for   *)
(* each function of GuiAppMgr and then for each action.                    *)
EXTENDS GuiAppMgr, Induction, SequenceTheorems, FiniteSetTheorems, TLAPS

-----------------------------------------------------------------------------
(* What the objects hold.                                                  *)
AnyMsg == Listed \cup Scripts \cup {NoMsg}

Managers  == [selType : Selection, clicked : AnyMsg, recvListCount : Int,
              sendListCount : Int, sendState : SendState, recvRunning : BOOLEAN,
              recvListMode : SUBSET ListedKinds, displayed : AnyMsg, pending : AnyMsg,
              pendingWait : BOOLEAN]
RecvBars  == [idx : Int, total : Int, sendState : SendState]
SendBars  == [idx : Int, total : Int, state : SendState]
RecvLists == [items : Seq(Listed), row : Int, selectOnAdd : BOOLEAN]
SendLists == [items : Seq(Scripts), row : Int, state : SendState]
Envs      == [active : BOOLEAN, applied : BOOLEAN, running : BOOLEAN,
              allMsgs : Seq(Listed), toSend : Int,
              dialog : {"None", "Edit", "Comment"}, dialogMsg : AnyMsg, ok : BOOLEAN]

State == [mgr : Managers, recvBar : RecvBars, sendBar : SendBars,
          recvList : RecvLists, sendList : SendLists, env : Envs]

Distinct(msgs) == \A i, j \in DOMAIN msgs : msgs[i] = msgs[j] => i = j

(* No list has a message twice, what is listed is a message of the message *)
(* manager, and the current rows exist.                                    *)
Listings(s) ==
    /\ Distinct(s.env.allMsgs)
    /\ Distinct(s.recvList.items)
    /\ Distinct(s.sendList.items)
    /\ ToSet(s.recvList.items) \subseteq ToSet(s.env.allMsgs)
    /\ s.recvList.row \in Rows(s.recvList)
    /\ s.sendList.row \in Rows(s.sendList)

(* The selected message is displayed and stays so.                         *)
Focus(s) ==
    /\ s.mgr.clicked # NoMsg => /\ s.mgr.displayed = s.mgr.clicked
                                /\ s.mgr.pending = NoMsg
                                /\ ~s.recvList.selectOnAdd
    /\ s.mgr.pending # NoMsg => s.mgr.pendingWait

(* A dialog works on the selected message.                                 *)
Dialogs(s) ==
    IF s.env.dialog = "None" THEN s.env.dialogMsg = NoMsg
    ELSE /\ s.env.dialogMsg = s.mgr.clicked
         /\ s.mgr.clicked # NoMsg
         /\ s.env.dialog = "Edit" => s.mgr.selType = "Send"

(* Nothing asserted so far was false; what applied plugins use is running. *)
Fine(s) == ~PluginsMayFail => s.env.ok /\ (s.env.applied => s.env.running)

Sound(s) == s \in State /\ Listings(s) /\ Focus(s) /\ Dialogs(s) /\ Fine(s)

Selects(s, list, bar) ==
    /\ list.row = bar.idx
    /\ 0 <= list.row
    /\ CurrentMsg(list) = s.mgr.clicked

Selected(s) ==
    /\ s.mgr.selType = "None" <=> s.mgr.clicked = NoMsg
    /\ IF s.mgr.selType = "Recv" THEN Selects(s, s.recvList, s.recvBar)
       ELSE s.recvBar.idx = NoRow
    /\ IF s.mgr.selType = "Send" THEN Selects(s, s.sendList, s.sendBar)
       ELSE s.sendBar.idx = NoRow

RecvCounted(s) == /\ s.mgr.recvListCount = Len(s.recvList.items)
                  /\ s.recvBar.total = Len(s.recvList.items)
SendCounted(s) == /\ s.mgr.sendListCount = Len(s.sendList.items)
                  /\ s.sendBar.total = Len(s.sendList.items)

Sending(s) ==
    /\ s.recvBar.sendState = s.mgr.sendState
    /\ s.sendBar.state = s.mgr.sendState
    /\ s.sendList.state = s.mgr.sendState
    /\ s.mgr.sendState # "Idle" <=> 0 < s.env.toSend
    /\ s.env.toSend \in 0..MaxScript

Fits(s) == Fit(Len(s.env.allMsgs), Len(s.sendList.items))

Whole(s) == /\ Sound(s) /\ Selected(s) /\ RecvCounted(s) /\ SendCounted(s)
            /\ Sending(s) /\ Fits(s)

IInv == Whole(Now)

-----------------------------------------------------------------------------
Be(t, m, rb, sb, rl, sl, e) ==
    /\ t \in State
    /\ t.mgr = m /\ t.recvBar = rb /\ t.sendBar = sb
    /\ t.recvList = rl /\ t.sendList = sl /\ t.env = e

AtIdx(bar, idx)   == [bar EXCEPT !.idx = idx]
AtRow(list, row)  == [list EXCEPT !.row = row]
Adding(list, b)   == [list EXCEPT !.selectOnAdd = b]
Picked(m, sel, msg) == [m EXCEPT !.selType = sel, !.clicked = msg,
                           !.displayed = msg, !.pending = NoMsg]
Unpicked(m) == [m EXCEPT !.selType = "None", !.clicked = NoMsg,
                           !.displayed = NoMsg]

(* The objects of a state.                                                 *)
LEMMA Parts ==
  ASSUME NEW s \in State
  PROVE  /\ s.mgr \in Managers /\ s.recvBar \in RecvBars /\ s.sendBar \in SendBars
         /\ s.recvList \in RecvLists /\ s.sendList \in SendLists /\ s.env \in Envs
BY DEF State

(* An assertion that holds, and the slots of the toolbars that assert one. *)
LEMMA AssertTrue ==
  ASSUME NEW s \in State, NEW c, c
  PROVE  Assert_(s, c) = s
<1>1. s.env \in Envs /\ s = [s EXCEPT !.env = s.env]
  BY DEF State
<1>2. s.env.ok \in BOOLEAN /\ s.env = [s.env EXCEPT !.ok = s.env.ok]
  BY <1>1 DEF Envs
<1>3. CASE s.env.ok = TRUE
  <2>1. (s.env.ok /\ c) = TRUE
    BY <1>3
  <2> QED
    BY <2>1, <1>1, <1>2, <1>3 DEF Assert_, State, Envs
<1>4. CASE s.env.ok = FALSE
  <2>1. (s.env.ok /\ c) = FALSE
    BY <1>4
  <2> QED
    BY <2>1, <1>1, <1>2, <1>4 DEF Assert_, State, Envs
<1> QED
  BY <1>2, <1>3, <1>4

LEMMA RecvRefreshed ==
  ASSUME NEW s \in State, s.recvBar.idx < s.recvBar.total
  PROVE  RecvBarRefresh(s) = s
BY DEF RecvBarRefresh, Assert_, State, Envs

LEMMA SendRefreshed ==
  ASSUME NEW s \in State, s.sendBar.idx < s.sendBar.total
  PROVE  SendBarRefresh(s) = s
BY DEF SendBarRefresh, Assert_, State, Envs

(* Each change of an object: what it sets, and what it leaves.             *)
LEMMA AtIdxIs ==
  ASSUME NEW idx \in Int
  PROVE  /\ \A bar \in RecvBars : /\ AtIdx(bar, idx) \in RecvBars
                                  /\ AtIdx(bar, idx).idx = idx
                                  /\ AtIdx(bar, idx).total = bar.total
                                  /\ AtIdx(bar, idx).sendState = bar.sendState
         /\ \A bar \in SendBars : /\ AtIdx(bar, idx) \in SendBars
                                  /\ AtIdx(bar, idx).idx = idx
                                  /\ AtIdx(bar, idx).total = bar.total
                                  /\ AtIdx(bar, idx).state = bar.state
BY DEF AtIdx, RecvBars, SendBars

LEMMA AtRowIs ==
  ASSUME NEW row \in Int
  PROVE  /\ \A list \in RecvLists : /\ AtRow(list, row) \in RecvLists
                                    /\ AtRow(list, row).items = list.items
                                    /\ AtRow(list, row).row = row
                                    /\ AtRow(list, row).selectOnAdd = list.selectOnAdd
         /\ \A list \in SendLists : /\ AtRow(list, row) \in SendLists
                                    /\ AtRow(list, row).items = list.items
                                    /\ AtRow(list, row).row = row
                                    /\ AtRow(list, row).state = list.state
                                    /\ \A q \in Int : AtRow(AtRow(list, q), row) = AtRow(list, row)
BY DEF AtRow, RecvLists, SendLists

LEMMA AddingIs ==
  ASSUME NEW list \in RecvLists, NEW b \in BOOLEAN
  PROVE  /\ Adding(list, b) \in RecvLists
         /\ Adding(list, b).items = list.items
         /\ Adding(list, b).row = list.row
         /\ Adding(list, b).selectOnAdd = b
BY DEF Adding, RecvLists

LEMMA PickedIs ==
  ASSUME NEW m \in Managers, NEW sel \in Selection, NEW msg \in AnyMsg
  PROVE  /\ Picked(m, sel, msg) \in Managers
         /\ Picked(m, sel, msg).selType = sel
         /\ Picked(m, sel, msg).clicked = msg
         /\ Picked(m, sel, msg).displayed = msg
         /\ Picked(m, sel, msg).pending = NoMsg
         /\ Picked(m, sel, msg).pendingWait = m.pendingWait
         /\ Picked(m, sel, msg).recvListCount = m.recvListCount
         /\ Picked(m, sel, msg).sendListCount = m.sendListCount
         /\ Picked(m, sel, msg).sendState = m.sendState
         /\ Picked(m, sel, msg).recvListMode = m.recvListMode
BY DEF Picked, Managers, AnyMsg

LEMMA UnpickedIs ==
  ASSUME NEW m \in Managers
  PROVE  /\ Unpicked(m) \in Managers
         /\ Unpicked(m).selType = "None"
         /\ Unpicked(m).clicked = NoMsg
         /\ Unpicked(m).displayed = NoMsg
         /\ Unpicked(m).pending = m.pending
         /\ Unpicked(m).pendingWait = m.pendingWait
         /\ Unpicked(m).recvListCount = m.recvListCount
         /\ Unpicked(m).sendListCount = m.sendListCount
         /\ Unpicked(m).sendState = m.sendState
         /\ Unpicked(m).recvListMode = m.recvListMode
BY DEF Unpicked, Managers, AnyMsg, Selection

(* Each slot, when what it asserts holds.                                  *)
LEMMA RecvToldIs ==
  ASSUME NEW s \in State, NEW idx \in Int, idx < s.recvBar.total
  PROVE  Be(RecvMsgSelected(s, idx), s.mgr, AtIdx(s.recvBar, idx), s.sendBar,
            s.recvList, s.sendList, s.env)
<1> DEFINE t == [s EXCEPT !.recvBar.idx = idx]
<1>1. Be(t, s.mgr, AtIdx(s.recvBar, idx), s.sendBar, s.recvList, s.sendList, s.env)
  BY DEF State, RecvBars, Be, AtIdx
<1> HIDE DEF t
<1>2. t.recvBar.idx < t.recvBar.total /\ t \in State
  BY <1>1, Parts, AtIdxIs DEF Be
<1>3. RecvBarRefresh(t) = t
  BY <1>2, RecvRefreshed
<1> QED
  BY <1>1, <1>3 DEF RecvMsgSelected, t

LEMMA SendToldIs ==
  ASSUME NEW s \in State, NEW idx \in Int, idx < s.sendBar.total,
         idx < Len(s.sendList.items)
  PROVE  Be(SendMsgSelected(s, idx), s.mgr, s.recvBar, AtIdx(s.sendBar, idx),
            s.recvList, AtRow(s.sendList, idx), s.env)
<1> DEFINE t == [s EXCEPT !.sendBar.idx = idx]
           u == [t EXCEPT !.sendList.row = idx]
<1>1. Be(t, s.mgr, s.recvBar, AtIdx(s.sendBar, idx), s.recvList, s.sendList, s.env)
  BY DEF State, SendBars, Be, AtIdx
<1> HIDE DEF t
<1>2. t.sendBar.idx < t.sendBar.total /\ t \in State
  BY <1>1, Parts, AtIdxIs DEF Be
<1>3. SendBarRefresh(t) = t
  BY <1>2, SendRefreshed
<1>4. Be(u, s.mgr, s.recvBar, AtIdx(s.sendBar, idx), s.recvList, AtRow(s.sendList, idx), s.env)
  BY <1>1, <1>2 DEF State, SendLists, Be, AtRow
<1> HIDE DEF u
<1>5. Assert_(u, idx < Len(t.sendList.items)) = u
  <2>1. u \in State /\ idx < Len(t.sendList.items)
    BY <1>1, <1>4 DEF Be
  <2> QED BY <2>1, AssertTrue
<1> QED
  BY <1>3, <1>4, <1>5 DEF SendMsgSelected, t, u

LEMMA RecvClearedIs ==
  ASSUME NEW s \in State
  PROVE  Be(RecvClearSelection(s), s.mgr, s.recvBar, s.sendBar,
            AtRow(s.recvList, NoRow), s.sendList, s.env)
BY DEF RecvClearSelection, State, RecvLists, NoRow, Be, AtRow

LEMMA SendClearedIs ==
  ASSUME NEW s \in State
  PROVE  Be(SendClearSelection(s), s.mgr, s.recvBar, s.sendBar,
            s.recvList, AtRow(s.sendList, NoRow), s.env)
BY DEF SendClearSelection, State, SendLists, NoRow, Be, AtRow

LEMMA SelectOnAddIs ==
  ASSUME NEW s \in State, NEW b \in BOOLEAN
  PROVE  Be(SelectOnAdd(s, b), s.mgr, s.recvBar, s.sendBar,
            Adding(s.recvList, b), s.sendList, s.env)
BY DEF SelectOnAdd, State, RecvLists, Be, Adding

LEMMA UndisplayedIs ==
  ASSUME NEW s \in State
  PROVE  Be(ClearDisplayedMessage(s), Unpicked(s.mgr), s.recvBar, s.sendBar,
            s.recvList, s.sendList, s.env)
BY DEF ClearDisplayedMessage, State, Managers, AnyMsg, Selection, Be, Unpicked

(* A message is clicked in the manager, for the first and the second time. *)
LEMMA ClickedAnew ==
  ASSUME NEW s \in State, NEW msg \in AnyMsg, NEW sel \in Selection,
         msg # s.mgr.clicked
  PROVE  Be(MsgClicked(s, msg, sel), Picked(s.mgr, sel, msg), s.recvBar, s.sendBar,
            Adding(s.recvList, FALSE), s.sendList, s.env)
<1> DEFINE a == [s EXCEPT !.mgr.selType = sel, !.mgr.clicked = msg]
           b == DisplayMessage(a, msg)
<1>1. Be(a, [s.mgr EXCEPT !.selType = sel, !.clicked = msg], s.recvBar, s.sendBar,
            s.recvList, s.sendList, s.env)
  BY DEF State, Managers, Be
<1> HIDE DEF a
<1>2. Be(b, [a.mgr EXCEPT !.pending = NoMsg, !.displayed = msg], s.recvBar, s.sendBar,
            s.recvList, s.sendList, s.env)
  BY <1>1 DEF State, Managers, Be, DisplayMessage, AnyMsg
<1> HIDE DEF b
<1>3. b.mgr = Picked(s.mgr, sel, msg)
  BY <1>1, <1>2, Parts DEF Be, Picked, Managers
<1>4. MsgClicked(s, msg, sel) = SelectOnAdd(b, FALSE)
  BY DEF MsgClicked, a, b
<1> QED BY <1>2, <1>3, <1>4, SelectOnAddIs DEF Be

LEMMA ClickedAgain ==
  ASSUME NEW s \in State
  PROVE  Be(MsgClicked(s, s.mgr.clicked, s.mgr.selType), Unpicked(s.mgr), s.recvBar, s.sendBar,
            Adding(s.recvList, TRUE), s.sendList, s.env)
<1>1. Assert_(s, s.mgr.selType = s.mgr.selType) = s
  BY AssertTrue
<1>2. MsgClicked(s, s.mgr.clicked, s.mgr.selType) = SelectOnAdd(ClearDisplayedMessage(s), TRUE)
  BY <1>1 DEF MsgClicked
<1> DEFINE t == ClearDisplayedMessage(s)
<1>3. Be(t, Unpicked(s.mgr), s.recvBar, s.sendBar, s.recvList, s.sendList, s.env)
  BY UndisplayedIs
<1> HIDE DEF t
<1>4. Be(SelectOnAdd(t, TRUE), t.mgr, t.recvBar, t.sendBar, Adding(t.recvList, TRUE),
         t.sendList, t.env)
  BY <1>3, SelectOnAddIs DEF Be
<1> QED
  BY <1>2, <1>3, <1>4 DEF Be, t

-----------------------------------------------------------------------------
(* A click on a message of the lower (upper) list that is not selected, and*)
(* one on the selected message.                                            *)
RecvOnto(t, s, msg, idx) ==
    Be(t, Picked(s.mgr, "Recv", msg), AtIdx(s.recvBar, idx), AtIdx(s.sendBar, NoRow),
       Adding(s.recvList, FALSE), AtRow(s.sendList, NoRow), s.env)
SendOnto(t, s, msg, idx) ==
    Be(t, Picked(s.mgr, "Send", msg), AtIdx(s.recvBar, NoRow), AtIdx(s.sendBar, idx),
       Adding(AtRow(s.recvList, NoRow), FALSE), AtRow(s.sendList, idx), s.env)
Deselected(t, s) ==
    Be(t, Unpicked(s.mgr), AtIdx(s.recvBar, NoRow), AtIdx(s.sendBar, NoRow),
       Adding(AtRow(s.recvList, NoRow), TRUE), AtRow(s.sendList, NoRow), s.env)

Total(s) == 0 <= s.recvBar.total /\ 0 <= s.sendBar.total

(* No message is none of the messages, no row none of the rows.            *)
LEMMA NoMsgIsNone ==
  /\ NoMsg \notin Listed /\ NoMsg \notin Scripts /\ Listed \cap Scripts = {}
  /\ NoMsg \in AnyMsg /\ Listed \subseteq AnyMsg /\ Scripts \subseteq AnyMsg
  /\ NoRow \in Int /\ NoRow < 0
BY KindsAssumption DEF Listed, Scripts, MsgOfKind, NoMsg, AnyMsg, NoRow

(* A toolbar is told that no row is selected.                              *)
LEMMA NoRecvTold ==
  ASSUME NEW s \in State, Total(s)
  PROVE  Be(RecvMsgSelected(s, NoRow), s.mgr, AtIdx(s.recvBar, NoRow), s.sendBar,
            s.recvList, s.sendList, s.env)
<1>1. s.recvBar.total \in Int
  BY Parts DEF RecvBars
<1> QED
  BY <1>1, NoMsgIsNone, RecvToldIs DEF Total

LEMMA NoSendTold ==
  ASSUME NEW s \in State, Total(s)
  PROVE  Be(SendMsgSelected(s, NoRow), s.mgr, s.recvBar, AtIdx(s.sendBar, NoRow),
            s.recvList, AtRow(s.sendList, NoRow), s.env)
<1>1. s.sendBar.total \in Int /\ s.sendList.items \in Seq(Scripts)
  BY Parts DEF SendBars, SendLists
<1>2. Len(s.sendList.items) \in Nat
  BY <1>1
<1> QED
  BY <1>1, <1>2, NoMsgIsNone, SendToldIs DEF Total

(* The first half of both handlers of a click: the other list and toolbar. *)
LEMMA SendAside ==
  ASSUME NEW s \in State, Total(s)
  PROVE  Be(SendMsgSelected(SendClearSelection(s), NoRow), s.mgr, s.recvBar,
            AtIdx(s.sendBar, NoRow), s.recvList, AtRow(s.sendList, NoRow), s.env)
<1> DEFINE a == SendClearSelection(s)
<1>1. Be(a, s.mgr, s.recvBar, s.sendBar, s.recvList, AtRow(s.sendList, NoRow), s.env)
  BY SendClearedIs
<1> HIDE DEF a
<1>2. a \in State /\ Total(a)
  BY <1>1 DEF Be, Total
<1>3. AtRow(a.sendList, NoRow) = AtRow(s.sendList, NoRow)
  BY <1>1, Parts, AtRowIs, NoMsgIsNone DEF Be
<1> QED
  BY <1>1, <1>2, <1>3, NoSendTold DEF Be, a

LEMMA RecvAside ==
  ASSUME NEW s \in State, Total(s)
  PROVE  Be(RecvMsgSelected(RecvClearSelection(s), NoRow), s.mgr,
            AtIdx(s.recvBar, NoRow), s.sendBar, AtRow(s.recvList, NoRow),
            s.sendList, s.env)
<1> DEFINE a == RecvClearSelection(s)
<1>1. Be(a, s.mgr, s.recvBar, s.sendBar, AtRow(s.recvList, NoRow), s.sendList, s.env)
  BY RecvClearedIs
<1> HIDE DEF a
<1>2. a \in State /\ Total(a)
  BY <1>1 DEF Be, Total
<1> QED
  BY <1>1, <1>2, NoRecvTold DEF Be, a

(* A click on another message, and on the selected one.                    *)
LEMMA RecvOntoIs ==
  ASSUME NEW s \in State, Total(s), NEW msg \in Listed, NEW idx \in Int,
         idx < s.recvBar.total, msg # s.mgr.clicked
  PROVE  RecvOnto(RecvMsgClicked(s, msg, idx), s, msg, idx)
<1> DEFINE a == SendMsgSelected(SendClearSelection(s), NoRow)
           b == MsgClicked(a, msg, "Recv")
<1>1. Be(a, s.mgr, s.recvBar, AtIdx(s.sendBar, NoRow), s.recvList,
         AtRow(s.sendList, NoRow), s.env)
  BY SendAside
<1> HIDE DEF a
<1>2. Be(b, Picked(s.mgr, "Recv", msg), s.recvBar, AtIdx(s.sendBar, NoRow),
         Adding(s.recvList, FALSE), AtRow(s.sendList, NoRow), s.env)
  <2>1. msg \in AnyMsg /\ "Recv" \in Selection /\ a \in State /\ msg # a.mgr.clicked
    BY <1>1, NoMsgIsNone DEF Selection, Be
  <2>2. Be(MsgClicked(a, msg, "Recv"), Picked(a.mgr, "Recv", msg), a.recvBar,
           a.sendBar, Adding(a.recvList, FALSE), a.sendList, a.env)
    BY <2>1, ClickedAnew
  <2> QED
    BY <1>1, <2>2 DEF Be
<1> HIDE DEF b
<1>3. b.mgr.clicked # NoMsg /\ b \in State /\ idx < b.recvBar.total
  <2>1. Picked(s.mgr, "Recv", msg).clicked = msg
    BY Parts, PickedIs, NoMsgIsNone DEF Selection
  <2> QED
    BY <1>2, <2>1, NoMsgIsNone DEF Be
<1>4. RecvMsgClicked(s, msg, idx) = RecvMsgSelected(b, idx)
  BY <1>3 DEF RecvMsgClicked, a, b
<1>5. Be(RecvMsgSelected(b, idx), b.mgr, AtIdx(b.recvBar, idx), b.sendBar,
         b.recvList, b.sendList, b.env)
  BY <1>3, RecvToldIs
<1> QED
  BY <1>2, <1>4, <1>5 DEF Be, RecvOnto

-----------------------------------------------------------------------------
LEMMA SendOntoIs ==
  ASSUME NEW s \in State, Total(s), NEW msg \in Scripts, NEW idx \in Int,
         idx < s.sendBar.total, idx < Len(s.sendList.items), msg # s.mgr.clicked
  PROVE  SendOnto(SendMsgClicked(s, msg, idx), s, msg, idx)
<1> DEFINE a == RecvMsgSelected(RecvClearSelection(s), NoRow)
           b == MsgClicked(a, msg, "Send")
<1>1. Be(a, s.mgr, AtIdx(s.recvBar, NoRow), s.sendBar, AtRow(s.recvList, NoRow),
         s.sendList, s.env)
  BY RecvAside
<1> HIDE DEF a
<1>2. Be(b, Picked(s.mgr, "Send", msg), AtIdx(s.recvBar, NoRow), s.sendBar,
         Adding(AtRow(s.recvList, NoRow), FALSE), s.sendList, s.env)
  <2>1. msg \in AnyMsg /\ "Send" \in Selection /\ a \in State /\ msg # a.mgr.clicked
    BY <1>1, NoMsgIsNone DEF Selection, Be
  <2>2. Be(MsgClicked(a, msg, "Send"), Picked(a.mgr, "Send", msg), a.recvBar,
           a.sendBar, Adding(a.recvList, FALSE), a.sendList, a.env)
    BY <2>1, ClickedAnew
  <2> QED
    BY <1>1, <2>2 DEF Be
<1> HIDE DEF b
<1>3. /\ b.mgr.clicked # NoMsg /\ b \in State /\ idx < b.sendBar.total
      /\ idx < Len(b.sendList.items)
  <2>1. Picked(s.mgr, "Send", msg).clicked = msg
    BY Parts, PickedIs, NoMsgIsNone DEF Selection
  <2> QED
    BY <1>2, <2>1, NoMsgIsNone DEF Be
<1>4. SendMsgClicked(s, msg, idx) = SendMsgSelected(b, idx)
  BY <1>3 DEF SendMsgClicked, a, b
<1>5. Be(SendMsgSelected(b, idx), b.mgr, b.recvBar, AtIdx(b.sendBar, idx),
         b.recvList, AtRow(b.sendList, idx), b.env)
  BY <1>3, SendToldIs
<1> QED
  BY <1>2, <1>4, <1>5 DEF Be, SendOnto

LEMMA RecvOffIs ==
  ASSUME NEW s \in State, Total(s), s.mgr.selType = "Recv", NEW idx
  PROVE  Deselected(RecvMsgClicked(s, s.mgr.clicked, idx), s)
<1> DEFINE a == SendMsgSelected(SendClearSelection(s), NoRow)
           b == MsgClicked(a, s.mgr.clicked, "Recv")
           c == RecvClearSelection(b)
<1>1. Be(a, s.mgr, s.recvBar, AtIdx(s.sendBar, NoRow), s.recvList,
         AtRow(s.sendList, NoRow), s.env)
  BY SendAside
<1> HIDE DEF a
<1>2. Be(b, Unpicked(s.mgr), s.recvBar, AtIdx(s.sendBar, NoRow),
         Adding(s.recvList, TRUE), AtRow(s.sendList, NoRow), s.env)
  <2>1. a \in State
    BY <1>1 DEF Be
  <2>2. Be(MsgClicked(a, a.mgr.clicked, a.mgr.selType), Unpicked(a.mgr), a.recvBar,
           a.sendBar, Adding(a.recvList, TRUE), a.sendList, a.env)
    BY <2>1, ClickedAgain
  <2>3. a.mgr.clicked = s.mgr.clicked /\ a.mgr.selType = "Recv"
    BY <1>1 DEF Be
  <2> QED
    BY <1>1, <2>2, <2>3 DEF Be
<1> HIDE DEF b
<1>3. b.mgr.clicked = NoMsg /\ b \in State
  <2>1. Unpicked(s.mgr).clicked = NoMsg
    BY Parts, UnpickedIs
  <2> QED
    BY <1>2, <2>1 DEF Be
<1>4. Be(c, b.mgr, b.recvBar, b.sendBar, AtRow(b.recvList, NoRow), b.sendList, b.env)
  BY <1>3, RecvClearedIs
<1>5. RecvMsgClicked(s, s.mgr.clicked, idx) = RecvMsgSelected(c, NoRow)
  BY <1>3 DEF RecvMsgClicked, a, b, c
<1> HIDE DEF c
<1>6. c \in State /\ Total(c)
  <2>1. AtIdx(s.sendBar, NoRow).total = s.sendBar.total
    BY Parts, AtIdxIs, NoMsgIsNone
  <2> QED
    BY <1>2, <1>4, <2>1 DEF Be, Total
<1>7. Be(RecvMsgSelected(c, NoRow), c.mgr, AtIdx(c.recvBar, NoRow), c.sendBar,
         c.recvList, c.sendList, c.env)
  BY <1>6, NoRecvTold
<1>8. AtRow(Adding(s.recvList, TRUE), NoRow) = Adding(AtRow(s.recvList, NoRow), TRUE)
  BY Parts, NoMsgIsNone DEF AtRow, Adding, RecvLists
<1> QED
  BY <1>2, <1>4, <1>5, <1>7, <1>8 DEF Be, Deselected

LEMMA SendOffIs ==
  ASSUME NEW s \in State, Total(s), s.mgr.selType = "Send", NEW idx
  PROVE  Deselected(SendMsgClicked(s, s.mgr.clicked, idx), s)
<1> DEFINE a == RecvMsgSelected(RecvClearSelection(s), NoRow)
           b == MsgClicked(a, s.mgr.clicked, "Send")
           c == SendClearSelection(b)
<1>1. Be(a, s.mgr, AtIdx(s.recvBar, NoRow), s.sendBar, AtRow(s.recvList, NoRow),
         s.sendList, s.env)
  BY RecvAside
<1> HIDE DEF a
<1>2. Be(b, Unpicked(s.mgr), AtIdx(s.recvBar, NoRow), s.sendBar,
         Adding(AtRow(s.recvList, NoRow), TRUE), s.sendList, s.env)
  <2>1. a \in State
    BY <1>1 DEF Be
  <2>2. Be(MsgClicked(a, a.mgr.clicked, a.mgr.selType), Unpicked(a.mgr), a.recvBar,
           a.sendBar, Adding(a.recvList, TRUE), a.sendList, a.env)
    BY <2>1, ClickedAgain
  <2>3. a.mgr.clicked = s.mgr.clicked /\ a.mgr.selType = "Send"
    BY <1>1 DEF Be
  <2> QED
    BY <1>1, <2>2, <2>3 DEF Be
<1> HIDE DEF b
<1>3. b.mgr.clicked = NoMsg /\ b \in State
  <2>1. Unpicked(s.mgr).clicked = NoMsg
    BY Parts, UnpickedIs
  <2> QED
    BY <1>2, <2>1 DEF Be
<1>4. Be(c, b.mgr, b.recvBar, b.sendBar, b.recvList, AtRow(b.sendList, NoRow), b.env)
  BY <1>3, SendClearedIs
<1>5. SendMsgClicked(s, s.mgr.clicked, idx) = SendMsgSelected(c, NoRow)
  BY <1>3 DEF SendMsgClicked, a, b, c
<1> HIDE DEF c
<1>6. c \in State /\ Total(c)
  <2>1. AtIdx(s.recvBar, NoRow).total = s.recvBar.total
    BY Parts, AtIdxIs, NoMsgIsNone
  <2> QED
    BY <1>2, <1>4, <2>1 DEF Be, Total
<1>7. Be(SendMsgSelected(c, NoRow), c.mgr, c.recvBar, AtIdx(c.sendBar, NoRow),
         c.recvList, AtRow(c.sendList, NoRow), c.env)
  BY <1>6, NoSendTold
<1>8. AtRow(AtRow(s.sendList, NoRow), NoRow) = AtRow(s.sendList, NoRow)
  BY Parts, NoMsgIsNone, AtRowIs
<1> QED
  BY <1>2, <1>4, <1>5, <1>7, <1>8 DEF Be, Deselected

-----------------------------------------------------------------------------
(* What a click leaves sound and counted.                                  *)
LEMMA RowsOfLists ==
  ASSUME NEW s \in State
  PROVE  /\ NoRow \in Rows(s.recvList) /\ NoRow \in Rows(s.sendList)
         /\ Len(s.recvList.items) \in Nat /\ Len(s.sendList.items) \in Nat
         /\ \A l : l.items = s.recvList.items => Rows(l) = Rows(s.recvList)
         /\ \A l : l.items = s.sendList.items => Rows(l) = Rows(s.sendList)
<1>1. s.recvList.items \in Seq(Listed) /\ s.sendList.items \in Seq(Scripts)
  BY Parts DEF RecvLists, SendLists
<1>2. Len(s.recvList.items) \in Nat /\ Len(s.sendList.items) \in Nat
  BY <1>1
<1> QED
  BY <1>2 DEF Rows, NoRow

(* What a click leaves as it is.                                           *)
Kept(t, s) ==
    /\ t \in State /\ t.env = s.env
    /\ t.mgr.pendingWait = s.mgr.pendingWait
    /\ t.mgr.recvListCount = s.mgr.recvListCount
    /\ t.mgr.sendListCount = s.mgr.sendListCount
    /\ t.mgr.sendState = s.mgr.sendState
    /\ t.mgr.recvListMode = s.mgr.recvListMode
    /\ t.recvBar.total = s.recvBar.total
    /\ t.recvBar.sendState = s.recvBar.sendState
    /\ t.sendBar.total = s.sendBar.total
    /\ t.sendBar.state = s.sendBar.state
    /\ t.recvList.items = s.recvList.items
    /\ t.sendList.items = s.sendList.items
    /\ t.sendList.state = s.sendList.state

(* What it changes.                                                        *)
Focused(t, sel, msg, recvIdx, sendIdx) ==
    /\ t.mgr.selType = sel /\ t.mgr.clicked = msg /\ t.mgr.displayed = msg
    /\ t.mgr.pending = NoMsg
    /\ t.recvBar.idx = recvIdx
    /\ t.sendBar.idx = sendIdx /\ t.sendList.row = sendIdx
    /\ t.recvList.selectOnAdd = FALSE

(* The two outcomes of a click, field by field.                            *)
LEMMA RecvOntoFields ==
  ASSUME NEW s \in State, NEW msg \in AnyMsg, NEW idx \in Int, NEW t,
         RecvOnto(t, s, msg, idx)
  PROVE  /\ Kept(t, s) /\ Focused(t, "Recv", msg, idx, NoRow)
         /\ t.recvList.row = s.recvList.row
<1>1. /\ t \in State /\ t.env = s.env /\ t.mgr = Picked(s.mgr, "Recv", msg)
      /\ t.recvBar = AtIdx(s.recvBar, idx) /\ t.sendBar = AtIdx(s.sendBar, NoRow)
      /\ t.recvList = Adding(s.recvList, FALSE) /\ t.sendList = AtRow(s.sendList, NoRow)
      /\ "Recv" \in Selection /\ NoRow \in Int
  BY NoMsgIsNone DEF RecvOnto, Be, Selection
<1>2. /\ t.mgr.selType = "Recv" /\ t.mgr.clicked = msg /\ t.mgr.displayed = msg
      /\ t.mgr.pending = NoMsg /\ t.mgr.pendingWait = s.mgr.pendingWait
      /\ t.mgr.recvListCount = s.mgr.recvListCount
      /\ t.mgr.sendListCount = s.mgr.sendListCount
      /\ t.mgr.sendState = s.mgr.sendState
      /\ t.mgr.recvListMode = s.mgr.recvListMode
  BY <1>1, PickedIs, Parts
<1>3. /\ t.recvBar.idx = idx /\ t.recvBar.total = s.recvBar.total
      /\ t.recvBar.sendState = s.recvBar.sendState
      /\ t.sendBar.idx = NoRow /\ t.sendBar.total = s.sendBar.total
      /\ t.sendBar.state = s.sendBar.state
  BY <1>1, AtIdxIs, Parts
<1>4. /\ t.recvList.items = s.recvList.items /\ t.recvList.row = s.recvList.row
      /\ t.recvList.selectOnAdd = FALSE
  <2>1. s.recvList \in RecvLists
    BY Parts
  <2> QED
    BY <1>1, <2>1, AddingIs
<1>5. /\ t.sendList.items = s.sendList.items /\ t.sendList.row = NoRow
      /\ t.sendList.state = s.sendList.state
  BY <1>1, AtRowIs, Parts
<1> QED
  BY <1>1, <1>2, <1>3, <1>4, <1>5 DEF Kept, Focused

LEMMA SendOntoFields ==
  ASSUME NEW s \in State, NEW msg \in AnyMsg, NEW idx \in Int, NEW t,
         SendOnto(t, s, msg, idx)
  PROVE  /\ Kept(t, s) /\ Focused(t, "Send", msg, NoRow, idx)
         /\ t.recvList.row = NoRow
<1>1. /\ t \in State /\ t.env = s.env /\ t.mgr = Picked(s.mgr, "Send", msg)
      /\ t.recvBar = AtIdx(s.recvBar, NoRow) /\ t.sendBar = AtIdx(s.sendBar, idx)
      /\ t.recvList = Adding(AtRow(s.recvList, NoRow), FALSE)
      /\ t.sendList = AtRow(s.sendList, idx)
      /\ "Send" \in Selection /\ NoRow \in Int
  BY NoMsgIsNone DEF SendOnto, Be, Selection
<1>2. /\ t.mgr.selType = "Send" /\ t.mgr.clicked = msg /\ t.mgr.displayed = msg
      /\ t.mgr.pending = NoMsg /\ t.mgr.pendingWait = s.mgr.pendingWait
      /\ t.mgr.recvListCount = s.mgr.recvListCount
      /\ t.mgr.sendListCount = s.mgr.sendListCount
      /\ t.mgr.sendState = s.mgr.sendState
      /\ t.mgr.recvListMode = s.mgr.recvListMode
  BY <1>1, PickedIs, Parts
<1>3. /\ t.recvBar.idx = NoRow /\ t.recvBar.total = s.recvBar.total
      /\ t.recvBar.sendState = s.recvBar.sendState
      /\ t.sendBar.idx = idx /\ t.sendBar.total = s.sendBar.total
      /\ t.sendBar.state = s.sendBar.state
  BY <1>1, AtIdxIs, Parts
<1>4. /\ t.recvList.items = s.recvList.items /\ t.recvList.row = NoRow
      /\ t.recvList.selectOnAdd = FALSE
  <2>1. /\ AtRow(s.recvList, NoRow) \in RecvLists
        /\ AtRow(s.recvList, NoRow).items = s.recvList.items
        /\ AtRow(s.recvList, NoRow).row = NoRow
    BY <1>1, AtRowIs, Parts
  <2> QED
    BY <1>1, <2>1, AddingIs
<1>5. /\ t.sendList.items = s.sendList.items /\ t.sendList.row = idx
      /\ t.sendList.state = s.sendList.state
  BY <1>1, AtRowIs, Parts
<1> QED
  BY <1>1, <1>2, <1>3, <1>4, <1>5 DEF Kept, Focused

LEMMA DeselectedFields ==
  ASSUME NEW s \in State, NEW t, Deselected(t, s)
  PROVE  /\ Kept(t, s)
         /\ t.mgr.selType = "None" /\ t.mgr.clicked = NoMsg
         /\ t.mgr.displayed = NoMsg /\ t.mgr.pending = s.mgr.pending
         /\ t.recvBar.idx = NoRow /\ t.recvList.row = NoRow
         /\ t.sendBar.idx = NoRow /\ t.sendList.row = NoRow
         /\ t.recvList.selectOnAdd = TRUE
<1>1. /\ t \in State /\ t.env = s.env /\ t.mgr = Unpicked(s.mgr) /\ NoRow \in Int
      /\ t.recvBar = AtIdx(s.recvBar, NoRow) /\ t.sendBar = AtIdx(s.sendBar, NoRow)
      /\ t.recvList = Adding(AtRow(s.recvList, NoRow), TRUE)
      /\ t.sendList = AtRow(s.sendList, NoRow)
  BY NoMsgIsNone DEF Deselected, Be
<1>2. /\ t.mgr.selType = "None" /\ t.mgr.clicked = NoMsg /\ t.mgr.displayed = NoMsg
      /\ t.mgr.pending = s.mgr.pending /\ t.mgr.pendingWait = s.mgr.pendingWait
      /\ t.mgr.recvListCount = s.mgr.recvListCount
      /\ t.mgr.sendListCount = s.mgr.sendListCount
      /\ t.mgr.sendState = s.mgr.sendState
      /\ t.mgr.recvListMode = s.mgr.recvListMode
  BY <1>1, UnpickedIs, Parts
<1>3. /\ t.recvBar.idx = NoRow /\ t.recvBar.total = s.recvBar.total
      /\ t.recvBar.sendState = s.recvBar.sendState
      /\ t.sendBar.idx = NoRow /\ t.sendBar.total = s.sendBar.total
      /\ t.sendBar.state = s.sendBar.state
  BY <1>1, AtIdxIs, Parts
<1>4. /\ t.recvList.items = s.recvList.items /\ t.recvList.row = NoRow
      /\ t.recvList.selectOnAdd = TRUE
  <2>1. /\ AtRow(s.recvList, NoRow) \in RecvLists
        /\ AtRow(s.recvList, NoRow).items = s.recvList.items
        /\ AtRow(s.recvList, NoRow).row = NoRow
    BY <1>1, AtRowIs, Parts
  <2> QED
    BY <1>1, <2>1, AddingIs
<1>5. /\ t.sendList.items = s.sendList.items /\ t.sendList.row = NoRow
      /\ t.sendList.state = s.sendList.state
  BY <1>1, AtRowIs, Parts
<1> QED
  BY <1>1, <1>2, <1>3, <1>4, <1>5 DEF Kept

(* What is sound stays so.                                                 *)
LEMMA RecvOntoSound ==
  ASSUME NEW s, Sound(s), s.env.dialog = "None", NEW msg \in AnyMsg, NEW idx \in Int,
         NEW t, RecvOnto(t, s, msg, idx)
  PROVE  Sound(t)
<1>1. s \in State /\ Listings(s) /\ Focus(s) /\ Dialogs(s) /\ Fine(s)
  BY DEF Sound
<1>2. Kept(t, s) /\ Focused(t, "Recv", msg, idx, NoRow) /\ t.recvList.row = s.recvList.row
  BY <1>1, RecvOntoFields
<1>3. Listings(t)
  BY <1>1, <1>2, RowsOfLists DEF Listings, Kept, Focused
<1>4. Focus(t)
  BY <1>1, <1>2 DEF Focus, Kept, Focused
<1> QED
  BY <1>1, <1>2, <1>3, <1>4 DEF Sound, Dialogs, Fine, Kept

LEMMA SendOntoSound ==
  ASSUME NEW s, Sound(s), s.env.dialog = "None", NEW msg \in AnyMsg,
         NEW idx \in Int, idx \in Rows(s.sendList),
         NEW t, SendOnto(t, s, msg, idx)
  PROVE  Sound(t)
<1>1. s \in State /\ Listings(s) /\ Focus(s) /\ Dialogs(s) /\ Fine(s)
  BY DEF Sound
<1>2. Kept(t, s) /\ Focused(t, "Send", msg, NoRow, idx) /\ t.recvList.row = NoRow
  BY <1>1, SendOntoFields
<1>3. Listings(t)
  BY <1>1, <1>2, RowsOfLists DEF Listings, Kept, Focused
<1>4. Focus(t)
  BY <1>1, <1>2 DEF Focus, Kept, Focused
<1> QED
  BY <1>1, <1>2, <1>3, <1>4 DEF Sound, Dialogs, Fine, Kept

LEMMA DeselectedSound ==
  ASSUME NEW s, Sound(s), s.env.dialog = "None", NEW t, Deselected(t, s)
  PROVE  Sound(t)
<1>1. s \in State /\ Listings(s) /\ Focus(s) /\ Dialogs(s) /\ Fine(s)
  BY DEF Sound
<1>2. /\ Kept(t, s) /\ t.mgr.clicked = NoMsg /\ t.mgr.pending = s.mgr.pending
      /\ t.recvList.row = NoRow /\ t.sendList.row = NoRow
  BY <1>1, DeselectedFields
<1>3. Listings(t)
  BY <1>1, <1>2, RowsOfLists DEF Listings, Kept
<1>4. Focus(t)
  BY <1>1, <1>2 DEF Focus, Kept
<1> QED
  BY <1>1, <1>2, <1>3, <1>4 DEF Sound, Dialogs, Fine, Kept

(* The counts and what is being sent are not touched by a click.           *)
LEMMA KeptAgrees ==
  ASSUME NEW s, NEW t, Kept(t, s)
  PROVE  /\ RecvCounted(s) => RecvCounted(t)
         /\ SendCounted(s) => SendCounted(t)
         /\ Sending(s) => Sending(t)
         /\ Fits(s) => Fits(t)
         /\ Total(s) => Total(t)
BY DEF Kept, RecvCounted, SendCounted, Sending, Fits, Total

-----------------------------------------------------------------------------
(* A step, as the next state of all the objects.                           *)
LEMMA BecomeIs ==
  ASSUME NEW t \in State, Become(t)
  PROVE  Now' = t
BY DEF Become, Now, State

LEMMA NowIs ==
  /\ Now.mgr = mgr /\ Now.recvBar = recvBar /\ Now.sendBar = sendBar
  /\ Now.recvList = recvList /\ Now.sendList = sendList /\ Now.env = env
BY DEF Now

(* What the invariant is made of.                                          *)
LEMMA WholeIs ==
  ASSUME NEW s, Whole(s)
  PROVE  /\ s \in State /\ Sound(s) /\ Listings(s) /\ Focus(s) /\ Dialogs(s) /\ Fine(s)
         /\ Selected(s) /\ RecvCounted(s) /\ SendCounted(s) /\ Sending(s) /\ Fits(s)
         /\ Total(s)
         /\ s.recvList.items \in Seq(Listed) /\ s.sendList.items \in Seq(Scripts)
         /\ Len(s.recvList.items) \in Nat /\ Len(s.sendList.items) \in Nat
<1>1. /\ s \in State /\ Sound(s) /\ Listings(s) /\ Focus(s) /\ Dialogs(s) /\ Fine(s)
      /\ Selected(s) /\ RecvCounted(s) /\ SendCounted(s) /\ Sending(s) /\ Fits(s)
  BY DEF Whole, Sound
<1>2. s.recvList.items \in Seq(Listed) /\ s.sendList.items \in Seq(Scripts)
  BY <1>1, Parts DEF RecvLists, SendLists
<1>3. Len(s.recvList.items) \in Nat /\ Len(s.sendList.items) \in Nat
  BY <1>2
<1>4. Total(s)
  BY <1>1, <1>3 DEF Total, RecvCounted, SendCounted
<1> QED
  BY <1>1, <1>2, <1>3, <1>4

(* The selected message is of the list that the manager says.              *)
LEMMA SelectedIs ==
  ASSUME NEW s, Whole(s)
  PROVE  /\ s.mgr.selType = "Recv" <=> s.mgr.clicked \in Listed
         /\ s.mgr.selType = "Send" <=> s.mgr.clicked \in Scripts
         /\ s.mgr.selType = "None" <=> s.mgr.clicked = NoMsg
         /\ s.mgr.selType \in {"Recv", "Send", "None"}
<1>1. s \in State /\ Listings(s) /\ Selected(s) /\ s.mgr \in Managers
      /\ s.recvList.items \in Seq(Listed) /\ s.sendList.items \in Seq(Scripts)
  BY WholeIs, Parts
<1>2. s.mgr.selType \in {"Recv", "Send", "None"} /\ s.mgr.clicked \in AnyMsg
  BY <1>1 DEF Managers, Selection
<1>3. CASE s.mgr.selType = "Recv"
  <2>1. s.recvList.row + 1 \in 1..Len(s.recvList.items)
        /\ s.mgr.clicked = s.recvList.items[s.recvList.row + 1]
    BY <1>1, <1>3 DEF Selected, Selects, CurrentMsg, Listings, Rows, NoRow
  <2>2. s.mgr.clicked \in Listed
    BY <1>1, <2>1
  <2> QED
    BY <1>3, <2>2, NoMsgIsNone
<1>4. CASE s.mgr.selType = "Send"
  <2>1. s.sendList.row + 1 \in 1..Len(s.sendList.items)
        /\ s.mgr.clicked = s.sendList.items[s.sendList.row + 1]
    BY <1>1, <1>4 DEF Selected, Selects, CurrentMsg, Listings, Rows, NoRow
  <2>2. s.mgr.clicked \in Scripts
    BY <1>1, <2>1
  <2> QED
    BY <1>4, <2>2, NoMsgIsNone
<1>5. CASE s.mgr.selType = "None"
  BY <1>1, <1>5, NoMsgIsNone DEF Selected
<1> QED
  BY <1>2, <1>3, <1>4, <1>5

(* A click on a message that is not selected selects it, one on the        *)
(* selected message drops the selection; in between, the counts of the     *)
(* toolbars may be those of before a change.                               *)
LEMMA RecvPicks ==
  ASSUME NEW s, Sound(s), Total(s), s.env.dialog = "None",
         NEW msg \in Listed, msg # s.mgr.clicked,
         NEW idx \in Int, 0 <= idx, idx < s.recvBar.total,
         s.recvList.row = idx, CurrentMsg(s.recvList) = msg,
         NEW t, t = RecvMsgClicked(s, msg, idx)
  PROVE  /\ Sound(t) /\ Kept(t, s) /\ Selected(t)
         /\ t.mgr.selType = "Recv" /\ t.mgr.clicked = msg
<1>1. s \in State /\ msg \in AnyMsg
  BY NoMsgIsNone DEF Sound
<1>2. RecvOnto(t, s, msg, idx)
  BY <1>1, RecvOntoIs
<1>3. Sound(t)
  BY <1>1, <1>2, RecvOntoSound
<1>4. /\ Kept(t, s) /\ Focused(t, "Recv", msg, idx, NoRow)
      /\ t.recvList.row = idx
  BY <1>1, <1>2, RecvOntoFields
<1>5. CurrentMsg(t.recvList) = msg
  BY <1>4 DEF CurrentMsg, Kept
<1>6. Selected(t)
  BY <1>4, <1>5, NoMsgIsNone DEF Selected, Selects, Focused
<1> QED
  BY <1>3, <1>4, <1>6 DEF Focused

LEMMA RecvDrops ==
  ASSUME NEW s, Sound(s), Total(s), s.env.dialog = "None",
         NEW msg, msg = s.mgr.clicked, s.mgr.selType = "Recv", NEW idx,
         NEW t, t = RecvMsgClicked(s, msg, idx)
  PROVE  /\ Sound(t) /\ Kept(t, s) /\ Selected(t) /\ t.mgr.selType = "None"
         /\ t.mgr.clicked = NoMsg /\ t.recvList.selectOnAdd = TRUE
<1>1. s \in State
  BY DEF Sound
<1>2. Deselected(t, s)
  BY <1>1, RecvOffIs
<1>3. Sound(t)
  BY <1>2, DeselectedSound
<1>4. /\ Kept(t, s) /\ t.mgr.clicked = NoMsg /\ t.mgr.selType = "None"
      /\ t.recvBar.idx = NoRow /\ t.sendBar.idx = NoRow
      /\ t.recvList.selectOnAdd = TRUE
  BY <1>1, <1>2, DeselectedFields
<1>5. Selected(t)
  BY <1>4 DEF Selected
<1> QED
  BY <1>3, <1>4, <1>5

LEMMA SendPicks ==
  ASSUME NEW s, Sound(s), Total(s), s.env.dialog = "None",
         NEW msg \in Scripts, msg # s.mgr.clicked,
         NEW idx \in Int, 0 <= idx, idx < s.sendBar.total,
         idx < Len(s.sendList.items), s.sendList.items[idx + 1] = msg,
         NEW t, t = SendMsgClicked(s, msg, idx)
  PROVE  /\ Sound(t) /\ Kept(t, s) /\ Selected(t)
         /\ t.mgr.selType = "Send" /\ t.mgr.clicked = msg
<1>1. s \in State /\ msg \in AnyMsg /\ Len(s.sendList.items) \in Nat
  BY NoMsgIsNone, RowsOfLists DEF Sound
<1>2. SendOnto(t, s, msg, idx)
  BY <1>1, SendOntoIs
<1>3. Sound(t)
  <2>1. idx \in Rows(s.sendList)
    BY <1>1 DEF Rows, NoRow
  <2> QED
    BY <1>1, <1>2, <2>1, SendOntoSound
<1>4. /\ Kept(t, s) /\ Focused(t, "Send", msg, NoRow, idx)
      /\ t.recvList.row = NoRow
  BY <1>1, <1>2, SendOntoFields
<1>5. CurrentMsg(t.sendList) = msg
  BY <1>4 DEF CurrentMsg, Kept, Focused
<1>6. Selected(t)
  BY <1>4, <1>5, NoMsgIsNone DEF Selected, Selects, Focused
<1> QED
  BY <1>3, <1>4, <1>6 DEF Focused

LEMMA SendDrops ==
  ASSUME NEW s, Sound(s), Total(s), s.env.dialog = "None",
         NEW msg, msg = s.mgr.clicked, s.mgr.selType = "Send", NEW idx,
         NEW t, t = SendMsgClicked(s, msg, idx)
  PROVE  /\ Sound(t) /\ Kept(t, s) /\ Selected(t) /\ t.mgr.selType = "None"
         /\ t.mgr.clicked = NoMsg
<1>1. s \in State
  BY DEF Sound
<1>2. Deselected(t, s)
  BY <1>1, SendOffIs
<1>3. Sound(t)
  BY <1>2, DeselectedSound
<1>4. /\ Kept(t, s) /\ t.mgr.clicked = NoMsg /\ t.mgr.selType = "None"
      /\ t.recvBar.idx = NoRow /\ t.sendBar.idx = NoRow
  BY <1>1, <1>2, DeselectedFields
<1>5. Selected(t)
  BY <1>4 DEF Selected
<1> QED
  BY <1>3, <1>4, <1>5

(* Another row becomes the current one of a list.                          *)
RecvRowIs(a, s, row) == Kept(a, s) /\ a.mgr = s.mgr /\ a.recvList.row = row
LEMMA RecvRowSound ==
  ASSUME NEW s, Sound(s), NEW row \in Int, row \in Rows(s.recvList),
         NEW a, a = [s EXCEPT !.recvList.row = row]
  PROVE  Sound(a) /\ RecvRowIs(a, s, row)
<1>1. s \in State /\ Listings(s) /\ Focus(s) /\ Dialogs(s) /\ Fine(s)
  BY DEF Sound
<1>2. /\ a \in State /\ a.mgr = s.mgr /\ a.recvBar = s.recvBar /\ a.sendBar = s.sendBar
      /\ a.recvList = AtRow(s.recvList, row) /\ a.sendList = s.sendList
      /\ a.env = s.env
  BY <1>1 DEF State, RecvLists, AtRow
<1>3. /\ AtRow(s.recvList, row).items = s.recvList.items
      /\ AtRow(s.recvList, row).row = row
      /\ AtRow(s.recvList, row).selectOnAdd = s.recvList.selectOnAdd
  BY <1>1, AtRowIs, Parts
<1>4. Kept(a, s)
  BY <1>2, <1>3 DEF Kept
<1>5. Listings(a)
  BY <1>1, <1>2, <1>3, RowsOfLists DEF Listings
<1>6. Focus(a) /\ Dialogs(a) /\ Fine(a)
  BY <1>1, <1>2, <1>3 DEF Focus, Dialogs, Fine
<1> QED
  BY <1>2, <1>3, <1>4, <1>5, <1>6 DEF Sound, RecvRowIs

LEMMA SendRowSound ==
  ASSUME NEW s, Sound(s), NEW row \in Int, row \in Rows(s.sendList),
         NEW a, a = [s EXCEPT !.sendList.row = row]
  PROVE  /\ Sound(a) /\ Kept(a, s) /\ a.mgr = s.mgr
         /\ a.sendList.row = row /\ a.recvList = s.recvList
<1>1. s \in State /\ Listings(s) /\ Focus(s) /\ Dialogs(s) /\ Fine(s)
  BY DEF Sound
<1>2. /\ a \in State /\ a.mgr = s.mgr /\ a.recvBar = s.recvBar /\ a.sendBar = s.sendBar
      /\ a.recvList = s.recvList /\ a.sendList = AtRow(s.sendList, row)
      /\ a.env = s.env
  BY <1>1 DEF State, SendLists, AtRow
<1>3. /\ AtRow(s.sendList, row).items = s.sendList.items
      /\ AtRow(s.sendList, row).row = row
      /\ AtRow(s.sendList, row).state = s.sendList.state
  BY <1>1, AtRowIs, Parts
<1>4. Kept(a, s)
  BY <1>2, <1>3 DEF Kept
<1>5. Listings(a)
  BY <1>1, <1>2, <1>3, RowsOfLists DEF Listings
<1>6. Focus(a) /\ Dialogs(a) /\ Fine(a)
  BY <1>1, <1>2 DEF Focus, Dialogs, Fine
<1> QED
  BY <1>2, <1>3, <1>4, <1>5, <1>6 DEF Sound

(* Clicks by the user.                                                     *)
LEMMA ClickRecvKeeps ==
  ASSUME Whole(Now), ClickRecv
  PROVE  Whole(Now)'
<1> DEFINE s == Now
<1>1. s.env.dialog = "None" /\ s.recvList = recvList
  BY NowIs DEF ClickRecv, User
<1>2. PICK i \in DOMAIN s.recvList.items :
        Become(RecvMsgClicked([s EXCEPT !.recvList.row = i - 1], s.recvList.items[i], i - 1))
  BY <1>1 DEF ClickRecv
<1> DEFINE a   == [s EXCEPT !.recvList.row = i - 1]
           msg == s.recvList.items[i]
           t   == RecvMsgClicked(a, msg, i - 1)
<1>3. Become(t)
  BY <1>2
<1> HIDE DEF s, t
<1>4. /\ Sound(s) /\ Selected(s) /\ RecvCounted(s) /\ SendCounted(s) /\ Sending(s)
      /\ Fits(s) /\ Total(s)
      /\ s.recvList.items \in Seq(Listed) /\ Len(s.recvList.items) \in Nat
  BY WholeIs DEF s
<1>5. /\ i \in 1..Len(s.recvList.items) /\ i - 1 \in Int /\ i - 1 \in Rows(s.recvList)
      /\ msg \in Listed
  <2>1. i \in 1..Len(s.recvList.items)
    BY <1>4
  <2> QED
    BY <1>4, <2>1 DEF Rows, NoRow
<1>6. /\ Sound(a) /\ Kept(a, s) /\ a.mgr = s.mgr /\ a.recvList.row = i - 1
      /\ Total(a)
  <2>1. Sound(a) /\ Kept(a, s) /\ a.mgr = s.mgr /\ a.recvList.row = i - 1
    <3>1. Sound(a) /\ RecvRowIs(a, s, i - 1)
      BY <1>4, <1>5, RecvRowSound
    <3> QED
      BY <3>1 DEF RecvRowIs
  <2> HIDE DEF a
  <2> QED
    BY <1>4, <2>1, KeptAgrees
<1> HIDE DEF a, msg
<1>7. Sound(t) /\ Kept(t, a) /\ Selected(t)
  <2>1. CASE msg = s.mgr.clicked
    <3>1. a.mgr.selType = "Recv" /\ a.mgr.clicked = msg /\ a.env.dialog = "None"
      BY <1>1, <1>5, <1>6, <2>1, SelectedIs DEF Kept, s
    <3> QED
      BY <1>6, <3>1, RecvDrops DEF t
  <2>2. CASE msg # s.mgr.clicked
    <3>1. /\ a.mgr.clicked # msg /\ a.env.dialog = "None" /\ 0 <= i - 1
          /\ i - 1 < a.recvBar.total /\ CurrentMsg(a.recvList) = msg
      BY <1>1, <1>4, <1>5, <1>6, <2>2 DEF Kept, RecvCounted, CurrentMsg, msg
    <3> QED
      BY <1>5, <1>6, <3>1, RecvPicks DEF t
  <2> QED
    BY <2>1, <2>2
<1>8. Whole(t) /\ t \in State
  BY <1>4, <1>6, <1>7, KeptAgrees DEF Whole, Kept
<1> QED
  BY <1>3, <1>8, BecomeIs

LEMMA ClickSendKeeps ==
  ASSUME Whole(Now), ClickSend
  PROVE  Whole(Now)'
<1> DEFINE s == Now
<1>1. s.env.dialog = "None" /\ s.sendList = sendList
  BY NowIs DEF ClickSend, User
<1>2. PICK i \in DOMAIN s.sendList.items :
        Become(SendMsgClicked([s EXCEPT !.sendList.row = i - 1], s.sendList.items[i], i - 1))
  BY <1>1 DEF ClickSend
<1> DEFINE a   == [s EXCEPT !.sendList.row = i - 1]
           msg == s.sendList.items[i]
           t   == SendMsgClicked(a, msg, i - 1)
<1>3. Become(t)
  BY <1>2
<1> HIDE DEF s, t
<1>4. /\ Sound(s) /\ Selected(s) /\ RecvCounted(s) /\ SendCounted(s) /\ Sending(s)
      /\ Fits(s) /\ Total(s)
      /\ s.sendList.items \in Seq(Scripts) /\ Len(s.sendList.items) \in Nat
  BY WholeIs DEF s
<1>5. /\ i \in 1..Len(s.sendList.items) /\ i - 1 \in Int /\ i - 1 \in Rows(s.sendList)
      /\ msg \in Scripts
  <2>1. i \in 1..Len(s.sendList.items)
    BY <1>4
  <2> QED
    BY <1>4, <2>1 DEF Rows, NoRow
<1>6. /\ Sound(a) /\ Kept(a, s) /\ a.mgr = s.mgr /\ Total(a)
  <2>1. Sound(a) /\ Kept(a, s) /\ a.mgr = s.mgr
    BY <1>4, <1>5, SendRowSound
  <2> HIDE DEF a
  <2> QED
    BY <1>4, <2>1, KeptAgrees
<1> HIDE DEF a, msg
<1>7. Sound(t) /\ Kept(t, a) /\ Selected(t)
  <2>1. CASE msg = s.mgr.clicked
    <3>1. a.mgr.selType = "Send" /\ a.mgr.clicked = msg /\ a.env.dialog = "None"
      BY <1>1, <1>5, <1>6, <2>1, SelectedIs DEF Kept, s
    <3> QED
      BY <1>6, <3>1, SendDrops DEF t
  <2>2. CASE msg # s.mgr.clicked
    <3>1. /\ a.mgr.clicked # msg /\ a.env.dialog = "None" /\ 0 <= i - 1
          /\ i - 1 < a.sendBar.total /\ i - 1 < Len(a.sendList.items)
          /\ a.sendList.items[i - 1 + 1] = msg
      BY <1>1, <1>4, <1>5, <1>6, <2>2 DEF Kept, SendCounted, msg
    <3> QED
      BY <1>5, <1>6, <3>1, SendPicks DEF t
  <2> QED
    BY <2>1, <2>2
<1>8. Whole(t) /\ t \in State
  BY <1>4, <1>6, <1>7, KeptAgrees DEF Whole, Kept
<1> QED
  BY <1>3, <1>8, BecomeIs

-----------------------------------------------------------------------------
(* Steps that change no list, no count and no selection.                   *)
Aside(t, s) ==
    /\ t \in State
    /\ t.recvBar = s.recvBar /\ t.sendBar = s.sendBar
    /\ t.recvList = s.recvList /\ t.sendList = s.sendList
    /\ t.mgr.selType = s.mgr.selType /\ t.mgr.clicked = s.mgr.clicked
    /\ t.mgr.recvListCount = s.mgr.recvListCount
    /\ t.mgr.sendListCount = s.mgr.sendListCount
    /\ t.mgr.sendState = s.mgr.sendState
    /\ t.env.allMsgs = s.env.allMsgs
    /\ t.env.toSend = s.env.toSend

(* Such a step only has to keep what is displayed, the dialog and the      *)
(* assertions.                                                             *)
LEMMA AsideWhole ==
  ASSUME NEW s, Whole(s), NEW t, Aside(t, s), Focus(t), Dialogs(t), Fine(t)
  PROVE  Whole(t)
<1>1. /\ Listings(s) /\ Selected(s) /\ RecvCounted(s) /\ SendCounted(s)
      /\ Sending(s) /\ Fits(s)
  BY WholeIs
<1>2. Listings(t)
  BY <1>1 DEF Aside, Listings
<1>3. Selected(t)
  BY <1>1 DEF Aside, Selected, Selects
<1>4. RecvCounted(t) /\ SendCounted(t) /\ Sending(t) /\ Fits(t)
  BY <1>1 DEF Aside, RecvCounted, SendCounted, Sending, Fits
<1> QED
  BY <1>2, <1>3, <1>4 DEF Whole, Sound, Aside

(* Receiving is stopped or resumed.                                        *)
LEMMA RecvStartStopKeeps ==
  ASSUME Whole(Now), RecvStartStop
  PROVE  Whole(Now)'
<1> DEFINE s == Now
           t == [s EXCEPT !.mgr.recvRunning = ~s.mgr.recvRunning]
<1>1. Become(t)
  BY DEF RecvStartStop
<1> HIDE DEF s
<1>2. s \in State /\ Focus(s) /\ Dialogs(s) /\ Fine(s) /\ Whole(s)
  BY WholeIs DEF s
<1>3. Be(t, [s.mgr EXCEPT !.recvRunning = ~s.mgr.recvRunning], s.recvBar,
         s.sendBar, s.recvList, s.sendList, s.env)
  BY <1>2 DEF State, Managers, Be
<1>4. s.mgr \in Managers
  BY <1>2, Parts
<1> HIDE DEF t
<1>5. /\ t \in State /\ Aside(t, s)
      /\ t.mgr.displayed = s.mgr.displayed /\ t.mgr.pending = s.mgr.pending
      /\ t.mgr.pendingWait = s.mgr.pendingWait
  BY <1>3, <1>4 DEF Be, Aside, Managers
<1>6. Focus(t) /\ Dialogs(t) /\ Fine(t)
  BY <1>2, <1>3, <1>5 DEF Focus, Dialogs, Fine, Aside, Be
<1>7. Whole(t)
  BY <1>2, <1>5, <1>6, AsideWhole
<1> QED
  BY <1>1, <1>5, <1>7, BecomeIs

(* The 250 ms are over.                                                    *)
LEMMA PendingDisplayTimeoutKeeps ==
  ASSUME Whole(Now), PendingDisplayTimeout
  PROVE  Whole(Now)'
<1> DEFINE s == Now
           d == [s EXCEPT !.mgr.pendingWait = FALSE]
           t == IF s.mgr.pending = NoMsg THEN d ELSE DisplayMessage(d, s.mgr.pending)
<1>1. Become(t)
  BY NowIs DEF PendingDisplayTimeout
<1> HIDE DEF s
<1>2. s \in State /\ Focus(s) /\ Dialogs(s) /\ Fine(s) /\ Whole(s) /\ s.mgr \in Managers
  BY WholeIs, Parts DEF s
<1>3. Be(d, [s.mgr EXCEPT !.pendingWait = FALSE], s.recvBar,
         s.sendBar, s.recvList, s.sendList, s.env)
  BY <1>2 DEF State, Managers, Be
<1> HIDE DEF d
<1>4. CASE s.mgr.pending = NoMsg
  <2>1. t = d
    BY <1>4
  <2>2. Aside(t, s) /\ Focus(t) /\ Dialogs(t) /\ Fine(t)
    <3>1. /\ d \in State /\ Aside(d, s)
          /\ d.mgr.displayed = s.mgr.displayed /\ d.mgr.pending = NoMsg
      BY <1>2, <1>3, <1>4 DEF Be, Aside, Managers
    <3> QED
      BY <1>2, <1>3, <2>1, <3>1 DEF Focus, Dialogs, Fine, Aside, Be
  <2>3. Whole(t)
    BY <1>2, <2>2, AsideWhole
  <2> QED
    BY <1>1, <2>2, <2>3, BecomeIs DEF Aside
<1>5. CASE s.mgr.pending # NoMsg
  <2> DEFINE msg == s.mgr.pending
             u == DisplayMessage(d, msg)
  <2>1. t = u /\ msg \in AnyMsg
    BY <1>2, <1>5 DEF Managers
  <2> HIDE DEF msg, t
  <2>2. Be(u, [d.mgr EXCEPT !.pending = NoMsg, !.displayed = msg], s.recvBar,
           s.sendBar, s.recvList, s.sendList, s.env)
    BY <1>2, <1>3, <2>1 DEF State, Managers, Be, DisplayMessage, AnyMsg
  <2> HIDE DEF u
  <2>3. d.mgr \in Managers
    BY <1>3, Parts DEF Be
  <2>4. u \in State /\ Aside(u, s) /\ u.mgr.pending = NoMsg
    <3>1. Aside(d, s)
      BY <1>2, <1>3 DEF Be, Aside, Managers
    <3> QED
      BY <2>2, <2>3, <3>1 DEF Be, Aside, Managers
  <2>5. s.mgr.clicked = NoMsg
    BY <1>2, <1>5 DEF Focus
  <2>6. Focus(u) /\ Dialogs(u) /\ Fine(u)
    BY <1>2, <2>2, <2>4, <2>5 DEF Focus, Dialogs, Fine, Aside, Be
  <2>7. Whole(t)
    BY <1>2, <2>1, <2>4, <2>6, AsideWhole
  <2> QED
    BY <1>1, <2>1, <2>4, <2>7, BecomeIs
<1> QED
  BY <1>4, <1>5

-----------------------------------------------------------------------------
(* Dialogs.                                                                *)
LEMMA OpenedWhole ==
  ASSUME NEW s, Whole(s), s.mgr.clicked # NoMsg, s.env.dialog = "None",
         NEW dialog \in {"Edit", "Comment"}, dialog = "Edit" => s.mgr.selType = "Send",
         NEW t, t = OpenDialog(s, dialog)
  PROVE  t \in State /\ Whole(t)
<1>1. s \in State /\ Focus(s) /\ Fine(s) /\ s.mgr \in Managers /\ s.env \in Envs
  BY WholeIs, Parts
<1>2. Assert_(s, s.mgr.clicked # NoMsg) = s
  BY <1>1, AssertTrue
<1>3. s.mgr.clicked \in AnyMsg
  BY <1>1 DEF Managers
<1>4. Be(t, s.mgr, s.recvBar, s.sendBar, s.recvList, s.sendList,
         [s.env EXCEPT !.dialog = dialog, !.dialogMsg = s.mgr.clicked])
  BY <1>1, <1>2, <1>3 DEF OpenDialog, State, Envs, Be
<1>5. /\ Aside(t, s) /\ t.env.dialog = dialog /\ t.env.dialogMsg = s.mgr.clicked
      /\ t.env.ok = s.env.ok /\ t.env.applied = s.env.applied
      /\ t.env.running = s.env.running
  BY <1>1, <1>4 DEF Aside, Be, Envs
<1>6. Focus(t) /\ Dialogs(t) /\ Fine(t)
  BY <1>1, <1>4, <1>5 DEF Focus, Dialogs, Fine, Be
<1> QED
  BY <1>5, <1>6, AsideWhole DEF Aside

(* A toolbar has its buttons enabled where its list has the selection.     *)
LEMMA BarSelects ==
  ASSUME NEW s, Whole(s)
  PROVE  /\ 0 <= s.recvBar.idx => s.mgr.selType = "Recv" /\ s.mgr.clicked # NoMsg
         /\ 0 <= s.sendBar.idx => s.mgr.selType = "Send" /\ s.mgr.clicked # NoMsg
BY WholeIs, NoMsgIsNone DEF Selected

(* The buttons that open a dialog, and the double click.                   *)
LEMMA SendEditKeeps ==
  ASSUME Whole(Now), SendEdit
  PROVE  Whole(Now)'
<1> DEFINE s == Now
           t == OpenDialog(s, "Edit")
<1>1. Become(t) /\ s.env.dialog = "None" /\ 0 <= s.sendBar.idx
  BY NowIs DEF SendEdit, SendSelected, SendIdle, User
<1> HIDE DEF t, s
<1>2. Whole(s) /\ s.mgr.selType = "Send" /\ s.mgr.clicked # NoMsg
  BY <1>1, BarSelects DEF s
<1>3. t \in State /\ Whole(t)
  BY <1>1, <1>2, OpenedWhole DEF t
<1> QED
  BY <1>1, <1>3, BecomeIs

LEMMA SendCommentKeeps ==
  ASSUME Whole(Now), SendComment
  PROVE  Whole(Now)'
<1> DEFINE s == Now
           t == OpenDialog(s, "Comment")
<1>1. /\ s.env.dialog = "None" /\ 0 <= s.sendBar.idx
      /\ Become(OpenDialog(Assert_(s, s.mgr.selType = "Send"), "Comment"))
  BY NowIs DEF SendComment, SendSelected, SendIdle, User
<1> HIDE DEF t, s
<1>2. Whole(s) /\ s.mgr.selType = "Send" /\ s.mgr.clicked # NoMsg /\ s \in State
  BY <1>1, BarSelects, WholeIs DEF s
<1>3. Assert_(s, s.mgr.selType = "Send") = s
  BY <1>2, AssertTrue
<1>4. t \in State /\ Whole(t)
  BY <1>1, <1>2, OpenedWhole DEF t
<1> QED
  BY <1>1, <1>3, <1>4, BecomeIs DEF t

LEMMA RecvCommentKeeps ==
  ASSUME Whole(Now), RecvComment
  PROVE  Whole(Now)'
<1> DEFINE s == Now
           t == OpenDialog(s, "Comment")
<1>1. /\ s.env.dialog = "None" /\ 0 <= s.recvBar.idx
      /\ Become(OpenDialog(Assert_(s, s.mgr.selType = "Recv"), "Comment"))
  BY NowIs DEF RecvComment, RecvSelected, User
<1> HIDE DEF t, s
<1>2. Whole(s) /\ s.mgr.selType = "Recv" /\ s.mgr.clicked # NoMsg /\ s \in State
  BY <1>1, BarSelects, WholeIs DEF s
<1>3. Assert_(s, s.mgr.selType = "Recv") = s
  BY <1>2, AssertTrue
<1>4. t \in State /\ Whole(t)
  BY <1>1, <1>2, OpenedWhole DEF t
<1> QED
  BY <1>1, <1>3, <1>4, BecomeIs DEF t

LEMMA SendDoubleClickKeeps ==
  ASSUME Whole(Now), SendDoubleClick
  PROVE  Whole(Now)'
<1> DEFINE s == Now
<1>1. s.env.dialog = "None" /\ s.sendList = sendList /\ s.mgr = mgr
  BY NowIs DEF SendDoubleClick, User
<1>2. PICK i \in DOMAIN s.sendList.items :
        LET msg == s.sendList.items[i]
            selected == IF s.mgr.clicked = msg THEN s ELSE SendMsgClicked(s, msg, i - 1)
        IN  Become(OpenDialog(Assert_(selected, selected.mgr.clicked = msg), "Edit"))
  BY <1>1 DEF SendDoubleClick
<1> DEFINE msg == s.sendList.items[i]
           a   == IF s.mgr.clicked = msg THEN s ELSE SendMsgClicked(s, msg, i - 1)
           t   == OpenDialog(a, "Edit")
<1>3. Become(OpenDialog(Assert_(a, a.mgr.clicked = msg), "Edit"))
  BY <1>2
<1> HIDE DEF s
<1>4. /\ Whole(s) /\ Sound(s) /\ Selected(s) /\ RecvCounted(s) /\ SendCounted(s) /\ Sending(s)
      /\ Fits(s) /\ Total(s) /\ s \in State
      /\ s.sendList.items \in Seq(Scripts) /\ Len(s.sendList.items) \in Nat
  BY WholeIs DEF s
<1>5. /\ i \in 1..Len(s.sendList.items) /\ i - 1 \in Int /\ msg \in Scripts
  <2>1. i \in 1..Len(s.sendList.items)
    BY <1>4
  <2> QED
    BY <1>4, <2>1
<1>6. Whole(a) /\ a.mgr.clicked = msg /\ a.mgr.selType = "Send" /\ a.env.dialog = "None"
  <2>1. CASE msg = s.mgr.clicked
    BY <1>1, <1>4, <1>5, <2>1, SelectedIs
  <2>2. CASE msg # s.mgr.clicked
    <3>1. /\ 0 <= i - 1 /\ i - 1 < s.sendBar.total /\ i - 1 < Len(s.sendList.items)
          /\ s.sendList.items[i - 1 + 1] = msg
      BY <1>4, <1>5 DEF SendCounted
    <3> DEFINE b == SendMsgClicked(s, msg, i - 1)
    <3>2. a = b
      BY <2>2
    <3> HIDE DEF a, msg
    <3>3. Sound(b) /\ Kept(b, s) /\ Selected(b) /\ b.mgr.selType = "Send" /\ b.mgr.clicked = msg
      BY <1>1, <1>4, <1>5, <2>2, <3>1, SendPicks
    <3> HIDE DEF b
    <3> QED
      BY <1>1, <1>4, <3>2, <3>3, KeptAgrees DEF Whole, Kept
  <2> QED
    BY <2>1, <2>2
<1> HIDE DEF a, msg
<1>7. Assert_(a, a.mgr.clicked = msg) = a
  BY <1>6, WholeIs, AssertTrue
<1>8. t \in State /\ Whole(t)
  <2>1. a.mgr.clicked # NoMsg
    BY <1>5, <1>6, NoMsgIsNone
  <2> HIDE DEF t
  <2> QED
    BY <1>6, <2>1, OpenedWhole DEF t
<1> QED
  BY <1>3, <1>7, <1>8, BecomeIs

-----------------------------------------------------------------------------
(* A message object that nobody holds is there.                            *)
LEMMA FreshExists ==
  ASSUME NEW kind, NEW bound \in Nat, NEW q \in Seq(AnyMsg), Len(q) + 1 < bound,
         NEW x \in AnyMsg
  PROVE  \E m \in MsgOfKind(kind, bound) : m # x /\ m \notin ToSet(q)
<1> DEFINE M    == MsgOfKind(kind, bound)
           n    == Len(q)
           e(i) == [kind |-> kind, n |-> i]
           P(i, j) == \/ j \in 1..n /\ e(i) = q[j]
                      \/ j = n + 1 /\ e(i) = x
           f == [i \in 1..(n + 2) |-> CHOOSE j \in 1..(n + 1) : P(i, j)]
<1>1. n \in Nat /\ n + 2 \in Nat /\ n + 1 \in Nat
  OBVIOUS
<1> SUFFICES ASSUME M \subseteq {x} \cup ToSet(q) PROVE FALSE
  OBVIOUS
<1>2. \A i \in 1..(n + 2) : e(i) \in M
  BY <1>1 DEF MsgOfKind
<1>3. \A i, j \in 1..(n + 2) : e(i) = e(j) => i = j
  OBVIOUS
<1> HIDE DEF M, e
<1>4. ToSet(q) = {q[j] : j \in 1..n}
  BY DEF ToSet
<1>5. ASSUME NEW i \in 1..(n + 2)
      PROVE  \E j \in 1..(n + 1) : P(i, j)
  <2>1. e(i) \in {x} \cup {q[j] : j \in 1..n}
    BY <1>2, <1>4
  <2>2. CASE e(i) = x
    <3>1. n + 1 \in 1..(n + 1)
      BY <1>1
    <3> QED BY <2>2, <3>1
  <2>3. CASE e(i) \in {q[j] : j \in 1..n}
    <3>1. PICK j \in 1..n : e(i) = q[j]
      BY <2>3
    <3>2. j \in 1..(n + 1)
      BY <1>1
    <3> QED BY <3>1, <3>2
  <2> QED BY <2>1, <2>2, <2>3
<1> HIDE DEF P
<1>6. \A i \in 1..(n + 2) : f[i] \in 1..(n + 1) /\ P(i, f[i])
  BY <1>5
<1>7. f \in [1..(n + 2) -> 1..(n + 1)]
  BY <1>6
<1> HIDE DEF f
<1>8. \A i, j \in 1..(n + 2) : f[i] = f[j] => i = j
  <2> SUFFICES ASSUME NEW i \in 1..(n + 2), NEW j \in 1..(n + 2), f[i] = f[j]
               PROVE  i = j
    OBVIOUS
  <2>1. e(i) = e(j)
    <3>1. P(i, f[i]) /\ P(j, f[i])
      BY <1>6
    <3> DEFINE k == f[i]
    <3>2. ~ (k \in 1..n /\ k = n + 1)
      BY <1>1
    <3> HIDE DEF k
    <3> QED
      BY <3>1, <3>2 DEF P, k
  <2> QED BY <1>3, <2>1
<1>9. /\ IsFiniteSet(1..(n + 2)) /\ Cardinality(1..(n + 2)) = n + 2
      /\ IsFiniteSet(1..(n + 1)) /\ Cardinality(1..(n + 1)) = n + 1
  BY <1>1, FS_Interval
<1>10. \E i, j \in 1..(n + 2) : i # j /\ f[i] = f[j]
  BY <1>1, <1>7, <1>9, FS_PigeonHole
<1> QED
  BY <1>8, <1>10

(* FreshOf finds it.                                                       *)
LEMMA FreshOfIs ==
  ASSUME NEW s, NEW kind, NEW bound \in Nat,
         \E m \in MsgOfKind(kind, bound) : m \notin Held(s)
  PROVE  /\ FreshOf(s, MsgOfKind(kind, bound)) \in MsgOfKind(kind, bound)
         /\ FreshOf(s, MsgOfKind(kind, bound)) \notin Held(s)
<1> DEFINE M == MsgOfKind(kind, bound)
           F == M \ Held(s)
           N == {m.n : m \in F}
<1>1. \A m \in M : m.n \in Nat
  BY DEF MsgOfKind
<1> HIDE DEF M
<1>2. N \subseteq Nat /\ N # {}
  BY <1>1 DEF M
<1>3. PICK k \in N : \A j \in N : k <= j
  BY <1>2, LeastElement
<1>4. PICK m \in F : m.n = k
  BY <1>3
<1>5. \E x \in F : \A o \in F : x.n <= o.n
  BY <1>3, <1>4
<1>6. FreshOf(s, M) \in F
  BY <1>5 DEF FreshOf
<1> QED
  BY <1>6 DEF M

(* Who holds a message, apart from the two lists.                          *)
LEMMA Holders ==
  ASSUME NEW s, Sound(s), NEW m \in Held(s)
  PROVE  \/ m = NoMsg \/ m = s.mgr.displayed \/ m = s.mgr.pending
         \/ m \in ToSet(s.env.allMsgs) \/ m \in ToSet(s.sendList.items)
BY DEF Held, Sound, Focus, Dialogs

(* The elements of the lists.                                              *)
LEMMA ListElements ==
  ASSUME NEW s \in State
  PROVE  /\ ToSet(s.env.allMsgs) \subseteq Listed
         /\ ToSet(s.recvList.items) \subseteq Listed
         /\ ToSet(s.sendList.items) \subseteq Scripts
         /\ s.env.allMsgs \in Seq(Listed) /\ Len(s.env.allMsgs) \in Nat
         /\ s.recvList.items \in Seq(Listed) /\ Len(s.recvList.items) \in Nat
         /\ s.sendList.items \in Seq(Scripts) /\ Len(s.sendList.items) \in Nat
<1>1. /\ s.env.allMsgs \in Seq(Listed) /\ s.recvList.items \in Seq(Listed)
      /\ s.sendList.items \in Seq(Scripts)
  BY Parts DEF Envs, RecvLists, SendLists
<1> QED
  BY <1>1 DEF ToSet

(* A message is appended.                                                  *)
LEMMA Appended ==
  ASSUME NEW T, NEW q \in Seq(T), NEW x \in T
  PROVE  /\ Append(q, x) \in Seq(T) /\ Len(Append(q, x)) = Len(q) + 1
         /\ \A i \in 1..Len(q) : Append(q, x)[i] = q[i]
         /\ Append(q, x)[Len(q) + 1] = x
         /\ ToSet(Append(q, x)) = ToSet(q) \cup {x}
         /\ Distinct(q) /\ x \notin ToSet(q) => Distinct(Append(q, x))
<1> DEFINE r == Append(q, x)
<1>1. /\ r \in Seq(T) /\ Len(r) = Len(q) + 1 /\ Len(q) \in Nat
      /\ \A i \in 1..Len(q) : r[i] = q[i]
      /\ r[Len(q) + 1] = x
      /\ DOMAIN r = 1..(Len(q) + 1) /\ DOMAIN q = 1..Len(q)
  OBVIOUS
<1> HIDE DEF r
<1>2. 1..(Len(q) + 1) = 1..Len(q) \cup {Len(q) + 1}
  BY <1>1
<1>3. ToSet(r) = ToSet(q) \cup {x}
  BY <1>1, <1>2 DEF ToSet
<1>4. Distinct(q) /\ x \notin ToSet(q) => Distinct(r)
  BY <1>1, <1>2 DEF ToSet, Distinct
<1> QED
  BY <1>1, <1>3, <1>4 DEF r

(* With room in the lists a new message is nobody's.                       *)
LEMMA FreshMsgIs ==
  ASSUME NEW s, Sound(s), NEW kind \in ListedKinds, Len(s.env.allMsgs) < MaxRecv
  PROVE  /\ FreshMsg(s, kind) \in Listed /\ FreshMsg(s, kind) \notin Held(s)
         /\ FreshMsg(s, kind).kind = kind
<1> DEFINE q == Append(s.env.allMsgs, s.mgr.displayed)
           M == MsgOfKind(kind, MaxRecv + 2)
<1>1. /\ s \in State /\ s.env.allMsgs \in Seq(AnyMsg) /\ Len(s.env.allMsgs) \in Nat
      /\ s.mgr.displayed \in AnyMsg /\ s.mgr.pending \in AnyMsg /\ MaxRecv \in Nat
  <2>1. s \in State /\ s.mgr \in Managers /\ s.env \in Envs
    BY Parts DEF Sound
  <2>2. s.env.allMsgs \in Seq(Listed) /\ s.mgr.displayed \in AnyMsg /\ s.mgr.pending \in AnyMsg
    BY <2>1 DEF Envs, Managers
  <2> QED
    BY <2>1, <2>2, BoundsAssumption DEF AnyMsg
<1>2. /\ q \in Seq(AnyMsg) /\ Len(q) = Len(s.env.allMsgs) + 1
      /\ ToSet(q) = ToSet(s.env.allMsgs) \cup {s.mgr.displayed}
  BY <1>1, Appended
<1> HIDE DEF q
<1>3. \E m \in M : m # s.mgr.pending /\ m \notin ToSet(q)
  <2>1. Len(q) + 1 < MaxRecv + 2
    BY <1>1, <1>2
  <2>2. MaxRecv + 2 \in Nat
    BY <1>1
  <2> QED
    BY <1>1, <1>2, <2>1, <2>2, FreshExists
<1>4. M \cap Scripts = {} /\ NoMsg \notin M /\ M \subseteq Listed
  BY KindsAssumption DEF MsgOfKind, Scripts, NoMsg, Listed
<1>5. \A m \in M : m.kind = kind
  BY DEF MsgOfKind
<1> HIDE DEF M
<1>6. \E m \in M : m \notin Held(s)
  BY <1>1, <1>2, <1>3, <1>4, Holders, ListElements
<1>7. FreshOf(s, M) \in M /\ FreshOf(s, M) \notin Held(s)
  BY <1>1, <1>6, FreshOfIs DEF M
<1> QED
  BY <1>4, <1>5, <1>7 DEF FreshMsg, M

LEMMA FreshScriptIs ==
  ASSUME NEW s, Sound(s),
         \/ Len(s.sendList.items) < MaxScript
         \/ /\ Len(s.sendList.items) = MaxScript
            /\ s.mgr.displayed \in ToSet(s.sendList.items)
  PROVE  FreshScript(s) \in Scripts /\ FreshScript(s) \notin Held(s)
<1> DEFINE p == s.sendList.items
           q == IF Len(p) < MaxScript THEN Append(p, s.mgr.displayed) ELSE p
<1>1. /\ s \in State /\ p \in Seq(AnyMsg) /\ Len(p) \in Nat
      /\ s.mgr.displayed \in AnyMsg /\ s.mgr.pending \in AnyMsg /\ MaxScript \in Nat
  <2>1. s \in State /\ s.mgr \in Managers /\ s.sendList \in SendLists
    BY Parts DEF Sound
  <2>2. p \in Seq(Scripts) /\ s.mgr.displayed \in AnyMsg /\ s.mgr.pending \in AnyMsg
    BY <2>1 DEF SendLists, Managers
  <2> QED
    BY <2>1, <2>2, BoundsAssumption DEF AnyMsg
<1>2. /\ q \in Seq(AnyMsg) /\ Len(q) + 1 < MaxScript + 2
      /\ ToSet(p) \subseteq ToSet(q) /\ s.mgr.displayed \in ToSet(q)
  BY <1>1, Appended
<1> HIDE DEF q
<1>3. \E m \in Scripts : m # s.mgr.pending /\ m \notin ToSet(q)
  <2>1. MaxScript + 2 \in Nat
    BY <1>1
  <2> QED
    BY <1>1, <1>2, <2>1, FreshExists DEF Scripts
<1>4. Scripts \cap Listed = {} /\ NoMsg \notin Scripts
  BY NoMsgIsNone
<1>5. \E m \in Scripts : m \notin Held(s)
  BY <1>1, <1>2, <1>3, <1>4, Holders, ListElements
<1>6. FreshOf(s, Scripts) \in Scripts /\ FreshOf(s, Scripts) \notin Held(s)
  BY <1>1, <1>5, FreshOfIs DEF Scripts
<1> QED
  BY <1>6 DEF FreshScript

-----------------------------------------------------------------------------
(* A message is counted, reported and listed.                              *)
SameSend(t, s) ==
    /\ t.sendBar = s.sendBar /\ t.sendList = s.sendList
    /\ t.recvBar.sendState = s.recvBar.sendState
    /\ t.mgr.sendListCount = s.mgr.sendListCount
    /\ t.mgr.sendState = s.mgr.sendState
    /\ t.mgr.selType = s.mgr.selType /\ t.mgr.clicked = s.mgr.clicked

SameWaiting(t, s) ==
    /\ t.mgr.displayed = s.mgr.displayed /\ t.mgr.pending = s.mgr.pending
    /\ t.mgr.pendingWait = s.mgr.pendingWait
    /\ t.mgr.recvListMode = s.mgr.recvListMode

RecvListed(t, s, msg) ==
    /\ t.recvList.items = Append(s.recvList.items, msg)
    /\ t.recvList.row = IF s.recvList.selectOnAdd THEN Len(s.recvList.items)
                        ELSE s.recvList.row
    /\ t.recvList.selectOnAdd = s.recvList.selectOnAdd
    /\ t.recvBar.idx = s.recvBar.idx

RecvAddedIs(t, s, msg) ==
    /\ t \in State /\ SameSend(t, s) /\ SameWaiting(t, s) /\ t.env = s.env
    /\ RecvListed(t, s, msg)
    /\ t.mgr.recvListCount = s.mgr.recvListCount + 1
    /\ t.recvBar.total = s.mgr.recvListCount + 1

(* What AddMsgToRecvList sets.                                             *)
LEMMA RecvAddedShape ==
  ASSUME NEW s \in State, NEW msg \in Listed, s.recvBar.idx <= s.mgr.recvListCount,
         NEW t, t = AddMsgToRecvList(s, msg)
  PROVE  RecvAddedIs(t, s, msg)
<1> DEFINE a == [s EXCEPT !.mgr.recvListCount = s.mgr.recvListCount + 1]
           b == [a EXCEPT !.recvBar.total = a.mgr.recvListCount]
           n == s.mgr.recvListCount + 1
<1>1. /\ s.mgr \in Managers /\ s.recvBar \in RecvBars /\ s.recvList \in RecvLists
      /\ s.mgr.recvListCount \in Int /\ s.recvBar.idx \in Int
      /\ s.recvList.items \in Seq(Listed) /\ Len(s.recvList.items) \in Nat
  BY Parts, ListElements DEF Managers, RecvBars
<1>2. Be(a, [s.mgr EXCEPT !.recvListCount = n], s.recvBar,
         s.sendBar, s.recvList, s.sendList, s.env)
  BY <1>1 DEF State, Managers, Be
<1>3. a.mgr \in Managers /\ a.mgr.recvListCount = n /\ n \in Int
  BY <1>1, <1>2 DEF Be, Managers
<1> HIDE DEF a, n
<1>4. Be(b, a.mgr, [s.recvBar EXCEPT !.total = n],
         s.sendBar, s.recvList, s.sendList, s.env)
  BY <1>2, <1>3 DEF State, RecvBars, Be
<1>5. b.recvBar.total = n /\ b.recvBar.idx = s.recvBar.idx
      /\ b.recvBar.sendState = s.recvBar.sendState
  BY <1>1, <1>4 DEF Be, RecvBars
<1>6. RecvListCountReport(a) = RecvBarRefresh(b)
  BY DEF RecvListCountReport
<1> HIDE DEF b
<1>7. b \in State /\ RecvBarRefresh(b) = b
  <2>1. b.recvBar.idx < b.recvBar.total
    BY <1>1, <1>5 DEF n
  <2> QED BY <1>4, <2>1, RecvRefreshed DEF Be
<1>8. t = AddRecvMsg(b, msg)
  BY <1>6, <1>7 DEF AddMsgToRecvList, a
<1> DEFINE l == [s.recvList EXCEPT !.items = Append(s.recvList.items, msg),
                    !.row = IF s.recvList.selectOnAdd
                            THEN Len(s.recvList.items) ELSE s.recvList.row]
<1>9. /\ l \in RecvLists /\ l.items = Append(s.recvList.items, msg)
      /\ l.row = IF s.recvList.selectOnAdd THEN Len(s.recvList.items)
                        ELSE s.recvList.row
      /\ l.selectOnAdd = s.recvList.selectOnAdd
  <2> DEFINE q == Append(s.recvList.items, msg)
             r == IF s.recvList.selectOnAdd THEN Len(s.recvList.items)
                  ELSE s.recvList.row
  <2>1. q \in Seq(Listed) /\ r \in Int
    BY <1>1 DEF RecvLists
  <2>2. l = [s.recvList EXCEPT !.items = q, !.row = r]
    OBVIOUS
  <2> HIDE DEF q, r, l
  <2>3. l \in RecvLists /\ l.items = q /\ l.row = r
        /\ l.selectOnAdd = s.recvList.selectOnAdd
    BY <1>1, <2>1, <2>2 DEF RecvLists
  <2> QED
    BY <2>3 DEF q, r
<1>10. Be(t, a.mgr, b.recvBar, s.sendBar, l, s.sendList, s.env)
  <2>1. t = [b EXCEPT !.recvList = l]
    <3>1. b.recvList = s.recvList
      BY <1>4 DEF Be
    <3> QED
      BY <1>1, <1>7, <1>8, <3>1 DEF AddRecvMsg, State, RecvLists
  <2> HIDE DEF l
  <2> QED
    BY <1>4, <1>7, <1>9, <2>1 DEF State, Be
<1> HIDE DEF l
<1>11. SameSend(t, s) /\ SameWaiting(t, s)
  BY <1>1, <1>2, <1>5, <1>10 DEF SameSend, SameWaiting, Be, Managers
<1> QED
  BY <1>3, <1>4, <1>5, <1>9, <1>10, <1>11 DEF RecvAddedIs, RecvListed, Be, n

(* The list stays sound, and the selection where it is.                    *)
LEMMA RecvAddedSound ==
  ASSUME NEW s, Sound(s), RecvCounted(s), Selected(s), NEW msg \in Listed,
         msg \in ToSet(s.env.allMsgs), msg \notin ToSet(s.recvList.items),
         NEW t, t = AddMsgToRecvList(s, msg)
  PROVE  /\ RecvAddedIs(t, s, msg) /\ Sound(t) /\ RecvCounted(t) /\ Selected(t)
<1>1. /\ s \in State /\ Listings(s) /\ Focus(s) /\ Dialogs(s) /\ Fine(s)
      /\ s.mgr \in Managers /\ s.recvBar \in RecvBars
      /\ s.recvList.items \in Seq(Listed) /\ Len(s.recvList.items) \in Nat
  BY Parts, ListElements DEF Sound
<1>2. s.recvBar.idx <= s.mgr.recvListCount
  BY <1>1 DEF Selected, Selects, RecvCounted, Listings, Rows, NoRow
<1>3. RecvAddedIs(t, s, msg)
  BY <1>1, <1>2, RecvAddedShape
<1>4. /\ Append(s.recvList.items, msg) \in Seq(Listed)
      /\ Len(Append(s.recvList.items, msg)) = Len(s.recvList.items) + 1
      /\ ToSet(Append(s.recvList.items, msg)) = ToSet(s.recvList.items) \cup {msg}
      /\ Distinct(Append(s.recvList.items, msg))
      /\ \A i \in 1..Len(s.recvList.items) :
            Append(s.recvList.items, msg)[i] = s.recvList.items[i]
  BY <1>1, Appended DEF Listings
<1>5. RecvCounted(t)
  BY <1>1, <1>3, <1>4 DEF RecvCounted, RecvAddedIs, RecvListed
<1>6. Listings(t)
  <2>1. t.recvList.row \in Rows(t.recvList)
    <3>1. s.recvList.row \in -1..(Len(s.recvList.items) - 1)
      BY <1>1 DEF Listings, Rows, NoRow
    <3>2. t.recvList.row \in -1..Len(s.recvList.items)
      BY <1>1, <1>3, <3>1 DEF RecvAddedIs, RecvListed
    <3> QED
      BY <1>1, <1>3, <1>4, <3>2 DEF RecvAddedIs, RecvListed, Rows, NoRow
  <2>2. t.sendList = s.sendList /\ t.env = s.env
    BY <1>3 DEF RecvAddedIs, SameSend
  <2>3. t.recvList.items = Append(s.recvList.items, msg)
    BY <1>3 DEF RecvAddedIs, RecvListed
  <2> QED
    BY <1>1, <1>4, <2>1, <2>2, <2>3 DEF Listings
<1>7. Focus(t) /\ Dialogs(t) /\ Fine(t)
  BY <1>1, <1>3 DEF Focus, Dialogs, Fine, RecvAddedIs, SameSend, SameWaiting, RecvListed
<1>8. Selected(t)
  <2>1. CASE s.mgr.selType = "Recv"
    <3>1. Selects(s, s.recvList, s.recvBar) /\ s.mgr.clicked # NoMsg
      BY <2>1, NoMsgIsNone DEF Selected
    <3>2. t.recvList.row = s.recvList.row
      BY <1>1, <1>3, <3>1 DEF Focus, RecvAddedIs, RecvListed
    <3>3. CurrentMsg(t.recvList) = CurrentMsg(s.recvList)
      <4>1. s.recvList.row + 1 \in 1..Len(s.recvList.items)
        BY <1>1, <3>1 DEF Selects, Listings, Rows, NoRow
      <4> QED
        BY <1>3, <1>4, <3>2, <4>1 DEF CurrentMsg, RecvAddedIs, RecvListed
    <3>4. Selects(t, t.recvList, t.recvBar)
      BY <1>3, <3>1, <3>2, <3>3 DEF Selects, RecvAddedIs, RecvListed, SameSend
    <3> QED
      BY <1>3, <2>1, <3>4 DEF Selected, RecvAddedIs, SameSend
  <2>2. CASE s.mgr.selType # "Recv"
    BY <1>3, <2>2 DEF Selected, Selects, RecvAddedIs, SameSend, RecvListed
  <2> QED
    BY <2>1, <2>2
<1> QED
  BY <1>1, <1>3, <1>5, <1>6, <1>7, <1>8 DEF Sound, RecvAddedIs

-----------------------------------------------------------------------------
(* A message arrives or has been sent.                                     *)
MgrAside(t, s) ==
    /\ t \in State
    /\ t.recvBar = s.recvBar /\ t.sendBar = s.sendBar
    /\ t.recvList = s.recvList /\ t.sendList = s.sendList /\ t.env = s.env
    /\ t.mgr.selType = s.mgr.selType /\ t.mgr.clicked = s.mgr.clicked
    /\ t.mgr.recvListCount = s.mgr.recvListCount
    /\ t.mgr.sendListCount = s.mgr.sendListCount
    /\ t.mgr.sendState = s.mgr.sendState

(* The manager changes what is displayed, or waits to be.                  *)
LEMMA MgrAsideSound ==
  ASSUME NEW s, Sound(s), RecvCounted(s), Selected(s), NEW t, MgrAside(t, s), Focus(t)
  PROVE  Sound(t) /\ RecvCounted(t) /\ Selected(t) /\ SameSend(t, s)
<1>1. Listings(s) /\ Dialogs(s) /\ Fine(s)
  BY DEF Sound
<1>2. Listings(t) /\ Dialogs(t) /\ Fine(t)
  BY <1>1 DEF MgrAside, Listings, Dialogs, Fine
<1>3. RecvCounted(t) /\ Selected(t) /\ SameSend(t, s)
  BY DEF MgrAside, RecvCounted, Selected, Selects, SameSend
<1> QED
  BY <1>2, <1>3 DEF Sound, MgrAside

Awaiting(s, msg)  == [s EXCEPT !.mgr.pending = msg]
Displaying(s, msg) == [DisplayMessage(s, msg) EXCEPT !.mgr.pendingWait = TRUE]

LEMMA WaitingIs ==
  ASSUME NEW s \in State, NEW msg \in AnyMsg
  PROVE  /\ MgrAside(Awaiting(s, msg), s)
         /\ Awaiting(s, msg).mgr.pendingWait = s.mgr.pendingWait
<1> DEFINE t == Awaiting(s, msg)
<1>1. s.mgr \in Managers
  BY Parts
<1>2. Be(t, [s.mgr EXCEPT !.pending = msg], s.recvBar, s.sendBar, s.recvList,
         s.sendList, s.env)
  BY <1>1 DEF State, Managers, Be, Awaiting
<1> HIDE DEF t
<1> QED
  BY <1>1, <1>2 DEF Be, MgrAside, Managers, t

LEMMA DisplayingIs ==
  ASSUME NEW s \in State, NEW msg \in AnyMsg
  PROVE  /\ MgrAside(Displaying(s, msg), s)
         /\ Displaying(s, msg).mgr.pendingWait = TRUE
<1> DEFINE a == DisplayMessage(s, msg)
           t == [a EXCEPT !.mgr.pendingWait = TRUE]
<1>1. s.mgr \in Managers
  BY Parts
<1>2. Be(a, [s.mgr EXCEPT !.pending = NoMsg, !.displayed = msg], s.recvBar, s.sendBar,
         s.recvList, s.sendList, s.env)
  BY <1>1 DEF State, Managers, Be, DisplayMessage, AnyMsg
<1> HIDE DEF a
<1>3. a.mgr \in Managers /\ a \in State
  BY <1>2, Parts DEF Be
<1>4. Be(t, [a.mgr EXCEPT !.pendingWait = TRUE], s.recvBar, s.sendBar,
         s.recvList, s.sendList, s.env)
  BY <1>2, <1>3 DEF State, Managers, Be
<1> HIDE DEF t
<1>5. t = Displaying(s, msg)
  BY DEF Displaying, a, t
<1>6. MgrAside(a, s)
  BY <1>1, <1>2 DEF Be, MgrAside, Managers
<1>7. MgrAside(t, s) /\ t.mgr.pendingWait = TRUE
  BY <1>3, <1>4, <1>6 DEF Be, MgrAside, Managers
<1> QED
  BY <1>5, <1>7

(* msgAdded, with the selection or without.                                *)
LEMMA MsgAddedSound ==
  ASSUME NEW s, Sound(s), RecvCounted(s), Selected(s), NEW msg \in Listed,
         msg \in ToSet(s.env.allMsgs), msg \notin ToSet(s.recvList.items),
         NEW t, t = MsgAdded(s, msg)
  PROVE  /\ Sound(t) /\ RecvCounted(t) /\ Selected(t) /\ SameSend(t, s)
         /\ t.env = s.env
<1>1. CASE ~CanAddToRecvList(s, msg)
  BY <1>1 DEF MsgAdded, SameSend
<1>2. CASE CanAddToRecvList(s, msg)
  <2> DEFINE a == AddMsgToRecvList(s, msg)
  <2>1. RecvAddedIs(a, s, msg) /\ Sound(a) /\ RecvCounted(a) /\ Selected(a)
    BY RecvAddedSound
  <2>2. t = IF a.mgr.clicked # NoMsg THEN a
            ELSE IF a.mgr.pendingWait THEN Awaiting(a, msg) ELSE Displaying(a, msg)
    BY <1>2 DEF MsgAdded, Awaiting, Displaying
  <2> HIDE DEF a
  <2>3. SameSend(a, s) /\ a.env = s.env /\ a \in State /\ msg \in AnyMsg /\ Focus(a)
    BY <2>1, NoMsgIsNone DEF RecvAddedIs, Sound
  <2>4. CASE a.mgr.clicked # NoMsg
    BY <2>1, <2>2, <2>3, <2>4
  <2>5. CASE a.mgr.clicked = NoMsg /\ a.mgr.pendingWait
    <3>1. t = Awaiting(a, msg)
      BY <2>2, <2>5
    <3>2. MgrAside(t, a) /\ t.mgr.pendingWait = a.mgr.pendingWait
      BY <2>3, <3>1, WaitingIs
    <3>3. Focus(t)
      BY <2>3, <2>5, <3>2 DEF Focus, MgrAside
    <3>4. Sound(t) /\ RecvCounted(t) /\ Selected(t) /\ SameSend(t, a)
      BY <2>1, <3>2, <3>3, MgrAsideSound
    <3> QED
      BY <2>3, <3>2, <3>4 DEF SameSend, MgrAside
  <2>6. CASE a.mgr.clicked = NoMsg /\ ~a.mgr.pendingWait
    <3>1. t = Displaying(a, msg)
      BY <2>2, <2>6
    <3>2. MgrAside(t, a) /\ t.mgr.pendingWait = TRUE
      BY <2>3, <3>1, DisplayingIs
    <3>3. Focus(t)
      BY <2>3, <2>6, <3>2 DEF Focus, MgrAside
    <3>4. Sound(t) /\ RecvCounted(t) /\ Selected(t) /\ SameSend(t, a)
      BY <2>1, <3>2, <3>3, MgrAsideSound
    <3> QED
      BY <2>3, <3>2, <3>4 DEF SameSend, MgrAside
  <2> QED
    BY <2>4, <2>5, <2>6
<1> QED
  BY <1>1, <1>2

(* What recording n messages does not change.                              *)
Recorded(t, s, n) ==
    /\ SameSend(t, s)
    /\ Len(t.env.allMsgs) = Len(s.env.allMsgs) + n
    /\ t.env.toSend = s.env.toSend /\ t.env.dialog = s.env.dialog
    /\ t.env.running = s.env.running

Recording(s) == Sound(s) /\ RecvCounted(s) /\ Selected(s)

(* One message is recorded.                                                *)
LEMMA RecordSound ==
  ASSUME NEW s, Recording(s), NEW kind \in ListedKinds, Len(s.env.allMsgs) < MaxRecv,
         NEW t, t = Record(s, kind)
  PROVE  Recording(t) /\ Recorded(t, s, 1)
<1> DEFINE msg == FreshMsg(s, kind)
           a   == [s EXCEPT !.env.allMsgs = Append(s.env.allMsgs, msg)]
<1>1. msg \in Listed /\ msg \notin Held(s)
  BY FreshMsgIs DEF Recording
<1>2. t = MsgAdded(a, msg)
  BY DEF Record
<1> HIDE DEF msg
<1>3. /\ s \in State /\ s.env \in Envs /\ s.env.allMsgs \in Seq(Listed)
      /\ Listings(s) /\ Focus(s) /\ Dialogs(s) /\ Fine(s)
  BY Parts, ListElements DEF Recording, Sound
<1>4. /\ Append(s.env.allMsgs, msg) \in Seq(Listed)
      /\ Len(Append(s.env.allMsgs, msg)) = Len(s.env.allMsgs) + 1
      /\ ToSet(Append(s.env.allMsgs, msg)) = ToSet(s.env.allMsgs) \cup {msg}
      /\ Distinct(Append(s.env.allMsgs, msg))
  BY <1>1, <1>3, Appended DEF Listings, Held
<1>5. Be(a, s.mgr, s.recvBar, s.sendBar, s.recvList, s.sendList,
         [s.env EXCEPT !.allMsgs = Append(s.env.allMsgs, msg)])
  BY <1>3, <1>4 DEF State, Envs, Be
<1> HIDE DEF a
<1>6. /\ a.env.allMsgs = Append(s.env.allMsgs, msg) /\ a.env.toSend = s.env.toSend
      /\ a.env.dialog = s.env.dialog /\ a.env.dialogMsg = s.env.dialogMsg
      /\ a.env.ok = s.env.ok /\ a.env.applied = s.env.applied
      /\ a.env.running = s.env.running
  BY <1>3, <1>5 DEF Be, Envs
<1>7. Listings(a)
  BY <1>3, <1>4, <1>5, <1>6 DEF Listings, Be
<1>8. Focus(a) /\ Dialogs(a) /\ Fine(a)
  BY <1>3, <1>5, <1>6 DEF Focus, Dialogs, Fine, Be
<1>9. Sound(a) /\ RecvCounted(a) /\ Selected(a) /\ SameSend(a, s)
  BY <1>5, <1>7, <1>8 DEF Recording, Sound, RecvCounted, Selected, Selects, SameSend, Be
<1>10. msg \in ToSet(a.env.allMsgs) /\ msg \notin ToSet(a.recvList.items)
  BY <1>1, <1>3, <1>4, <1>5, <1>6 DEF Listings, Be, Held
<1>11. /\ Sound(t) /\ RecvCounted(t) /\ Selected(t) /\ SameSend(t, a)
       /\ t.env = a.env
  BY <1>1, <1>2, <1>9, <1>10, MsgAddedSound
<1> QED
  BY <1>4, <1>6, <1>9, <1>11 DEF Recording, Recorded, SameSend

(* A message is received.                                                  *)
LEMMA MsgReceivedKeeps ==
  ASSUME Whole(Now), MsgReceived
  PROVE  Whole(Now)'
<1> DEFINE s == Now
<1>1. /\ s.env = env /\ s.sendList = sendList
      /\ Fit(Len(s.env.allMsgs) + 1, Len(s.sendList.items))
  BY NowIs DEF MsgReceived, RoomForRecv
<1>2. PICK kind \in ListedKinds : Become(Record(s, kind))
  BY DEF MsgReceived
<1> DEFINE t == Record(s, kind)
<1>3. Become(t)
  BY <1>2
<1> HIDE DEF s, t
<1>4. /\ Whole(s) /\ Recording(s) /\ s \in State /\ SendCounted(s) /\ Sending(s)
      /\ Len(s.env.allMsgs) \in Nat /\ MaxRecv \in Nat
  BY WholeIs, ListElements, BoundsAssumption DEF s, Recording
<1>5. Len(s.env.allMsgs) < MaxRecv
  BY <1>1, <1>4 DEF Fit
<1>6. Recording(t) /\ Recorded(t, s, 1)
  BY <1>4, <1>5, RecordSound DEF t
<1>7. SendCounted(t) /\ Sending(t) /\ Fits(t)
  BY <1>1, <1>4, <1>6 DEF SendCounted, Sending, Fits, Recorded, SameSend
<1>8. t \in State /\ Whole(t)
  BY <1>6, <1>7 DEF Whole, Recording, Sound
<1> QED
  BY <1>3, <1>8, BecomeIs

-----------------------------------------------------------------------------
(* Loops over messages. What holds after i steps is the set inv[i].        *)
LEMMA LoopStays ==
  ASSUME NEW n \in Nat, NEW inv, NEW c, c[0] \in inv[0],
         \A i \in 1..n : c[i - 1] \in inv[i - 1] => c[i] \in inv[i]
  PROVE  \A i \in 0..n : c[i] \in inv[i]
<1> DEFINE T == {k \in Nat : k <= n => c[k] \in inv[k]}
<1>1. 0 \in T
  OBVIOUS
<1>2. ASSUME NEW k \in Nat, k \in T PROVE k + 1 \in T
  <2> SUFFICES ASSUME k + 1 <= n PROVE c[k + 1] \in inv[k + 1]
    OBVIOUS
  <2>1. c[k] \in inv[k] /\ k + 1 \in 1..n /\ k + 1 - 1 = k
    BY <1>2
  <2> QED
    BY <2>1
<1> HIDE DEF T
<1>3. Nat \subseteq T
  BY <1>1, <1>2, SetInduction
<1> QED
  BY <1>3 DEF T

Loops(S, s, n, go, inv) ==
  {f \in [0..n -> S] :
      /\ f = [i \in 0..n |-> IF i = 0 THEN s ELSE go[<<f[i - 1], i>>]]
      /\ \A i \in 0..n : f[i] \in inv[i]}

(* The recursive function of a loop exists, and keeps to the sets.         *)
LEMMA LoopExists ==
  ASSUME NEW S, NEW s \in S, NEW n \in Nat, NEW go \in [S \X (1..n) -> S],
         NEW inv, s \in inv[0],
         \A i \in 1..n : \A x \in S : x \in inv[i - 1] => go[<<x, i>>] \in inv[i]
  PROVE  Loops(S, s, n, go, inv) # {}
<1>1. PICK f : f \in Iterates(S, s, go, n)
  BY IteratesExist
<1>2. /\ f \in [0..n -> S]
      /\ f = [i \in 0..n |-> IF i = 0 THEN s ELSE go[<<f[i - 1], i>>]]
  BY <1>1 DEF Iterates
<1>3. f[0] = s /\ \A i \in 1..n : f[i - 1] \in S /\ f[i] = go[<<f[i - 1], i>>]
  <2>1. f[0] = s
    BY <1>2
  <2>2. ASSUME NEW i \in 1..n PROVE f[i - 1] \in S /\ f[i] = go[<<f[i - 1], i>>]
    <3>1. i \in 0..n /\ i - 1 \in 0..n /\ i # 0
      OBVIOUS
    <3> QED
      BY <1>2, <3>1
  <2> QED
    BY <2>1, <2>2
<1>4. f[0] \in inv[0] /\ \A i \in 1..n : f[i - 1] \in inv[i - 1] => f[i] \in inv[i]
  BY <1>3
<1>5. \A i \in 0..n : f[i] \in inv[i]
  BY <1>4, LoopStays
<1> QED
  BY <1>2, <1>5 DEF Loops

(* Recording one message after the other.                                  *)
LEMMA RecordAllSound ==
  ASSUME NEW s, Recording(s), NEW kinds, NEW n \in Nat, Len(kinds) = n,
         \A i \in 1..n : kinds[i] \in ListedKinds,
         Len(s.env.allMsgs) + n <= MaxRecv,
         NEW t, t = RecordAll(s, kinds)
  PROVE  Recording(t) /\ Recorded(t, s, n)
<1> DEFINE G(i) == {x \in State : Recording(x) /\ Recorded(x, s, i)}
           inv == [i \in 0..n |-> G(i)]
           next(x, i) == Record(x, kinds[i])
           go == [p \in State \X (1..n) |->
                    IF next(p[1], p[2]) \in State THEN next(p[1], p[2]) ELSE s]
           R(f) == f = [i \in 0..n |-> IF i = 0 THEN s ELSE next(f[i - 1], i)]
           loop == CHOOSE f : R(f)
<1>1. s \in State /\ Len(s.env.allMsgs) \in Nat /\ MaxRecv \in Nat
  BY ListElements, BoundsAssumption DEF Recording, Sound
<1>2. s \in G(0)
  BY <1>1 DEF Recorded, SameSend
<1>3. ASSUME NEW i \in 1..n, NEW x, x \in G(i - 1)
      PROVE  next(x, i) \in G(i)
  <2>1. Recording(x) /\ Recorded(x, s, i - 1)
    BY <1>3
  <2>2. Len(x.env.allMsgs) = Len(s.env.allMsgs) + (i - 1)
    BY <2>1 DEF Recorded
  <2>3. Len(x.env.allMsgs) < MaxRecv /\ kinds[i] \in ListedKinds
    BY <1>1, <2>2
  <2> DEFINE y == Record(x, kinds[i])
  <2>4. Recording(y) /\ Recorded(y, x, 1)
    BY <2>1, <2>3, RecordSound
  <2> HIDE DEF y
  <2>5. Recorded(y, s, i)
    BY <1>1, <2>1, <2>4 DEF Recorded, SameSend
  <2>6. y \in State
    BY <2>4 DEF Recording, Sound
  <2> QED
    BY <2>4, <2>5, <2>6 DEF y
<1>4. \A i \in 0..n : inv[i] = G(i) /\ G(i) \subseteq State
  OBVIOUS
<1> HIDE DEF G, next, inv
<1>5. go \in [State \X (1..n) -> State]
  BY <1>1
<1>6. \A x \in State : \A i \in 1..n :
        next(x, i) \in State => go[<<x, i>>] = next(x, i)
  OBVIOUS
<1> HIDE DEF go
<1>7. s \in inv[0]
  BY <1>2, <1>4
<1>8. \A i \in 1..n : \A x : x \in inv[i - 1] => next(x, i) \in inv[i] /\ next(x, i) \in State
  <2> TAKE i \in 1..n
  <2>1. i - 1 \in 0..n /\ i \in 0..n
    OBVIOUS
  <2> QED
    BY <1>3, <1>4, <2>1
<1>9. \A i \in 1..n : \A x \in State : x \in inv[i - 1] => go[<<x, i>>] \in inv[i]
  BY <1>6, <1>8
<1>10. PICK f \in [0..n -> State] :
            /\ f = [i \in 0..n |-> IF i = 0 THEN s ELSE go[<<f[i - 1], i>>]]
            /\ \A i \in 0..n : f[i] \in inv[i]
  <2>1. Loops(State, s, n, go, inv) # {}
    BY <1>1, <1>5, <1>7, <1>9, LoopExists
  <2> QED
    BY <2>1 DEF Loops
<1>11. R(f)
  <2>1. ASSUME NEW i \in 0..n, i # 0 PROVE go[<<f[i - 1], i>>] = next(f[i - 1], i)
    <3>1. i \in 1..n /\ i - 1 \in 0..n
      BY <2>1
    <3> QED
      BY <1>6, <1>8, <1>10, <3>1
  <2> QED
    BY <1>10, <2>1
<1>12. R(loop)
  <2> HIDE DEF R
  <2> QED
    BY <1>11, Zenon
<1>13. t = loop[n]
  BY DEF RecordAll, next
<1> HIDE DEF loop
<1>14. loop[0] = s /\ \A i \in 1..n : loop[i] = next(loop[i - 1], i)
  BY <1>12
<1>15. loop[0] \in inv[0] /\ \A i \in 1..n : loop[i - 1] \in inv[i - 1] => loop[i] \in inv[i]
  BY <1>7, <1>8, <1>14
<1>16. \A i \in 0..n : loop[i] \in inv[i]
  BY <1>15, LoopStays
<1>17. t \in G(n)
  BY <1>4, <1>13, <1>16
<1> QED
  BY <1>17 DEF G

-----------------------------------------------------------------------------
(* Sending changes what the objects know of it, and nothing else.          *)
Steady(t, s) ==
    /\ t \in State /\ t.recvList = s.recvList
    /\ t.sendList.items = s.sendList.items /\ t.sendList.row = s.sendList.row
    /\ t.recvBar.idx = s.recvBar.idx /\ t.recvBar.total = s.recvBar.total
    /\ t.sendBar.idx = s.sendBar.idx /\ t.sendBar.total = s.sendBar.total
    /\ t.mgr.selType = s.mgr.selType /\ t.mgr.clicked = s.mgr.clicked
    /\ t.mgr.recvListCount = s.mgr.recvListCount
    /\ t.mgr.sendListCount = s.mgr.sendListCount
    /\ t.mgr.displayed = s.mgr.displayed /\ t.mgr.pending = s.mgr.pending
    /\ t.mgr.pendingWait = s.mgr.pendingWait
    /\ t.env.applied = s.env.applied /\ t.env.running = s.env.running
    /\ t.env.allMsgs = s.env.allMsgs /\ t.env.ok = s.env.ok
    /\ t.env.dialog = s.env.dialog /\ t.env.dialogMsg = s.env.dialogMsg

StatesAre(t, manager, recv, send, list, left) ==
    /\ t.mgr.sendState = manager /\ t.recvBar.sendState = recv
    /\ t.sendBar.state = send /\ t.sendList.state = list
    /\ t.env.toSend = left

(* All but what is being sent.                                             *)
Resting(s) == Sound(s) /\ Selected(s) /\ RecvCounted(s) /\ SendCounted(s)

(* The selection and the lists survive a change of the states.             *)
LEMMA SteadyKeeps ==
  ASSUME NEW s, Resting(s), NEW t, Steady(t, s)
  PROVE  Resting(t) /\ (Fits(s) => Fits(t))
<1>1. Listings(s) /\ Focus(s) /\ Dialogs(s) /\ Fine(s) /\ Selected(s)
  BY DEF Resting, Sound
<1>2. Listings(t)
  BY <1>1 DEF Steady, Listings, Rows
<1>3. Focus(t) /\ Dialogs(t) /\ Fine(t)
  BY <1>1 DEF Steady, Focus, Dialogs, Fine
<1>4. Selected(t)
  BY <1>1 DEF Steady, Selected, Selects, CurrentMsg
<1>5. RecvCounted(t) /\ SendCounted(t) /\ (Fits(s) => Fits(t))
  BY DEF Resting, Steady, RecvCounted, SendCounted, Fits
<1> QED
  BY <1>2, <1>3, <1>4, <1>5 DEF Resting, Sound, Steady

LEMMA SteadyOn ==
  ASSUME NEW s, NEW t, NEW u, Steady(t, s), Steady(u, t)
  PROVE  Steady(u, s)
BY DEF Steady

(* The state of each object is set.                                        *)
LEMMA MgrStateIs ==
  ASSUME NEW s \in State, NEW state \in SendState,
         NEW t, t = [s EXCEPT !.mgr.sendState = state]
  PROVE  /\ Steady(t, s)
         /\ StatesAre(t, state, s.recvBar.sendState, s.sendBar.state,
                      s.sendList.state, s.env.toSend)
<1>1. s.mgr \in Managers
  BY Parts
<1>2. Be(t, [s.mgr EXCEPT !.sendState = state], s.recvBar, s.sendBar, s.recvList,
         s.sendList, s.env)
  BY <1>1 DEF State, Managers, Be
<1> QED
  BY <1>1, <1>2 DEF Be, Steady, StatesAre, Managers

LEMMA ListStateIs ==
  ASSUME NEW s \in State, NEW state \in SendState,
         NEW t, t = [s EXCEPT !.sendList.state = state]
  PROVE  /\ Steady(t, s)
         /\ StatesAre(t, s.mgr.sendState, s.recvBar.sendState, s.sendBar.state,
                      state, s.env.toSend)
<1>1. s.sendList \in SendLists
  BY Parts
<1>2. Be(t, s.mgr, s.recvBar, s.sendBar, s.recvList,
         [s.sendList EXCEPT !.state = state], s.env)
  BY <1>1 DEF State, SendLists, Be
<1> QED
  BY <1>1, <1>2 DEF Be, Steady, StatesAre, SendLists

LEMMA LeftIs ==
  ASSUME NEW s \in State, NEW n \in Int,
         NEW t, t = [s EXCEPT !.env.toSend = n]
  PROVE  /\ Steady(t, s)
         /\ StatesAre(t, s.mgr.sendState, s.recvBar.sendState, s.sendBar.state,
                      s.sendList.state, n)
<1>1. s.env \in Envs
  BY Parts
<1>2. Be(t, s.mgr, s.recvBar, s.sendBar, s.recvList, s.sendList,
         [s.env EXCEPT !.toSend = n])
  BY <1>1 DEF State, Envs, Be
<1> QED
  BY <1>1, <1>2 DEF Be, Steady, StatesAre, Envs

LEMMA RecvStateIs ==
  ASSUME NEW s \in State, NEW state \in SendState,
         NEW t, t = [s EXCEPT !.recvBar.sendState = state]
  PROVE  /\ Steady(t, s)
         /\ StatesAre(t, s.mgr.sendState, state, s.sendBar.state,
                      s.sendList.state, s.env.toSend)
<1>1. s.recvBar \in RecvBars
  BY Parts
<1>2. Be(t, s.mgr, [s.recvBar EXCEPT !.sendState = state], s.sendBar, s.recvList,
         s.sendList, s.env)
  BY <1>1 DEF State, RecvBars, Be
<1> QED
  BY <1>1, <1>2 DEF Be, Steady, StatesAre, RecvBars

LEMMA SendStateIs ==
  ASSUME NEW s \in State, NEW state \in SendState,
         NEW t, t = [s EXCEPT !.sendBar.state = state]
  PROVE  /\ Steady(t, s)
         /\ StatesAre(t, s.mgr.sendState, s.recvBar.sendState, state,
                      s.sendList.state, s.env.toSend)
<1>1. s.sendBar \in SendBars
  BY Parts
<1>2. Be(t, s.mgr, s.recvBar, [s.sendBar EXCEPT !.state = state], s.recvList,
         s.sendList, s.env)
  BY <1>1 DEF State, SendBars, Be
<1> QED
  BY <1>1, <1>2 DEF Be, Steady, StatesAre, SendBars

(* No toolbar holds a row beyond its count.                                *)
LEMMA RowsBelow ==
  ASSUME NEW s, Resting(s)
  PROVE  /\ s \in State /\ s.recvBar.idx < s.recvBar.total
         /\ s.sendBar.idx < s.sendBar.total
         /\ s.recvBar.total \in Nat /\ s.sendBar.total \in Nat
<1>1. /\ s \in State /\ Listings(s) /\ Selected(s) /\ RecvCounted(s) /\ SendCounted(s)
      /\ Len(s.recvList.items) \in Nat /\ Len(s.sendList.items) \in Nat
  BY ListElements DEF Resting, Sound
<1> QED
  BY <1>1 DEF Listings, Selected, Selects, RecvCounted, SendCounted, Rows, NoRow

(* The slots of the toolbars, and the end of a sending.                    *)
LEMMA BarsAre ==
  ASSUME NEW s, Resting(s), NEW state \in SendState,
         NEW t, t = BarsSendState(s, state)
  PROVE  /\ Steady(t, s)
         /\ StatesAre(t, s.mgr.sendState, state, state, s.sendList.state, s.env.toSend)
<1> DEFINE a == [s EXCEPT !.recvBar.sendState = state]
           b == IF s.recvBar.sendState = state THEN s ELSE RecvBarRefresh(a)
           c == [b EXCEPT !.sendBar.state = state]
<1>1. s \in State /\ Steady(s, s)
  BY DEF Resting, Sound, Steady
<1>2. /\ Steady(b, s)
      /\ StatesAre(b, s.mgr.sendState, state, s.sendBar.state,
                   s.sendList.state, s.env.toSend)
  <2>1. CASE s.recvBar.sendState = state
    BY <1>1, <2>1 DEF StatesAre
  <2>2. CASE s.recvBar.sendState # state
    <3>1. /\ Steady(a, s)
          /\ StatesAre(a, s.mgr.sendState, state, s.sendBar.state,
                       s.sendList.state, s.env.toSend)
      BY <1>1, RecvStateIs
    <3>2. b = RecvBarRefresh(a)
      BY <2>2
    <3> HIDE DEF a, b
    <3>3. a \in State /\ a.recvBar.idx < a.recvBar.total
      BY <3>1, SteadyKeeps, RowsBelow
    <3>4. b = a
      BY <3>2, <3>3, RecvRefreshed
    <3> QED
      BY <3>1, <3>4
  <2> QED
    BY <2>1, <2>2
<1>3. t = IF s.sendBar.state = state THEN b ELSE SendBarRefresh(c)
  BY DEF BarsSendState
<1> HIDE DEF b
<1>4. CASE s.sendBar.state = state
  BY <1>2, <1>3, <1>4
<1>5. CASE s.sendBar.state # state
  <2>1. b \in State
    BY <1>2 DEF Steady
  <2>2. /\ Steady(c, b)
        /\ StatesAre(c, b.mgr.sendState, b.recvBar.sendState, state,
                     b.sendList.state, b.env.toSend)
    BY <2>1, SendStateIs
  <2> HIDE DEF c
  <2>3. Steady(c, s)
    BY <1>2, <2>2, SteadyOn
  <2>4. c \in State /\ c.sendBar.idx < c.sendBar.total
    BY <2>3, SteadyKeeps, RowsBelow
  <2>5. t = c
    BY <1>3, <1>5, <2>4, SendRefreshed
  <2> QED
    BY <1>2, <2>2, <2>3, <2>5 DEF StatesAre
<1> QED
  BY <1>4, <1>5

LEMMA StoppedIs ==
  ASSUME NEW s, Resting(s), NEW t, t = SendStopClicked(s)
  PROVE  Steady(t, s) /\ StatesAre(t, "Idle", "Idle", "Idle", "Idle", 0)
<1> DEFINE a == [s EXCEPT !.mgr.sendState = "Idle"]
           b == [a EXCEPT !.env.toSend = 0]
           c == BarsSendState(b, "Idle")
<1>1. s \in State /\ "Idle" \in SendState
  BY DEF Resting, Sound, SendState
<1>2. Steady(a, s) /\ a.mgr.sendState = "Idle"
  <2>1. StatesAre(a, "Idle", s.recvBar.sendState, s.sendBar.state,
                  s.sendList.state, s.env.toSend)
    BY <1>1, MgrStateIs
  <2>2. Steady(a, s)
    BY <1>1, MgrStateIs
  <2> HIDE DEF a
  <2> QED
    BY <2>1, <2>2 DEF StatesAre
<1>3. b = [s EXCEPT !.mgr.sendState = "Idle", !.env.toSend = 0]
  BY <1>1 DEF State
<1> HIDE DEF a
<1>4. Steady(b, a) /\ StatesAre(b, "Idle", a.recvBar.sendState, a.sendBar.state,
                                a.sendList.state, 0)
  <2>1. a \in State
    BY <1>2 DEF Steady
  <2>2. Steady(b, a) /\ StatesAre(b, a.mgr.sendState, a.recvBar.sendState,
                                  a.sendBar.state, a.sendList.state, 0)
    BY <2>1, LeftIs
  <2> QED
    BY <1>2, <2>2
<1>5. t = [c EXCEPT !.sendList.state = "Idle"]
  BY <1>3 DEF SendStopClicked
<1> HIDE DEF b
<1>6. Steady(b, s) /\ Resting(b)
  BY <1>2, <1>4, SteadyOn, SteadyKeeps
<1>7. /\ Steady(c, b)
      /\ StatesAre(c, b.mgr.sendState, "Idle", "Idle", b.sendList.state, b.env.toSend)
  BY <1>1, <1>6, BarsAre
<1> HIDE DEF c
<1>8. Steady(t, c) /\ StatesAre(t, c.mgr.sendState, c.recvBar.sendState,
                                c.sendBar.state, "Idle", c.env.toSend)
  <2>1. c \in State
    BY <1>7 DEF Steady
  <2> QED
    BY <1>1, <1>5, <2>1, ListStateIs
<1>9. Steady(t, s)
  BY <1>6, <1>7, <1>8, SteadyOn
<1> QED
  BY <1>4, <1>7, <1>8, <1>9 DEF StatesAre

-----------------------------------------------------------------------------
(* Fewer messages still fit.                                               *)
LEMMA FitsLess ==
  ASSUME NEW r \in Nat, NEW k \in Nat, NEW n \in Nat, Fit(r + k, n)
  PROVE  Fit(r, n)
<1>1. MaxRecv \in Nat /\ MaxScript \in Nat /\ MaxMsgs \in Nat
  BY BoundsAssumption
<1> QED
  BY <1>1 DEF Fit

(* Messages are sent, and the sending may end inside.                      *)
LEMMA SendPendingWhole ==
  ASSUME NEW s, Resting(s), NEW state \in SendState, state # "Idle",
         NEW left \in 0..MaxScript, StatesAre(s, state, state, state, state, left),
         NEW n \in Nat, n <= left,
         Fit(Len(s.env.allMsgs) + n, Len(s.sendList.items)),
         NEW t, t = SendPending(s, n)
  PROVE  t \in State /\ Whole(t)
<1> DEFINE a == [s EXCEPT !.env.toSend = left - n]
           b == MsgsSent(a, n)
           kinds == [i \in 1..n |-> "Sent"]
<1>1. /\ s \in State /\ MaxScript \in Nat /\ left - n \in 0..MaxScript /\ MaxRecv \in Nat
      /\ Len(s.env.allMsgs) \in Nat /\ Len(s.sendList.items) \in Nat
      /\ s.env.toSend = left
  BY BoundsAssumption, ListElements DEF Resting, Sound, StatesAre
<1>2. a = [s EXCEPT !.env.toSend = s.env.toSend - n]
  BY <1>1
<1>3. t = IF b.env.toSend = 0 THEN SendStopClicked(b) ELSE b
  BY <1>2 DEF SendPending
<1>4. /\ Steady(a, s)
      /\ StatesAre(a, s.mgr.sendState, s.recvBar.sendState, s.sendBar.state,
                   s.sendList.state, left - n)
  BY <1>1, LeftIs
<1> HIDE DEF a, b
<1>5. Resting(a) /\ StatesAre(a, state, state, state, state, left - n)
  BY <1>4, SteadyKeeps DEF StatesAre
<1>6. /\ Resting(b) /\ StatesAre(b, state, state, state, state, left - n) /\ Fits(b)
  <2>1. CASE ~a.env.running
    <3>1. b = a
      BY <2>1 DEF b, MsgsSent
    <3>2. Fits(b)
      <4>1. b.env.allMsgs = s.env.allMsgs /\ b.sendList.items = s.sendList.items
        BY <1>4, <3>1 DEF Steady
      <4>2. Fit(Len(s.env.allMsgs), Len(s.sendList.items))
        BY <1>1, FitsLess
      <4> QED
        BY <4>1, <4>2 DEF Fits
    <3> QED
      BY <1>5, <3>1, <3>2
  <2>2. CASE a.env.running
    <3>1. b = RecordAll(a, kinds)
      BY <2>2 DEF b, MsgsSent
    <3>2. Recording(a) /\ Len(a.env.allMsgs) + n <= MaxRecv
      BY <1>4, <1>5 DEF Resting, Recording, Steady, Fit
    <3>3. Len(kinds) = n /\ \A i \in 1..n : kinds[i] \in ListedKinds
      BY KindsAssumption
    <3> HIDE DEF kinds
    <3>4. Recording(b) /\ Recorded(b, a, n)
      BY <3>1, <3>2, <3>3, RecordAllSound
    <3>5. Resting(b)
      BY <1>5, <3>4 DEF Resting, Recording, Recorded, SameSend, SendCounted
    <3>6. StatesAre(b, state, state, state, state, left - n)
      BY <1>5, <3>4 DEF Recorded, SameSend, StatesAre
    <3>7. Fits(b)
      BY <1>1, <1>4, <3>4 DEF Recorded, SameSend, Steady, Fits
    <3> QED
      BY <3>5, <3>6, <3>7
  <2> QED
    BY <2>1, <2>2
<1>7. CASE b.env.toSend = 0
  <2>1. t = SendStopClicked(b)
    BY <1>3, <1>7
  <2>2. Steady(t, b) /\ StatesAre(t, "Idle", "Idle", "Idle", "Idle", 0)
    BY <1>6, <2>1, StoppedIs
  <2>3. Resting(t) /\ Fits(t)
    BY <1>6, <2>2, SteadyKeeps
  <2>4. Sending(t)
    BY <1>1, <2>2 DEF Sending, StatesAre
  <2> QED
    BY <2>3, <2>4 DEF Whole, Resting, Sound
<1>8. CASE b.env.toSend # 0
  <2>1. t = b
    BY <1>3, <1>8
  <2>2. Sending(t)
    BY <1>1, <1>6, <1>8, <2>1 DEF Sending, StatesAre
  <2> QED
    BY <1>6, <2>1, <2>2 DEF Whole, Resting, Sound
<1> QED
  BY <1>7, <1>8

(* The timer of the sending manager, the stop and the start buttons.       *)
LEMMA SendTimeoutKeeps ==
  ASSUME Whole(Now), SendTimeout
  PROVE  Whole(Now)'
<1> DEFINE s == Now
           t == SendPending(s, 1)
<1>1. /\ 0 < s.env.toSend /\ Become(t)
      /\ Fit(Len(s.env.allMsgs) + 1, Len(s.sendList.items))
  BY NowIs DEF SendTimeout, RoomForRecv
<1> HIDE DEF s, t
<1>2. /\ Resting(s) /\ Sending(s) /\ s \in State /\ s.mgr.sendState \in SendState
  <2>1. s.mgr \in Managers
    BY WholeIs, Parts DEF s
  <2> QED
    BY <2>1, WholeIs DEF s, Resting, Managers
<1>3. /\ StatesAre(s, s.mgr.sendState, s.mgr.sendState, s.mgr.sendState, s.mgr.sendState,
                   s.env.toSend)
      /\ s.mgr.sendState # "Idle" /\ s.env.toSend \in 0..MaxScript /\ 1 <= s.env.toSend
  BY <1>1, <1>2, BoundsAssumption DEF Sending, StatesAre
<1>4. t \in State /\ Whole(t)
  BY <1>1, <1>2, <1>3, SendPendingWhole DEF t
<1> QED
  BY <1>1, <1>4, BecomeIs

LEMMA SendStopKeeps ==
  ASSUME Whole(Now), SendStop
  PROVE  Whole(Now)'
<1> DEFINE s == Now
           t == SendStopClicked(s)
<1>1. Become(t)
  BY DEF SendStop
<1> HIDE DEF s, t
<1>2. Resting(s) /\ Fits(s)
  BY WholeIs DEF s, Resting
<1>3. Steady(t, s) /\ StatesAre(t, "Idle", "Idle", "Idle", "Idle", 0)
  BY <1>2, StoppedIs DEF t
<1>4. Resting(t) /\ Fits(t)
  BY <1>2, <1>3, SteadyKeeps
<1>5. Sending(t)
  BY <1>3, BoundsAssumption DEF Sending, StatesAre
<1>6. t \in State /\ Whole(t)
  BY <1>4, <1>5 DEF Whole, Resting, Sound
<1> QED
  BY <1>1, <1>6, BecomeIs

LEMMA SendStartKeeps ==
  ASSUME Whole(Now), SendStart
  PROVE  Whole(Now)'
<1> DEFINE s == Now
<1>1. /\ s.env.dialog = "None" /\ s.sendBar.state = "Idle" /\ 0 < s.sendBar.total
      /\ s.sendBar = sendBar
  BY NowIs DEF SendStart, SendIdle, User
<1>2. PICK all \in BOOLEAN, n \in 0..MaxScript :
        /\ IF all THEN n <= s.sendBar.total ELSE 0 <= s.sendBar.idx /\ n <= 1
        /\ Fit(Len(s.env.allMsgs) + n, Len(s.sendList.items))
        /\ Become(SetSendState(s, IF all THEN "SendingAll" ELSE "SendingSingle", n))
  BY <1>1, NowIs DEF SendStart, RoomForRecv
<1> DEFINE state == IF all THEN "SendingAll" ELSE "SendingSingle"
           a == [s EXCEPT !.mgr.sendState = state]
           b == BarsSendState(a, state)
           c == [b EXCEPT !.sendList.state = state]
           count == IF state = "SendingSingle" THEN 1 ELSE Len(c.sendList.items)
           d == [c EXCEPT !.env.toSend = count]
           t == SetSendState(s, state, n)
<1>3. Become(t)
  BY <1>2
<1> HIDE DEF s, t
<1>4. /\ Resting(s) /\ Fits(s) /\ Sending(s) /\ s \in State /\ SendCounted(s)
      /\ Len(s.sendList.items) \in Nat
  BY WholeIs DEF s, Resting
<1>5. state \in SendState /\ state # "Idle" /\ (all <=> state = "SendingAll")
      /\ (~all <=> state = "SendingSingle")
  BY DEF SendState
<1> HIDE DEF state
<1>6. s.env.toSend = 0
  BY <1>1, <1>4, BoundsAssumption DEF Sending
<1>7. Steady(a, s) /\ StatesAre(a, state, s.recvBar.sendState, s.sendBar.state,
                                s.sendList.state, s.env.toSend)
  BY <1>4, <1>5, MgrStateIs
<1> HIDE DEF a
<1>8. Steady(b, a) /\ StatesAre(b, a.mgr.sendState, state, state, a.sendList.state, a.env.toSend)
  BY <1>4, <1>5, <1>7, SteadyKeeps, BarsAre
<1> HIDE DEF b
<1>9. Steady(c, b) /\ StatesAre(c, b.mgr.sendState, b.recvBar.sendState, b.sendBar.state, state,
                                b.env.toSend)
  <2>1. b \in State
    BY <1>8 DEF Steady
  <2> QED
    BY <1>5, <2>1, ListStateIs
<1>10. t = StartSending(c, n)
  BY DEF SetSendState, a, b, t
<1> HIDE DEF c
<1>11. Steady(c, s) /\ StatesAre(c, state, state, state, state, 0)
  <2>1. Steady(c, s)
    BY <1>7, <1>8, <1>9, SteadyOn
  <2> QED
    BY <1>6, <1>7, <1>8, <1>9, <2>1 DEF StatesAre
<1>12. /\ state = "SendingSingle" => 0 <= c.sendList.row
       /\ 0 < count /\ count \in 0..MaxScript /\ n <= count /\ c.env.toSend = 0
  <2>1. c.sendList.items = s.sendList.items /\ c.sendList.row = s.sendList.row
    BY <1>11 DEF Steady
  <2>2. 0 < Len(s.sendList.items) /\ Len(s.sendList.items) <= MaxScript
        /\ s.sendBar.total = Len(s.sendList.items)
    BY <1>1, <1>4 DEF SendCounted, Fits, Fit
  <2>3. CASE all
    BY <1>2, <1>4, <1>5, <1>11, <2>1, <2>2, <2>3, BoundsAssumption DEF StatesAre
  <2>4. CASE ~all
    <3>1. 0 <= s.sendBar.idx /\ n <= 1
      BY <1>2, <2>4
    <3>2. s.sendList.row = s.sendBar.idx
      BY <1>4, <3>1, NoMsgIsNone DEF Resting, Selected, Selects
    <3>3. count = 1
      BY <1>5, <2>4
    <3> QED
      BY <1>4, <1>11, <2>1, <2>2, <3>1, <3>2, <3>3, BoundsAssumption DEF StatesAre
  <2> QED
    BY <2>3, <2>4
<1>13. t = SendPending(d, n)
  <2>1. c.sendList.state = state /\ c \in State
    BY <1>11 DEF StatesAre, Steady
  <2>2. Assert_(c, /\ state = "SendingSingle" => 0 <= c.sendList.row
                   /\ 0 < count /\ c.env.toSend = 0) = c
    BY <1>12, <2>1, AssertTrue
  <2> QED
    BY <1>10, <2>1, <2>2 DEF StartSending
<1> HIDE DEF count
<1>14. Steady(d, c) /\ StatesAre(d, c.mgr.sendState, c.recvBar.sendState, c.sendBar.state,
                                 c.sendList.state, count)
  <2>1. c \in State /\ count \in Int
    BY <1>11, <1>12 DEF Steady
  <2> QED
    BY <2>1, LeftIs
<1> HIDE DEF d
<1>15. /\ Resting(d) /\ StatesAre(d, state, state, state, state, count) /\ Steady(d, s)
  BY <1>4, <1>11, <1>14, SteadyOn, SteadyKeeps DEF StatesAre
<1>16. Fit(Len(d.env.allMsgs) + n, Len(d.sendList.items))
  BY <1>2, <1>15 DEF Steady
<1>17. t \in State /\ Whole(t)
  <2>1. n \in Nat
    BY BoundsAssumption
  <2> QED
    BY <1>5, <1>12, <1>13, <1>15, <1>16, <2>1, SendPendingWhole
<1> QED
  BY <1>3, <1>17, BecomeIs

-----------------------------------------------------------------------------
(* The list to be sent grows.                                              *)

(* Only the lower list and the counts kept of it change; what is current   *)
(* there is told by the steps themselves.                                  *)
OnlySend(t, s) ==
    /\ t \in State
    /\ t.recvBar = s.recvBar /\ t.recvList = s.recvList /\ t.env = s.env
    /\ t.sendBar.idx = s.sendBar.idx /\ t.sendBar.state = s.sendBar.state
    /\ t.sendList.state = s.sendList.state
    /\ t.mgr.selType = s.mgr.selType /\ t.mgr.clicked = s.mgr.clicked
    /\ t.mgr.recvListCount = s.mgr.recvListCount /\ t.mgr.sendState = s.mgr.sendState
    /\ t.mgr.displayed = s.mgr.displayed /\ t.mgr.pending = s.mgr.pending
    /\ t.mgr.pendingWait = s.mgr.pendingWait

SendIs(t, items, row, count, total) ==
    /\ t.sendList.items = items /\ t.sendList.row = row
    /\ t.mgr.sendListCount = count /\ t.sendBar.total = total

(* Such changes add up.                                                    *)
LEMMA OnlySendOn ==
  ASSUME NEW s, NEW t, NEW u, OnlySend(t, s), OnlySend(u, t)
  PROVE  OnlySend(u, s)
BY DEF OnlySend

LEMMA OnlySendKeeps ==
  ASSUME NEW s, Sound(s), NEW t, OnlySend(t, s), Distinct(t.sendList.items),
         t.sendList.row \in Rows(t.sendList)
  PROVE  /\ Sound(t)
         /\ RecvCounted(s) => RecvCounted(t)
         /\ Sending(s) => Sending(t)
BY DEF Sound, OnlySend, Listings, Focus, Dialogs, Fine, RecvCounted, Sending

(* The count is changed, reported, and the list changed.                   *)
LEMMA SendCountIs ==
  ASSUME NEW s \in State, NEW n \in Int, NEW t, t = [s EXCEPT !.mgr.sendListCount = n]
  PROVE  OnlySend(t, s) /\ SendIs(t, s.sendList.items, s.sendList.row, n, s.sendBar.total)
<1>1. s.mgr \in Managers
  BY Parts
<1>2. Be(t, [s.mgr EXCEPT !.sendListCount = n], s.recvBar, s.sendBar, s.recvList,
         s.sendList, s.env)
  BY <1>1 DEF State, Managers, Be
<1> QED
  BY <1>1, <1>2 DEF Be, OnlySend, SendIs, Managers

LEMMA SendReportedIs ==
  ASSUME NEW s \in State, s.sendBar.idx < s.mgr.sendListCount,
         NEW t, t = SendListCountReport(s)
  PROVE  /\ OnlySend(t, s)
         /\ SendIs(t, s.sendList.items, s.sendList.row, s.mgr.sendListCount,
                   s.mgr.sendListCount)
<1> DEFINE n == s.mgr.sendListCount
           b == [s EXCEPT !.sendBar.total = n]
<1>1. s.mgr \in Managers /\ s.sendBar \in SendBars /\ n \in Int
  BY Parts DEF Managers
<1>2. t = SendBarRefresh(b)
  BY DEF SendListCountReport
<1> HIDE DEF n
<1>3. Be(b, s.mgr, s.recvBar, [s.sendBar EXCEPT !.total = n], s.recvList,
         s.sendList, s.env)
  BY <1>1 DEF State, SendBars, Be
<1> HIDE DEF b
<1>4. b \in State /\ b.sendBar.idx < b.sendBar.total
  BY <1>1, <1>3 DEF Be, SendBars, n
<1>5. t = b
  BY <1>2, <1>4, SendRefreshed
<1> QED
  BY <1>1, <1>3, <1>5 DEF Be, OnlySend, SendIs, SendBars, n

LEMMA SendListIs ==
  ASSUME NEW s \in State, NEW items \in Seq(Scripts), NEW row \in Int,
         NEW l, l = [s.sendList EXCEPT !.items = items, !.row = row],
         NEW t, t = [s EXCEPT !.sendList = l]
  PROVE  OnlySend(t, s) /\ SendIs(t, items, row, s.mgr.sendListCount, s.sendBar.total)
<1>1. s.sendList \in SendLists
  BY Parts
<1>2. l \in SendLists /\ l.items = items /\ l.row = row /\ l.state = s.sendList.state
  BY <1>1 DEF SendLists
<1>3. Be(t, s.mgr, s.recvBar, s.sendBar, s.recvList, l, s.env)
  BY <1>2 DEF State, Be
<1> QED
  BY <1>2, <1>3 DEF Be, OnlySend, SendIs

LEMMA SendAppendedIs ==
  ASSUME NEW s \in State, NEW msg \in Scripts, NEW t, t = AddSendMsg(s, msg)
  PROVE  /\ OnlySend(t, s)
         /\ SendIs(t, Append(s.sendList.items, msg), Len(s.sendList.items),
                   s.mgr.sendListCount, s.sendBar.total)
<1> DEFINE q == Append(s.sendList.items, msg)
           r == Len(s.sendList.items)
           l == [s.sendList EXCEPT !.items = q, !.row = r]
<1>1. q \in Seq(Scripts) /\ r \in Int /\ s.sendList \in SendLists
  BY Parts, ListElements, Appended
<1>2. t = [s EXCEPT !.sendList = l]
  BY <1>1 DEF AddSendMsg, State, SendLists
<1> HIDE DEF q, r, l
<1>3. l = [s.sendList EXCEPT !.items = q, !.row = r]
  BY DEF l
<1>4. OnlySend(t, s) /\ SendIs(t, q, r, s.mgr.sendListCount, s.sendBar.total)
  BY <1>1, <1>2, <1>3, SendListIs
<1> QED
  BY <1>4 DEF q, r

(* sendAddNewMessage.                                                      *)
LEMMA SendAddedWhole ==
  ASSUME NEW s, Whole(s), s.env.dialog = "None", NEW msg \in Scripts,
         msg \notin Held(s), Fit(Len(s.env.allMsgs), Len(s.sendList.items) + 1),
         NEW t, t = SendAddNewMessage(s, msg)
  PROVE  t \in State /\ Whole(t)
<1> DEFINE n == s.mgr.sendListCount
           a == [s EXCEPT !.mgr.sendListCount = n + 1]
           b == SendListCountReport(a)
           c == AddSendMsg(b, msg)
           d == SendMsgClicked(c, msg, b.mgr.sendListCount - 1)
           q == Append(s.sendList.items, msg)
<1>1. /\ s \in State /\ Sound(s) /\ Listings(s) /\ Selected(s) /\ RecvCounted(s)
      /\ SendCounted(s) /\ Sending(s) /\ Total(s)
      /\ s.sendList.items \in Seq(Scripts) /\ Len(s.sendList.items) \in Nat
      /\ n = Len(s.sendList.items) /\ msg \notin ToSet(s.sendList.items)
      /\ msg # s.mgr.clicked
  BY WholeIs DEF SendCounted, Held, Sound
<1>2. /\ q \in Seq(Scripts) /\ Len(q) = n + 1 /\ q[n + 1] = msg /\ Distinct(q)
  BY <1>1, Appended DEF Listings
<1> HIDE DEF n, q
<1>3. OnlySend(a, s) /\ SendIs(a, s.sendList.items, s.sendList.row, n + 1, s.sendBar.total)
  <2>1. n + 1 \in Int
    BY <1>1
  <2> QED
    BY <1>1, <2>1, SendCountIs
<1>4. a.mgr.sendListCount = n + 1 /\ a.sendBar.idx < n + 1 /\ a \in State
  <2>1. s.sendBar.idx < s.sendBar.total /\ s.sendBar.total = n /\ s.sendBar.idx \in Int
    <3>1. Resting(s) /\ s.sendBar \in SendBars
      BY <1>1, Parts DEF Resting
    <3> QED
      BY <1>1, <3>1, RowsBelow DEF SendCounted, SendBars, n
  <2> QED
    BY <1>1, <1>3, <2>1 DEF OnlySend, SendIs
<1> HIDE DEF a
<1>5. OnlySend(b, a) /\ SendIs(b, s.sendList.items, s.sendList.row, n + 1, n + 1)
  <2>1. /\ OnlySend(b, a)
        /\ SendIs(b, a.sendList.items, a.sendList.row, a.mgr.sendListCount, a.mgr.sendListCount)
    BY <1>4, SendReportedIs
  <2> QED
    BY <1>3, <1>4, <2>1 DEF SendIs
<1> HIDE DEF b
<1>6. OnlySend(c, b) /\ SendIs(c, q, n, n + 1, n + 1)
  <2>1. b \in State /\ b.sendList.items = s.sendList.items
        /\ b.mgr.sendListCount = n + 1 /\ b.sendBar.total = n + 1
    BY <1>5 DEF OnlySend, SendIs
  <2>2. OnlySend(c, b) /\ SendIs(c, Append(b.sendList.items, msg), Len(b.sendList.items),
                   b.mgr.sendListCount, b.sendBar.total)
    BY <2>1, SendAppendedIs
  <2> QED
    BY <1>1, <2>1, <2>2 DEF SendIs, q
<1> HIDE DEF c
<1>7. OnlySend(c, s)
  BY <1>3, <1>5, <1>6, OnlySendOn
<1>8. /\ Sound(c) /\ RecvCounted(c) /\ Sending(c) /\ SendCounted(c) /\ Total(c)
      /\ c.env.dialog = "None" /\ msg # c.mgr.clicked /\ b.mgr.sendListCount - 1 = n
      /\ 0 <= n /\ n \in Int /\ n < c.sendBar.total /\ n < Len(c.sendList.items)
      /\ c.sendList.items[n + 1] = msg
  <2>1. /\ c.sendList.items = q /\ c.sendList.row = n /\ c.mgr.sendListCount = n + 1
        /\ c.sendBar.total = n + 1 /\ b.mgr.sendListCount = n + 1
    BY <1>5, <1>6 DEF SendIs
  <2>2. c.sendList.row \in Rows(c.sendList)
    BY <1>1, <1>2, <2>1 DEF Rows, NoRow
  <2>3. Sound(c) /\ RecvCounted(c) /\ Sending(c)
    BY <1>1, <1>2, <1>7, <2>1, <2>2, OnlySendKeeps
  <2> QED
    BY <1>1, <1>2, <1>7, <2>1, <2>3 DEF SendCounted, Total, OnlySend
<1>9. Sound(d) /\ Kept(d, c) /\ Selected(d) /\ d.mgr.selType = "Send"
  <2>1. d = SendMsgClicked(c, msg, n)
    BY <1>8
  <2> HIDE DEF d
  <2> QED
    BY <1>8, <2>1, SendPicks
<1>10. t = Assert_(d, d.mgr.selType = "Send")
  BY DEF SendAddNewMessage, a, b, c, n
<1> HIDE DEF d
<1>11. t = d
  BY <1>9, <1>10, AssertTrue DEF Sound
<1>12. Fits(d)
  <2>1. c.env = s.env /\ c.sendList.items = q
    BY <1>6, <1>7 DEF OnlySend, SendIs
  <2> QED
    BY <1>1, <1>2, <1>9, <2>1 DEF Fits, Kept
<1> QED
  BY <1>8, <1>9, <1>11, <1>12, KeptAgrees DEF Whole, Sound

LEMMA FitsMore ==
  ASSUME NEW s, Whole(s), NEW k \in Nat, k > 0, Fit(Len(s.env.allMsgs), Len(s.sendList.items) + k)
  PROVE  Len(s.sendList.items) < MaxScript
<1>1. Len(s.sendList.items) \in Nat /\ MaxScript \in Nat
  BY WholeIs, BoundsAssumption
<1> QED
  BY <1>1 DEF Fit

(* A new message, and a copy of a received one.                            *)
LEMMA SendAddKeeps ==
  ASSUME Whole(Now), SendAdd
  PROVE  Whole(Now)'
<1> DEFINE s == Now
           t == SendAddNewMessage(s, FreshScript(s))
<1>1. /\ s.env.dialog = "None" /\ Become(t)
      /\ Fit(Len(s.env.allMsgs), Len(s.sendList.items) + 1)
  BY NowIs DEF SendAdd, SendIdle, User, RoomForScript
<1> HIDE DEF s, t
<1>2. Whole(s) /\ Sound(s) /\ Len(s.sendList.items) < MaxScript
  BY <1>1, WholeIs, FitsMore DEF s
<1>3. FreshScript(s) \in Scripts /\ FreshScript(s) \notin Held(s)
  BY <1>2, FreshScriptIs
<1>4. t \in State /\ Whole(t)
  BY <1>1, <1>2, <1>3, SendAddedWhole DEF t
<1> QED
  BY <1>1, <1>4, BecomeIs

LEMMA RecvDupKeeps ==
  ASSUME Whole(Now), RecvDup
  PROVE  Whole(Now)'
<1> DEFINE s == Now
           t == SendAddNewMessage(s, FreshScript(s))
<1>1. /\ s.env.dialog = "None" /\ 0 <= s.recvBar.idx
      /\ Become(SendAddNewMessage(Assert_(s, s.mgr.selType = "Recv"), FreshScript(s)))
      /\ Fit(Len(s.env.allMsgs), Len(s.sendList.items) + 1)
  BY NowIs DEF RecvDup, RecvSelected, User, RoomForScript
<1> HIDE DEF s, t
<1>2. Whole(s) /\ Sound(s) /\ s \in State /\ Len(s.sendList.items) < MaxScript
      /\ s.mgr.selType = "Recv"
  BY <1>1, WholeIs, FitsMore, BarSelects DEF s
<1>3. FreshScript(s) \in Scripts /\ FreshScript(s) \notin Held(s)
  BY <1>2, FreshScriptIs
<1>4. t \in State /\ Whole(t)
  BY <1>1, <1>2, <1>3, SendAddedWhole DEF t
<1>5. Assert_(s, s.mgr.selType = "Recv") = s
  BY <1>2, AssertTrue
<1> QED
  BY <1>1, <1>4, <1>5, BecomeIs DEF t

-----------------------------------------------------------------------------
(* The list to be sent is emptied.                                         *)
Undisplayed(t, s) ==
    /\ t \in State
    /\ t.recvBar = s.recvBar /\ t.sendBar = s.sendBar
    /\ t.recvList = s.recvList /\ t.sendList = s.sendList /\ t.env = s.env
    /\ t.mgr.selType = "None" /\ t.mgr.clicked = NoMsg /\ t.mgr.displayed = NoMsg
    /\ t.mgr.pending = s.mgr.pending /\ t.mgr.pendingWait = s.mgr.pendingWait
    /\ t.mgr.recvListCount = s.mgr.recvListCount
    /\ t.mgr.sendListCount = s.mgr.sendListCount
    /\ t.mgr.sendState = s.mgr.sendState
    /\ t.mgr.recvListMode = s.mgr.recvListMode

(* The displayed message is cleared.                                       *)
LEMMA UndisplayedFields ==
  ASSUME NEW s \in State, NEW t, t = ClearDisplayedMessage(s)
  PROVE  Undisplayed(t, s)
<1>1. s.mgr \in Managers
  BY Parts
<1>2. Be(t, Unpicked(s.mgr), s.recvBar, s.sendBar, s.recvList, s.sendList, s.env)
  BY UndisplayedIs
<1> QED
  BY <1>1, <1>2, UnpickedIs DEF Be, Undisplayed

LEMMA UndisplayedSound ==
  ASSUME NEW s, Sound(s), s.env.dialog = "None", NEW t, Undisplayed(t, s)
  PROVE  Sound(t)
<1>1. Listings(s) /\ Focus(s) /\ Dialogs(s) /\ Fine(s)
  BY DEF Sound
<1>2. Listings(t)
  BY <1>1 DEF Undisplayed, Listings
<1>3. Focus(t) /\ Dialogs(t) /\ Fine(t)
  BY <1>1 DEF Undisplayed, Focus, Dialogs, Fine
<1> QED
  BY <1>2, <1>3 DEF Sound, Undisplayed

(* An empty list.                                                          *)
LEMMA EmptyList ==
  /\ \A T : <<>> \in Seq(T)
  /\ Len(<<>>) = 0 /\ ToSet(<<>>) = {} /\ Distinct(<<>>)
BY DEF ToSet, Distinct

LEMMA FitsFewer ==
  ASSUME NEW r \in Nat, NEW k \in Nat, NEW q \in Nat, NEW n \in Nat,
         Fit(r, n), k <= r, q <= n
  PROVE  Fit(k, q)
<1>1. MaxRecv \in Nat /\ MaxScript \in Nat /\ MaxMsgs \in Nat
  BY BoundsAssumption
<1> QED
  BY <1>1 DEF Fit

(* The lower list is emptied before the manager knows.                     *)
LEMMA SendClearedWhole ==
  ASSUME NEW s, Whole(s), s.env.dialog = "None", 0 < s.mgr.sendListCount,
         NEW t, t = SendClear(s)
  PROVE  t \in State /\ Whole(t) /\ t.env = s.env
<1> DEFINE l == [s.sendList EXCEPT !.items = <<>>, !.row = NoRow]
           a == [s EXCEPT !.sendList.items = <<>>, !.sendList.row = NoRow]
           x == Assert_(a, 0 < s.mgr.sendListCount)
           b == [x EXCEPT !.mgr.sendListCount = 0]
           d == ClearDisplayedMessage(b)
           c == IF s.mgr.selType = "Send" THEN SendMsgSelected(d, NoRow) ELSE b
<1>6. t = SendListCountReport(c)
  BY DEF SendClear
<1>1. /\ s \in State /\ Sound(s) /\ Listings(s) /\ Selected(s) /\ RecvCounted(s)
      /\ SendCounted(s) /\ Sending(s) /\ Total(s) /\ Fits(s)
      /\ s.sendList \in SendLists /\ <<>> \in Seq(Scripts) /\ NoRow \in Int
      /\ Len(s.sendList.items) \in Nat /\ Len(s.env.allMsgs) \in Nat
  BY WholeIs, Parts, ListElements, NoMsgIsNone, EmptyList
<1>2. a = [s EXCEPT !.sendList = l]
  BY <1>1 DEF State, SendLists
<1> HIDE DEF l
<1>3. OnlySend(a, s) /\ SendIs(a, <<>>, NoRow, s.mgr.sendListCount, s.sendBar.total)
  <2>1. l = [s.sendList EXCEPT !.items = <<>>, !.row = NoRow]
    BY DEF l
  <2> QED
    BY <1>1, <1>2, <2>1, SendListIs
<1> HIDE DEF a
<1>5. x = a
  BY <1>3, AssertTrue DEF OnlySend
<1> HIDE DEF x
<1>4. OnlySend(b, a) /\ SendIs(b, <<>>, NoRow, 0, s.sendBar.total)
  <2>1. a \in State
    BY <1>3 DEF OnlySend
  <2>2. OnlySend(b, a) /\ SendIs(b, a.sendList.items, a.sendList.row, 0, a.sendBar.total)
    BY <1>5, <2>1, SendCountIs
  <2> QED
    BY <1>3, <2>2 DEF SendIs
<1> HIDE DEF b
<1>7. OnlySend(b, s) /\ b \in State
  BY <1>3, <1>4, OnlySendOn DEF OnlySend
<1>8. /\ b.sendList.items = <<>> /\ b.sendList.row = NoRow /\ b.mgr.sendListCount = 0
      /\ b.sendBar.total = s.sendBar.total
  BY <1>4 DEF SendIs
<1>9. Sound(b) /\ RecvCounted(b) /\ Sending(b)
  <2>1. b.sendList.row \in Rows(b.sendList)
    BY <1>8, EmptyList DEF Rows, NoRow
  <2> QED
    BY <1>1, <1>7, <1>8, <2>1, EmptyList, OnlySendKeeps
<1>10. /\ Sound(c) /\ RecvCounted(c) /\ Sending(c) /\ c.env = s.env
       /\ c.sendList.items = <<>> /\ c.sendList.row = NoRow
       /\ c.mgr.sendListCount = 0 /\ c.sendBar.idx = NoRow
       /\ c.recvBar = s.recvBar /\ c.recvList = s.recvList
       /\ IF s.mgr.selType = "Send" THEN c.mgr.selType = "None" /\ c.mgr.clicked = NoMsg
          ELSE c.mgr.selType = s.mgr.selType /\ c.mgr.clicked = s.mgr.clicked
  <2>1. CASE s.mgr.selType = "Send"
    <3>1. c = SendMsgSelected(d, NoRow)
      BY <2>1
    <3>2. Undisplayed(d, b)
      BY <1>7, UndisplayedFields
    <3> HIDE DEF c, d
    <3>3. d \in State /\ Total(d) /\ Sound(d)
      <4>1. d \in State /\ Total(d) /\ b.env.dialog = "None"
        BY <1>1, <1>7, <1>8, <3>2 DEF Undisplayed, Total, OnlySend
      <4> QED
        BY <1>9, <3>2, <4>1, UndisplayedSound
    <3>4. Be(c, d.mgr, d.recvBar, AtIdx(d.sendBar, NoRow), d.recvList,
             AtRow(d.sendList, NoRow), d.env)
      BY <3>1, <3>3, NoSendTold
    <3>5. /\ c.sendList.items = <<>> /\ c.sendList.row = NoRow
          /\ c.sendList.state = d.sendList.state
      <4>1. d.sendList \in SendLists /\ d.sendList.items = <<>>
        BY <1>8, <3>2, <3>3, Parts DEF Undisplayed
      <4> QED
        BY <1>1, <3>4, <4>1, AtRowIs DEF Be
    <3>6. /\ c.sendBar.idx = NoRow /\ c.sendBar.state = d.sendBar.state
          /\ c.sendBar.total = d.sendBar.total
      <4>1. d.sendBar \in SendBars
        BY <3>3, Parts
      <4> QED
        BY <1>1, <3>4, <4>1, AtIdxIs DEF Be
    <3>8. Sound(c)
      <4>1. Listings(d) /\ Focus(d) /\ Dialogs(d) /\ Fine(d)
        BY <3>3 DEF Sound
      <4>2. Listings(c)
        <5>1. c.sendList.row \in Rows(c.sendList)
          BY <3>5, EmptyList DEF Rows, NoRow
        <5> QED
          BY <3>4, <3>5, <4>1, <5>1, EmptyList DEF Listings, Be
      <4>3. Focus(c) /\ Dialogs(c) /\ Fine(c)
        BY <3>4, <4>1 DEF Focus, Dialogs, Fine, Be
      <4> QED
        BY <3>4, <4>2, <4>3 DEF Sound, Be
    <3>9. RecvCounted(c) /\ Sending(c)
      BY <1>9, <3>2, <3>4, <3>5, <3>6 DEF Undisplayed, Be, RecvCounted, Sending
    <3> QED
      BY <1>7, <1>8, <2>1, <3>2, <3>4, <3>5, <3>6, <3>8, <3>9 DEF Undisplayed, Be, OnlySend
  <2>2. CASE s.mgr.selType # "Send"
    <3>1. c = b
      BY <2>2
    <3>2. b.sendBar.idx = NoRow
      BY <1>1, <1>7, <2>2 DEF Selected, OnlySend
    <3> QED
      BY <1>7, <1>8, <1>9, <2>2, <3>1, <3>2 DEF OnlySend
  <2> QED
    BY <2>1, <2>2
<1> HIDE DEF c
<1>11. OnlySend(t, c) /\ SendIs(t, <<>>, NoRow, 0, 0)
  <2>1. c \in State /\ c.sendBar.idx < c.mgr.sendListCount
    BY <1>10, NoMsgIsNone DEF Sound
  <2>2. /\ OnlySend(t, c)
        /\ SendIs(t, c.sendList.items, c.sendList.row, c.mgr.sendListCount,
                  c.mgr.sendListCount)
    BY <1>6, <2>1, SendReportedIs
  <2> QED
    BY <1>10, <2>2 DEF SendIs
<1>12. Sound(t) /\ RecvCounted(t) /\ Sending(t)
  <2>1. t.sendList.items = <<>> /\ t.sendList.row = NoRow
    BY <1>11 DEF SendIs
  <2>2. t.sendList.row \in Rows(t.sendList)
    BY <2>1, EmptyList DEF Rows, NoRow
  <2> QED
    BY <1>10, <1>11, <2>1, <2>2, EmptyList, OnlySendKeeps
<1>13. SendCounted(t)
  BY <1>11, EmptyList DEF SendIs, SendCounted
<1>14. t.env = s.env /\ Fits(t)
  <2>1. t.env = s.env /\ t.sendList.items = <<>>
    BY <1>10, <1>11 DEF OnlySend, SendIs
  <2>2. Fit(Len(s.env.allMsgs), 0)
    BY <1>1, FitsFewer DEF Fits
  <2> QED
    BY <2>1, <2>2, EmptyList DEF Fits
<1>15. Selected(t)
  <2>1. /\ t.recvBar = s.recvBar /\ t.recvList = s.recvList /\ t.sendBar.idx = NoRow
        /\ t.mgr.selType = c.mgr.selType /\ t.mgr.clicked = c.mgr.clicked
    BY <1>10, <1>11 DEF OnlySend
  <2> QED
    BY <1>1, <1>10, <2>1 DEF Selected, Selects
<1> QED
  BY <1>12, <1>13, <1>14, <1>15 DEF Whole, Sound

LEMMA SendClearKeeps ==
  ASSUME Whole(Now), SendClearClicked
  PROVE  Whole(Now)'
<1> DEFINE s == Now
           t == SendClear(s)
<1>1. Become(t) /\ s.env.dialog = "None" /\ 0 < s.sendBar.total
  BY NowIs DEF SendClearClicked, SendIdle, User
<1> HIDE DEF s, t
<1>2. Whole(s) /\ 0 < s.mgr.sendListCount
  BY <1>1, WholeIs DEF s, SendCounted
<1>3. t \in State /\ Whole(t)
  BY <1>1, <1>2, SendClearedWhole DEF t
<1> QED
  BY <1>1, <1>3, BecomeIs

-----------------------------------------------------------------------------
(* What is deleted from the message manager is the only thing deleted.     *)
LEMMA WithoutIs ==
  ASSUME NEW msgs \in Seq(Listed), Distinct(msgs), NEW deleted
  PROVE  /\ Without(msgs, deleted) \in Seq(Listed)
         /\ Distinct(Without(msgs, deleted))
         /\ ToSet(Without(msgs, deleted)) = ToSet(msgs) \ deleted
         /\ Len(Without(msgs, deleted)) <= Len(msgs)
<1> DEFINE S == Seq(Listed)
           n == Len(msgs)
           first(i) == {msgs[j] : j \in 1..i}
           G(i) == {q \in S : /\ Distinct(q) /\ ToSet(q) = first(i) \ deleted
                              /\ Len(q) <= i}
           inv == [i \in 0..n |-> G(i)]
           next(q, i) == IF msgs[i] \in deleted THEN q ELSE Append(q, msgs[i])
           go == [p \in S \X (1..n) |-> next(p[1], p[2])]
           R(f) == f = [i \in 0..n |-> IF i = 0 THEN <<>> ELSE next(f[i - 1], i)]
           loop == CHOOSE f : R(f)
           t == Without(msgs, deleted)
<1>0. t = loop[n]
  BY DEF Without
<1>1. n \in Nat /\ \A i \in 1..n : msgs[i] \in Listed
  OBVIOUS
<1>2. <<>> \in G(0)
  BY EmptyList
<1>3. ASSUME NEW i \in 1..n, NEW q, q \in G(i - 1)
      PROVE  next(q, i) \in G(i)
  <2>1. q \in S /\ Distinct(q) /\ ToSet(q) = first(i - 1) \ deleted /\ Len(q) <= i - 1
        /\ Len(q) \in Nat /\ i - 1 \in Nat
    BY <1>3
  <2>2. first(i) = first(i - 1) \cup {msgs[i]}
    <3>1. 1..i = 1..(i - 1) \cup {i}
      BY <1>1
    <3> QED BY <3>1
  <2>3. CASE msgs[i] \in deleted
    BY <2>1, <2>2, <2>3
  <2>4. CASE msgs[i] \notin deleted
    <3> DEFINE x == msgs[i]
               r == Append(q, x)
    <3>1. x \notin first(i - 1)
      BY <1>1 DEF Distinct
    <3>2. x \in Listed
      BY <1>1
    <3> HIDE DEF first
    <3>3. /\ r \in S /\ Len(r) = Len(q) + 1 /\ ToSet(r) = ToSet(q) \cup {x}
          /\ Distinct(r)
      BY <2>1, <3>1, <3>2, Appended
    <3>4. ToSet(r) = first(i) \ deleted /\ Len(r) <= i
      BY <2>1, <2>2, <2>4, <3>3
    <3>5. next(q, i) = r
      BY <2>4
    <3> HIDE DEF r, x, next
    <3> QED
      BY <3>3, <3>4, <3>5
  <2> QED
    BY <2>3, <2>4
<1>4. \A i \in 0..n : inv[i] = G(i) /\ G(i) \subseteq S
  OBVIOUS
<1>5. go \in [S \X (1..n) -> S]
  BY <1>1
<1>6. \A x \in S : \A i \in 1..n : go[<<x, i>>] = next(x, i)
  OBVIOUS
<1> HIDE DEF G, next, inv, go, S
<1>7. <<>> \in inv[0] /\ <<>> \in S
  BY <1>1, <1>2, <1>4, EmptyList DEF S
<1>8. \A i \in 1..n : \A x : x \in inv[i - 1] => next(x, i) \in inv[i] /\ x \in S
  <2> TAKE i \in 1..n
  <2>1. i - 1 \in 0..n /\ i \in 0..n
    BY <1>1
  <2> QED
    BY <1>3, <1>4, <2>1
<1>9. \A i \in 1..n : \A x \in S : x \in inv[i - 1] => go[<<x, i>>] \in inv[i]
  BY <1>6, <1>8
<1>10. PICK f \in [0..n -> S] :
            /\ f = [i \in 0..n |-> IF i = 0 THEN <<>> ELSE go[<<f[i - 1], i>>]]
            /\ \A i \in 0..n : f[i] \in inv[i]
  <2> DEFINE e == <<>>
  <2>0. e \in S /\ e \in inv[0]
    BY <1>7
  <2> HIDE DEF e
  <2>1. Loops(S, e, n, go, inv) # {}
    BY <1>1, <1>5, <2>0, <1>9, LoopExists
  <2> QED
    BY <2>1 DEF Loops, e
<1>11. R(f)
  <2>1. ASSUME NEW i \in 0..n, i # 0 PROVE go[<<f[i - 1], i>>] = next(f[i - 1], i)
    <3>1. i \in 1..n /\ i - 1 \in 0..n
      BY <1>1, <2>1
    <3> QED
      BY <1>6, <1>8, <1>10, <3>1
  <2> QED
    BY <1>10, <2>1
<1>12. R(loop)
  <2> HIDE DEF R
  <2> QED
    BY <1>11, Zenon
<1> HIDE DEF loop
<1>14. loop[0] = <<>> /\ \A i \in 1..n : loop[i] = next(loop[i - 1], i)
  BY <1>1, <1>12
<1>15. loop[0] \in inv[0] /\ \A i \in 1..n : loop[i - 1] \in inv[i - 1] => loop[i] \in inv[i]
  BY <1>7, <1>8, <1>14
<1>16. \A i \in 0..n : loop[i] \in inv[i]
  BY <1>1, <1>15, LoopStays
<1>17. t \in G(n)
  BY <1>0, <1>1, <1>4, <1>16
<1>18. first(n) = ToSet(msgs)
  BY DEF ToSet
<1> QED
  BY <1>17, <1>18 DEF G, S

-----------------------------------------------------------------------------
(* The upper list is emptied.                                              *)
SameEnv(t, s) ==
    /\ t.env.applied = s.env.applied /\ t.env.running = s.env.running
    /\ t.env.ok = s.env.ok /\ t.env.toSend = s.env.toSend
    /\ t.env.dialog = s.env.dialog /\ t.env.dialogMsg = s.env.dialogMsg

RecvEmptied(t, s) ==
    /\ t \in State
    /\ t.sendBar = s.sendBar /\ t.sendList = s.sendList
    /\ t.recvBar.sendState = s.recvBar.sendState /\ t.recvBar.idx = NoRow
    /\ t.recvBar.total = 0 /\ t.mgr.recvListCount = 0
    /\ t.mgr.sendListCount = s.mgr.sendListCount
    /\ t.mgr.sendState = s.mgr.sendState
    /\ t.mgr.recvListMode = s.mgr.recvListMode
    /\ t.mgr.pending = s.mgr.pending /\ t.mgr.pendingWait = s.mgr.pendingWait
    /\ IF s.mgr.selType = "Send"
       THEN /\ t.mgr.selType = s.mgr.selType /\ t.mgr.clicked = s.mgr.clicked
            /\ t.mgr.displayed = s.mgr.displayed
       ELSE t.mgr.selType = "None" /\ t.mgr.clicked = NoMsg /\ t.mgr.displayed = NoMsg
    /\ t.recvList.items = <<>> /\ t.recvList.row = NoRow
    /\ t.recvList.selectOnAdd = (s.mgr.selType = "Recv" \/ s.recvList.selectOnAdd)
    /\ SameEnv(t, s)

(* The count, its report, the list and the messages are set.               *)
LEMMA RecvCountIs ==
  ASSUME NEW s \in State, NEW n \in Int, NEW t, t = [s EXCEPT !.mgr.recvListCount = n]
  PROVE  Be(t, [s.mgr EXCEPT !.recvListCount = n], s.recvBar, s.sendBar, s.recvList,
         s.sendList, s.env)
BY DEF State, Managers, Be

LEMMA RecvReportedIs ==
  ASSUME NEW s \in State, s.recvBar.idx < s.mgr.recvListCount,
         NEW t, t = RecvListCountReport(s)
  PROVE  Be(t, s.mgr, [s.recvBar EXCEPT !.total = s.mgr.recvListCount], s.sendBar,
            s.recvList, s.sendList, s.env)
<1> DEFINE n == s.mgr.recvListCount
           b == [s EXCEPT !.recvBar.total = n]
<1>1. s.mgr \in Managers /\ s.recvBar \in RecvBars /\ n \in Int
  BY Parts DEF Managers
<1>2. t = RecvBarRefresh(b)
  BY DEF RecvListCountReport
<1> HIDE DEF n
<1>3. Be(b, s.mgr, [s.recvBar EXCEPT !.total = n], s.sendBar, s.recvList,
         s.sendList, s.env)
  BY <1>1 DEF State, RecvBars, Be
<1> HIDE DEF b
<1>4. b \in State /\ b.recvBar.idx < b.recvBar.total
  BY <1>1, <1>3 DEF Be, RecvBars, n
<1>5. t = b
  BY <1>2, <1>4, RecvRefreshed
<1> QED
  BY <1>3, <1>5 DEF n

RecvListSet(t, s, items, row) ==
    /\ t \in State /\ t.mgr = s.mgr /\ t.recvBar = s.recvBar /\ t.sendBar = s.sendBar
    /\ t.sendList = s.sendList /\ t.env = s.env
    /\ t.recvList.items = items /\ t.recvList.row = row
    /\ t.recvList.selectOnAdd = s.recvList.selectOnAdd

LEMMA RecvListIs ==
  ASSUME NEW s \in State, NEW items \in Seq(Listed), NEW row \in Int,
         NEW t, t = [s EXCEPT !.recvList.items = items, !.recvList.row = row]
  PROVE  RecvListSet(t, s, items, row)
<1> DEFINE l == [s.recvList EXCEPT !.items = items, !.row = row]
<1>1. s.recvList \in RecvLists
  BY Parts
<1>2. t = [s EXCEPT !.recvList = l]
  BY <1>1 DEF State, RecvLists
<1>3. l \in RecvLists /\ l.items = items /\ l.row = row
      /\ l.selectOnAdd = s.recvList.selectOnAdd
  BY <1>1 DEF RecvLists
<1> HIDE DEF l
<1>4. Be(t, s.mgr, s.recvBar, s.sendBar, l, s.sendList, s.env)
  BY <1>2, <1>3 DEF State, Be
<1> QED
  BY <1>3, <1>4 DEF Be, RecvListSet

AllMsgsSet(t, s, msgs) ==
    /\ t \in State /\ t.mgr = s.mgr /\ t.recvBar = s.recvBar /\ t.sendBar = s.sendBar
    /\ t.recvList = s.recvList /\ t.sendList = s.sendList
    /\ t.env.allMsgs = msgs /\ SameEnv(t, s)

LEMMA AllMsgsIs ==
  ASSUME NEW s \in State, NEW msgs \in Seq(Listed), NEW t, t = [s EXCEPT !.env.allMsgs = msgs]
  PROVE  AllMsgsSet(t, s, msgs)
<1>1. s.env \in Envs
  BY Parts
<1>2. Be(t, s.mgr, s.recvBar, s.sendBar, s.recvList, s.sendList,
         [s.env EXCEPT !.allMsgs = msgs])
  BY <1>1 DEF State, Envs, Be
<1> QED
  BY <1>1, <1>2 DEF Be, Envs, SameEnv, AllMsgsSet

(* clearRecvList.                                                          *)
LEMMA RecvEmptiedIs ==
  ASSUME NEW s, Resting(s), NEW deleted, deleted \subseteq Listed,
         NEW t, t = ClearRecvList(s, deleted)
  PROVE  RecvEmptied(t, s) /\ t.env.allMsgs = Without(s.env.allMsgs, deleted)
<1> DEFINE x == Assert_(s, s.mgr.selType # "None" => s.mgr.clicked # NoMsg)
           b == [x EXCEPT !.mgr.recvListCount = 0]
           c == IF s.mgr.selType = "Send" THEN b ELSE ClearDisplayedMessage(b)
           u == SelectOnAdd(c, TRUE)
           d == IF s.mgr.selType = "Recv" THEN RecvMsgSelected(u, NoRow) ELSE c
           r == RecvListCountReport(d)
           e == [r EXCEPT !.recvList.items = <<>>, !.recvList.row = NoRow]
           f == [e EXCEPT !.env.allMsgs = Without(e.env.allMsgs, deleted)]
<1>0. t = Assert_(f, e.mgr.clicked \notin deleted)
  BY DEF ClearRecvList
<1>1. /\ s \in State /\ Sound(s) /\ Selected(s) /\ Listings(s)
      /\ s.mgr \in Managers /\ s.recvBar \in RecvBars /\ s.recvList \in RecvLists
      /\ NoRow \in Int /\ NoRow < 0
  BY Parts, NoMsgIsNone DEF Resting, Sound
<1>2. x = s
  BY <1>1, AssertTrue DEF Selected
<1> HIDE DEF x
<1>3. Be(b, [s.mgr EXCEPT !.recvListCount = 0], s.recvBar, s.sendBar, s.recvList,
         s.sendList, s.env)
  BY <1>1, <1>2, RecvCountIs
<1> HIDE DEF b
<1>4. /\ b \in State /\ b.mgr.recvListCount = 0
      /\ b.mgr.selType = s.mgr.selType /\ b.mgr.clicked = s.mgr.clicked
      /\ b.mgr.displayed = s.mgr.displayed
      /\ b.mgr.pending = s.mgr.pending /\ b.mgr.pendingWait = s.mgr.pendingWait
      /\ b.mgr.sendListCount = s.mgr.sendListCount /\ b.mgr.sendState = s.mgr.sendState
      /\ b.mgr.recvListMode = s.mgr.recvListMode
  BY <1>1, <1>3 DEF Be, Managers
<1>5. /\ c \in State /\ c.recvBar = s.recvBar /\ c.sendBar = s.sendBar
      /\ c.recvList = s.recvList /\ c.sendList = s.sendList /\ c.env = s.env
      /\ c.mgr.recvListCount = 0
      /\ c.mgr.pending = s.mgr.pending /\ c.mgr.pendingWait = s.mgr.pendingWait
      /\ c.mgr.sendListCount = s.mgr.sendListCount /\ c.mgr.sendState = s.mgr.sendState
      /\ c.mgr.recvListMode = s.mgr.recvListMode
      /\ IF s.mgr.selType = "Send"
         THEN /\ c.mgr.selType = s.mgr.selType /\ c.mgr.clicked = s.mgr.clicked
              /\ c.mgr.displayed = s.mgr.displayed
         ELSE c.mgr.selType = "None" /\ c.mgr.clicked = NoMsg /\ c.mgr.displayed = NoMsg
  <2>1. CASE s.mgr.selType = "Send"
    BY <1>3, <1>4, <2>1 DEF Be
  <2>2. CASE s.mgr.selType # "Send"
    <3>1. c = ClearDisplayedMessage(b)
      BY <2>2
    <3>2. Undisplayed(c, b)
      BY <1>4, <3>1, UndisplayedFields
    <3> QED
      BY <1>3, <1>4, <2>2, <3>2 DEF Undisplayed, Be
  <2> QED
    BY <2>1, <2>2
<1> HIDE DEF c
<1>6. /\ d \in State /\ d.mgr = c.mgr /\ d.sendBar = s.sendBar /\ d.sendList = s.sendList
      /\ d.env = s.env /\ d.recvBar.idx = NoRow
      /\ d.recvBar.sendState = s.recvBar.sendState
      /\ d.recvList.selectOnAdd = (s.mgr.selType = "Recv" \/ s.recvList.selectOnAdd)
  <2>1. CASE s.mgr.selType = "Recv"
    <3>1. Be(u, c.mgr, s.recvBar, s.sendBar, Adding(s.recvList, TRUE), s.sendList, s.env)
      BY <1>5, SelectOnAddIs
    <3>2. d = RecvMsgSelected(u, NoRow)
      BY <2>1
    <3> HIDE DEF u, d
    <3>3. u \in State /\ Total(u)
      <4>1. Total(s)
        BY RowsBelow DEF Total
      <4> QED
        BY <3>1, <4>1 DEF Be, Total
    <3>4. Be(d, u.mgr, AtIdx(u.recvBar, NoRow), u.sendBar, u.recvList, u.sendList, u.env)
      BY <3>2, <3>3, NoRecvTold
    <3>5. /\ AtIdx(s.recvBar, NoRow).idx = NoRow
          /\ AtIdx(s.recvBar, NoRow).sendState = s.recvBar.sendState
      BY <1>1, AtIdxIs
    <3>6. Adding(s.recvList, TRUE).selectOnAdd = TRUE
      BY <1>1, AddingIs
    <3> QED
      BY <2>1, <3>1, <3>4, <3>5, <3>6 DEF Be
  <2>2. CASE s.mgr.selType # "Recv"
    <3>1. d = c /\ s.recvBar.idx = NoRow
      BY <1>1, <2>2 DEF Selected
    <3>2. s.recvList.selectOnAdd \in BOOLEAN
      BY <1>1 DEF RecvLists
    <3> HIDE DEF d
    <3> QED
      BY <1>5, <2>2, <3>1, <3>2
  <2> QED
    BY <2>1, <2>2
<1> HIDE DEF d
<1>7. Be(r, d.mgr, [d.recvBar EXCEPT !.total = d.mgr.recvListCount], d.sendBar,
         d.recvList, d.sendList, d.env)
  <2>1. d.recvBar.idx < d.mgr.recvListCount
    BY <1>1, <1>5, <1>6
  <2> QED
    BY <1>6, <2>1, RecvReportedIs
<1>8. /\ r.recvBar.total = 0 /\ r.recvBar.idx = NoRow
      /\ r.recvBar.sendState = s.recvBar.sendState /\ r \in State
  <2>1. d.recvBar \in RecvBars
    BY <1>6, Parts
  <2> QED
    BY <1>5, <1>6, <1>7, <2>1 DEF Be, RecvBars
<1> HIDE DEF r
<1>9. RecvListSet(e, r, <<>>, NoRow)
  <2> DEFINE q == <<>>
  <2>1. e = [r EXCEPT !.recvList.items = q, !.recvList.row = NoRow]
        /\ q \in Seq(Listed)
    BY EmptyList
  <2> HIDE DEF q, e
  <2>2. RecvListSet(e, r, q, NoRow)
    BY <1>1, <1>8, <2>1, RecvListIs
  <2> QED
    BY <2>2 DEF q
<1> HIDE DEF e
<1>10. /\ AllMsgsSet(f, e, Without(s.env.allMsgs, deleted)) /\ SameEnv(f, s)
  <2> DEFINE w == Without(s.env.allMsgs, deleted)
  <2>1. w \in Seq(Listed)
    <3>1. s.env.allMsgs \in Seq(Listed) /\ Distinct(s.env.allMsgs)
      BY <1>1, ListElements DEF Listings
    <3> QED
      BY <3>1, WithoutIs
  <2>2. e \in State /\ e.env = s.env
    BY <1>6, <1>7, <1>9 DEF Be, RecvListSet
  <2>3. f = [e EXCEPT !.env.allMsgs = w]
    BY <2>2
  <2> HIDE DEF w, f
  <2>4. AllMsgsSet(f, e, w)
    BY <2>1, <2>2, <2>3, AllMsgsIs
  <2> QED
    BY <2>2, <2>4 DEF AllMsgsSet, SameEnv, w
<1> HIDE DEF f
<1>11. /\ f.mgr = c.mgr /\ f.sendBar = s.sendBar /\ f.sendList = s.sendList /\ f \in State
       /\ f.recvBar = r.recvBar /\ e.mgr = c.mgr
       /\ f.recvList = e.recvList /\ r.recvList = d.recvList
  BY <1>6, <1>7, <1>9, <1>10 DEF Be, RecvListSet, AllMsgsSet
<1>12. e.mgr.clicked \notin deleted
  <2>1. s.mgr.selType = "Send" => s.mgr.clicked \in Scripts
    <3>1. ASSUME s.mgr.selType = "Send" PROVE s.mgr.clicked \in Scripts
      <4>1. s.sendList.items \in Seq(Scripts)
        BY <1>1, ListElements
      <4>2. s.sendList.row + 1 \in 1..Len(s.sendList.items)
            /\ s.mgr.clicked = s.sendList.items[s.sendList.row + 1]
        BY <1>1, <3>1, <4>1 DEF Selected, Selects, CurrentMsg, Listings, Rows, NoRow
      <4> QED
        BY <4>1, <4>2
    <3> QED
      BY <3>1
  <2> QED
    BY <1>5, <1>11, <2>1, NoMsgIsNone
<1>13. t = f
  BY <1>0, <1>11, <1>12, AssertTrue
<1> QED
  BY <1>5, <1>6, <1>8, <1>9, <1>10, <1>11, <1>13 DEF RecvEmptied, RecvListSet, AllMsgsSet

-----------------------------------------------------------------------------
(* An empty upper list has no selection in it.                             *)
LEMMA RecvEmptiedKeeps ==
  ASSUME NEW s, Resting(s), s.env.dialog = "None", NEW t, RecvEmptied(t, s),
         Distinct(t.env.allMsgs)
  PROVE  Resting(t) /\ (Sending(s) => Sending(t))
<1>1. /\ Listings(s) /\ Focus(s) /\ Dialogs(s) /\ Fine(s) /\ Selected(s) /\ s \in State
      /\ SendCounted(s)
  BY DEF Resting, Sound
<1>2. Listings(t)
  <2>1. t.recvList.row \in Rows(t.recvList)
    BY EmptyList DEF RecvEmptied, Rows, NoRow
  <2> QED
    BY <1>1, <2>1, EmptyList DEF RecvEmptied, Listings
<1>3. Focus(t)
  <2>1. CASE s.mgr.selType = "Send"
    <3>1. s.recvList.selectOnAdd \in BOOLEAN
      BY <1>1, Parts DEF RecvLists
    <3> QED
      BY <1>1, <2>1, <3>1 DEF RecvEmptied, Focus
  <2>2. CASE s.mgr.selType # "Send"
    BY <1>1, <2>2 DEF RecvEmptied, Focus
  <2> QED
    BY <2>1, <2>2
<1>4. Dialogs(t) /\ Fine(t)
  BY <1>1 DEF RecvEmptied, SameEnv, Dialogs, Fine
<1>5. Selected(t)
  BY <1>1, NoMsgIsNone DEF RecvEmptied, Selected, Selects
<1>6. RecvCounted(t) /\ SendCounted(t) /\ (Sending(s) => Sending(t))
  BY <1>1, EmptyList DEF RecvEmptied, SameEnv, RecvCounted, SendCounted, Sending
<1> QED
  BY <1>2, <1>3, <1>4, <1>5, <1>6 DEF Resting, Sound, RecvEmptied

(* The clear button of the upper list.                                     *)
LEMMA RecvClearKeeps ==
  ASSUME Whole(Now), RecvClear
  PROVE  Whole(Now)'
<1> DEFINE s == Now
           gone == ToSet(s.recvList.items)
           t == ClearRecvList(s, gone)
<1>1. /\ s.env.dialog = "None" /\ 0 < s.recvBar.total
      /\ Become(ClearRecvList(Assert_(s, 0 < s.mgr.recvListCount), gone))
  BY NowIs DEF RecvClear, User
<1> HIDE DEF s
<1>2. /\ s \in State /\ Resting(s) /\ Sending(s) /\ RecvCounted(s) /\ Fits(s) /\ Listings(s)
      /\ s.env.allMsgs \in Seq(Listed) /\ Len(s.env.allMsgs) \in Nat
      /\ Len(s.sendList.items) \in Nat /\ gone \subseteq Listed
  BY WholeIs, ListElements DEF s, Resting
<1>3. Assert_(s, 0 < s.mgr.recvListCount) = s
  BY <1>1, <1>2, AssertTrue DEF RecvCounted
<1> HIDE DEF gone, t
<1>4. RecvEmptied(t, s) /\ t.env.allMsgs = Without(s.env.allMsgs, gone)
  BY <1>2, RecvEmptiedIs DEF t
<1>5. /\ Distinct(t.env.allMsgs) /\ Len(t.env.allMsgs) <= Len(s.env.allMsgs)
      /\ Len(t.env.allMsgs) \in Nat
  <2>1. /\ Without(s.env.allMsgs, gone) \in Seq(Listed)
        /\ Distinct(Without(s.env.allMsgs, gone))
        /\ Len(Without(s.env.allMsgs, gone)) <= Len(s.env.allMsgs)
    BY <1>2, WithoutIs DEF Listings
  <2> QED
    BY <1>4, <2>1
<1>6. Resting(t) /\ Sending(t)
  BY <1>1, <1>2, <1>4, <1>5, RecvEmptiedKeeps
<1>7. Fits(t)
  <2>1. t.sendList = s.sendList
    BY <1>4 DEF RecvEmptied
  <2> QED
    BY <1>2, <1>5, <2>1, FitsFewer DEF Fits
<1>8. t \in State /\ Whole(t)
  BY <1>6, <1>7 DEF Whole, Resting, Sound
<1> QED
  BY <1>1, <1>3, <1>8, BecomeIs DEF t

(* The message manager is emptied, after its list.                         *)
LEMMA AllDeleted ==
  ASSUME NEW s, Resting(s), s.env.dialog = "None",
         NEW t, t = [ClearRecvList(s, {}) EXCEPT !.env.allMsgs = <<>>]
  PROVE  /\ Resting(t) /\ (Sending(s) => Sending(t)) /\ RecvEmptied(t, s)
         /\ t.env.allMsgs = <<>>
<1> DEFINE a == ClearRecvList(s, {})
           q == <<>>
<1>1. RecvEmptied(a, s)
  BY RecvEmptiedIs
<1>2. t = [a EXCEPT !.env.allMsgs = q] /\ q \in Seq(Listed) /\ Distinct(q)
  BY EmptyList
<1> HIDE DEF a, q
<1>3. AllMsgsSet(t, a, q)
  BY <1>1, <1>2, AllMsgsIs DEF RecvEmptied
<1>4. RecvEmptied(t, s)
  BY <1>1, <1>3 DEF AllMsgsSet, RecvEmptied, SameEnv
<1>5. t.env.allMsgs = q
  BY <1>3 DEF AllMsgsSet
<1> QED
  BY <1>2, <1>4, <1>5, RecvEmptiedKeeps DEF q

(* Messages are loaded from a file in place of those there were.           *)
LEMMA RecvLoadKeeps ==
  ASSUME Whole(Now), RecvLoad
  PROVE  Whole(Now)'
<1> DEFINE s == Now
           a == [ClearRecvList(s, {}) EXCEPT !.env.allMsgs = <<>>]
<1>1. s.env.dialog = "None"
  BY NowIs DEF RecvLoad, User
<1>2. PICK n \in 0..MaxRecv : \E kinds \in [1..n -> ListedKinds] :
        Fit(n, Len(s.sendList.items)) /\ Become(RecordAll(a, kinds))
  BY NowIs DEF RecvLoad
<1>3. PICK kinds \in [1..n -> ListedKinds] :
        Fit(n, Len(s.sendList.items)) /\ Become(RecordAll(a, kinds))
  BY <1>2
<1> DEFINE t == RecordAll(a, kinds)
<1>4. Become(t)
  BY <1>3
<1> HIDE DEF s, t
<1>5. Resting(s) /\ Sending(s)
  BY WholeIs DEF s, Resting
<1>6. /\ Resting(a) /\ Sending(a) /\ RecvEmptied(a, s) /\ Len(a.env.allMsgs) = 0
  BY <1>1, <1>5, AllDeleted, EmptyList
<1> HIDE DEF a
<1>7. /\ Recording(a) /\ n \in Nat /\ Len(kinds) = n
      /\ \A i \in 1..n : kinds[i] \in ListedKinds
      /\ Len(a.env.allMsgs) + n <= MaxRecv
  <2>1. MaxRecv \in Nat
    BY BoundsAssumption
  <2> QED
    BY <1>6, <2>1 DEF Resting, Recording
<1>8. Recording(t) /\ Recorded(t, a, n)
  BY <1>7, RecordAllSound DEF t
<1>9. SendCounted(t) /\ Sending(t) /\ Fits(t)
  <2>1. t.sendList.items = s.sendList.items /\ Len(t.env.allMsgs) = n
    BY <1>6, <1>7, <1>8 DEF RecvEmptied, Recorded, SameSend
  <2> QED
    BY <1>3, <1>6, <1>8, <2>1 DEF Resting, SendCounted, Sending, Recorded, SameSend, Fits
<1>10. t \in State /\ Whole(t)
  BY <1>8, <1>9 DEF Whole, Recording, Sound
<1> QED
  BY <1>4, <1>10, BecomeIs

-----------------------------------------------------------------------------
(* Plugins are unloaded and started.                                       *)
EnvOnly(t, s) ==
    /\ t \in State /\ t.mgr = s.mgr /\ t.recvBar = s.recvBar /\ t.sendBar = s.sendBar
    /\ t.recvList = s.recvList /\ t.sendList = s.sendList
    /\ t.env.allMsgs = s.env.allMsgs /\ t.env.toSend = s.env.toSend
    /\ t.env.dialog = s.env.dialog /\ t.env.dialogMsg = s.env.dialogMsg

EnvIs(t, applied, running, ok) ==
    t.env.applied = applied /\ t.env.running = running /\ t.env.ok = ok

(* All but what the plugins do.                                            *)
Settled(s) ==
    /\ s \in State /\ Listings(s) /\ Focus(s) /\ Dialogs(s) /\ Selected(s)
    /\ RecvCounted(s) /\ SendCounted(s) /\ Sending(s) /\ Fits(s)

(* Such steps disturb nothing that is selected, listed or sent.            *)
LEMMA EnvOnlyKeeps ==
  ASSUME NEW s, Settled(s), NEW t, EnvOnly(t, s)
  PROVE  /\ Settled(t) /\ t.recvBar.idx < t.recvBar.total
         /\ t.sendBar.idx < t.sendBar.total
<1>1. /\ Listings(s) /\ Focus(s) /\ Dialogs(s) /\ Selected(s)
      /\ RecvCounted(s) /\ SendCounted(s) /\ Sending(s) /\ Fits(s)
  BY DEF Settled
<1>2. Listings(t)
  BY <1>1 DEF EnvOnly, Listings
<1>3. Focus(t) /\ Dialogs(t)
  BY <1>1 DEF EnvOnly, Focus, Dialogs
<1>4. Selected(t)
  BY <1>1 DEF EnvOnly, Selected, Selects
<1>5. RecvCounted(t) /\ SendCounted(t) /\ Sending(t) /\ Fits(t)
  BY <1>1 DEF EnvOnly, RecvCounted, SendCounted, Sending, Fits
<1>6. Settled(t) /\ t \in State
  BY <1>2, <1>3, <1>4, <1>5 DEF Settled, EnvOnly
<1>7. Len(t.recvList.items) \in Nat /\ Len(t.sendList.items) \in Nat
  BY <1>6, ListElements
<1> QED
  BY <1>2, <1>4, <1>5, <1>6, <1>7
     DEF Listings, Selected, Selects, RecvCounted, SendCounted, Rows, NoRow

LEMMA EnvOnlyOn ==
  ASSUME NEW s, NEW t, NEW u, EnvOnly(t, s), EnvOnly(u, t)
  PROVE  EnvOnly(u, s)
BY DEF EnvOnly

(* An assertion, the message manager, the plugins, the activity.           *)
LEMMA AssertIs ==
  ASSUME NEW s \in State, NEW c \in BOOLEAN, NEW t, t = Assert_(s, c)
  PROVE  EnvOnly(t, s) /\ EnvIs(t, s.env.applied, s.env.running, s.env.ok /\ c)
<1>1. s.env \in Envs /\ s.env.ok \in BOOLEAN
  BY Parts DEF Envs
<1>2. CASE c = TRUE
  <2>1. t = s
    BY <1>2, AssertTrue
  <2>2. s.env.ok = (s.env.ok /\ c)
    BY <1>1, <1>2
  <2> QED
    BY <2>1, <2>2 DEF EnvOnly, EnvIs
<1>3. CASE c = FALSE
  <2>1. (s.env.ok /\ c) = FALSE
    BY <1>3
  <2>2. t = [s EXCEPT !.env.ok = FALSE]
    BY <1>3, <2>1 DEF Assert_
  <2> DEFINE e == [s.env EXCEPT !.ok = FALSE]
  <2>3. /\ e \in Envs /\ e.ok = FALSE /\ e.applied = s.env.applied
        /\ e.running = s.env.running /\ e.allMsgs = s.env.allMsgs
        /\ e.toSend = s.env.toSend /\ e.dialog = s.env.dialog
        /\ e.dialogMsg = s.env.dialogMsg
    BY <1>1 DEF Envs
  <2>4. t = [s EXCEPT !.env = e]
    BY <2>2 DEF State
  <2> HIDE DEF e
  <2>5. Be(t, s.mgr, s.recvBar, s.sendBar, s.recvList, s.sendList, e)
    BY <2>3, <2>4 DEF State, Be
  <2>6. EnvOnly(t, s) /\ EnvIs(t, s.env.applied, s.env.running, FALSE)
    BY <2>3, <2>5 DEF Be, EnvOnly, EnvIs
  <2> QED
    BY <2>1, <2>6
<1> QED
  BY <1>2, <1>3

LEMMA RunningIs ==
  ASSUME NEW s \in State, NEW b \in BOOLEAN, NEW t, t = [s EXCEPT !.env.running = b]
  PROVE  EnvOnly(t, s) /\ EnvIs(t, s.env.applied, b, s.env.ok)
<1>1. s.env \in Envs
  BY Parts
<1>2. Be(t, s.mgr, s.recvBar, s.sendBar, s.recvList, s.sendList,
           [s.env EXCEPT !.running = b])
  BY <1>1 DEF State, Envs, Be
<1> QED
  BY <1>1, <1>2 DEF Be, Envs, EnvOnly, EnvIs

LEMMA AppliedIs ==
  ASSUME NEW s \in State, NEW b \in BOOLEAN, NEW t, t = [s EXCEPT !.env.applied = b]
  PROVE  EnvOnly(t, s) /\ EnvIs(t, b, s.env.running, s.env.ok)
<1>1. s.env \in Envs
  BY Parts
<1>2. Be(t, s.mgr, s.recvBar, s.sendBar, s.recvList, s.sendList,
           [s.env EXCEPT !.applied = b])
  BY <1>1 DEF State, Envs, Be
<1> QED
  BY <1>1, <1>2 DEF Be, Envs, EnvOnly, EnvIs

LEMMA ActiveIs ==
  ASSUME NEW s, Settled(s), NEW b \in BOOLEAN, NEW t, t = ActivityStateChanged(s, b)
  PROVE  EnvOnly(t, s) /\ EnvIs(t, s.env.applied, s.env.running, s.env.ok)
<1> DEFINE a == [s EXCEPT !.env.active = b]
<1>1. s \in State /\ s.env \in Envs
  BY Parts DEF Settled
<1>2. Be(a, s.mgr, s.recvBar, s.sendBar, s.recvList, s.sendList,
           [s.env EXCEPT !.active = b])
  BY <1>1 DEF State, Envs, Be
<1>3. t = SendBarRefresh(RecvBarRefresh(a))
  BY DEF ActivityStateChanged
<1> HIDE DEF a
<1>4. EnvOnly(a, s) /\ EnvIs(a, s.env.applied, s.env.running, s.env.ok)
  BY <1>1, <1>2 DEF Be, Envs, EnvOnly, EnvIs
<1>5. a \in State /\ a.recvBar.idx < a.recvBar.total /\ a.sendBar.idx < a.sendBar.total
  BY <1>4, EnvOnlyKeeps DEF EnvOnly
<1>6. RecvBarRefresh(a) = a
  BY <1>5, RecvRefreshed
<1>7. SendBarRefresh(a) = a
  BY <1>5, SendRefreshed
<1> QED
  BY <1>3, <1>4, <1>6, <1>7

(* What plugins the user may want.                                         *)
LEMMA WantedIs ==
  ASSUME NEW s, NEW w \in Wanted(s)
  PROVE  /\ w.kept \in BOOLEAN /\ w.work \in BOOLEAN /\ w.reload \in BOOLEAN
         /\ w.reload => s.env.applied
         /\ ~PluginsMayFail => w.work
BY DEF Wanted

(* unloadPlugins.                                                          *)
LEMMA UnloadedIs ==
  ASSUME NEW s, Whole(s), s.env.dialog = "None", NEW w \in Wanted(s),
         NEW t, t = UnloadPlugins(s, w)
  PROVE  Settled(t) /\ (~PluginsMayFail => t.env.ok)
<1> DEFINE a == IF w.reload
                THEN [ClearRecvList(s, {}) EXCEPT !.env.allMsgs = <<>>] ELSE s
           b == Assert_(a, s.env.running)
           c == [b EXCEPT !.env.running = FALSE]
           d == ActivityStateChanged(c, FALSE)
           e == [d EXCEPT !.env.applied = w.kept]
<1>1. t = IF s.env.applied THEN e ELSE s
  BY DEF UnloadPlugins
<1>2. /\ Resting(s) /\ Sending(s) /\ Fits(s) /\ Settled(s) /\ Fine(s)
      /\ s \in State /\ s.env \in Envs /\ s.env.running \in BOOLEAN
      /\ Len(s.env.allMsgs) \in Nat /\ Len(s.sendList.items) \in Nat
  <2>1. s \in State /\ s.env \in Envs
    BY WholeIs, Parts
  <2> QED
    BY <2>1, WholeIs, ListElements DEF Resting, Settled, Envs
<1>3. w.kept \in BOOLEAN
  BY WantedIs
<1>4. Settled(a) /\ a.env.ok = s.env.ok /\ a \in State
  <2>1. CASE w.reload
    <3> DEFINE u == [ClearRecvList(s, {}) EXCEPT !.env.allMsgs = <<>>]
    <3>1. a = u
      BY <2>1
    <3>2. Resting(u) /\ Sending(u) /\ RecvEmptied(u, s) /\ u.env.allMsgs = <<>>
      BY <1>2, AllDeleted
    <3> HIDE DEF u, a
    <3>3. Fits(u)
      <4>1. Len(u.env.allMsgs) = 0 /\ u.sendList = s.sendList
        BY <3>2, EmptyList DEF RecvEmptied
      <4> QED
        BY <1>2, <4>1, FitsFewer DEF Fits
    <3> QED
      BY <3>1, <3>2, <3>3 DEF Settled, Resting, Sound, RecvEmptied, SameEnv
  <2>2. CASE ~w.reload
    BY <1>2, <2>2
  <2> QED
    BY <2>1, <2>2
<1> HIDE DEF a
<1>5. EnvOnly(b, a) /\ b.env.ok = (a.env.ok /\ s.env.running)
  BY <1>2, <1>4, AssertIs DEF EnvIs
<1> HIDE DEF b
<1>6. EnvOnly(c, b) /\ c.env.ok = b.env.ok
  <2>1. EnvOnly(c, b) /\ EnvIs(c, b.env.applied, FALSE, b.env.ok)
    BY <1>5, RunningIs DEF EnvOnly
  <2> QED
    BY <2>1 DEF EnvIs
<1> HIDE DEF c
<1>7. EnvOnly(d, c) /\ d.env.ok = c.env.ok
  <2>1. Settled(c)
    BY <1>4, <1>5, <1>6, EnvOnlyOn, EnvOnlyKeeps
  <2>2. EnvOnly(d, c) /\ EnvIs(d, c.env.applied, c.env.running, c.env.ok)
    BY <2>1, ActiveIs
  <2> QED
    BY <2>2 DEF EnvIs
<1> HIDE DEF d
<1>8. EnvOnly(e, d) /\ e.env.ok = d.env.ok
  <2>1. EnvOnly(e, d) /\ EnvIs(e, w.kept, d.env.running, d.env.ok)
    BY <1>3, <1>7, AppliedIs DEF EnvOnly
  <2> QED
    BY <2>1 DEF EnvIs
<1> HIDE DEF e
<1>9. Settled(e) /\ e.env.ok = (s.env.ok /\ s.env.running)
  <2>1. EnvOnly(e, a)
    BY <1>5, <1>6, <1>7, <1>8, EnvOnlyOn
  <2> QED
    BY <1>4, <1>5, <1>6, <1>7, <1>8, <2>1, EnvOnlyKeeps
<1> QED
  BY <1>1, <1>2, <1>9 DEF Fine

(* Other plugins are applied.                                              *)
LEMMA ApplyKeeps ==
  ASSUME Whole(Now), Apply
  PROVE  Whole(Now)'
<1> DEFINE s == Now
<1>1. s.env.dialog = "None"
  BY NowIs DEF Apply, User
<1>2. PICK w \in Wanted(s) : Become(ApplyNewPlugins(s, w))
  BY DEF Apply
<1> DEFINE a == DropScripts(s, w)
           b == UnloadPlugins(a, w)
           t == StartPlugins(b, w)
           c == [b EXCEPT !.env.running = TRUE]
           d == ActivityStateChanged(c, TRUE)
           e == [d EXCEPT !.env.applied = TRUE]
<1>3. Become(t)
  BY <1>2 DEF ApplyNewPlugins
<1>4. t = IF w.work THEN e ELSE b
  BY DEF StartPlugins
<1> HIDE DEF s, t, b
<1>5. Whole(a) /\ a.env = s.env
  <2>1. CASE 0 < s.mgr.sendListCount /\ w.newProtocol
    <3>1. a = SendClear(s)
      BY <2>1 DEF DropScripts
    <3> QED
      BY <1>1, <2>1, <3>1, SendClearedWhole DEF s
  <2>2. CASE ~(0 < s.mgr.sendListCount /\ w.newProtocol)
    BY <2>2 DEF DropScripts, s
  <2> QED
    BY <2>1, <2>2
<1>6. w \in Wanted(a) /\ w.work \in BOOLEAN
  BY <1>5, WantedIs DEF Wanted
<1> HIDE DEF a
<1>7. Settled(b) /\ (~PluginsMayFail => b.env.ok) /\ b \in State
  BY <1>1, <1>5, <1>6, UnloadedIs DEF b, Settled
<1>8. EnvOnly(c, b) /\ EnvIs(c, b.env.applied, TRUE, b.env.ok)
  BY <1>7, RunningIs
<1> HIDE DEF c
<1>9. EnvOnly(d, c) /\ EnvIs(d, c.env.applied, c.env.running, c.env.ok)
  BY <1>7, <1>8, EnvOnlyKeeps, ActiveIs
<1> HIDE DEF d
<1>10. EnvOnly(e, d) /\ EnvIs(e, TRUE, d.env.running, d.env.ok)
  BY <1>9, AppliedIs DEF EnvOnly
<1> HIDE DEF e
<1>11. Settled(e) /\ e.env.applied = TRUE /\ e.env.running = TRUE /\ e.env.ok = b.env.ok
  <2>1. EnvOnly(e, b)
    BY <1>8, <1>9, <1>10, EnvOnlyOn
  <2> QED
    BY <1>7, <1>8, <1>9, <1>10, <2>1, EnvOnlyKeeps DEF EnvIs
<1>12. Settled(t) /\ Fine(t)
  <2>1. CASE w.work
    BY <1>4, <1>7, <1>11, <2>1 DEF Fine
  <2>2. CASE ~w.work
    <3>1. PluginsMayFail
      BY <2>2, WantedIs
    <3> QED
      BY <1>4, <1>7, <2>2, <3>1 DEF Fine
  <2> QED
    BY <2>1, <2>2
<1>13. t \in State /\ Whole(t)
  BY <1>12 DEF Whole, Sound, Settled
<1> QED
  BY <1>3, <1>13, BecomeIs

-----------------------------------------------------------------------------
(* One element leaves a list, or takes a place in it.                      *)
LEMMA Joined ==
  ASSUME NEW T, NEW a \in Seq(T), NEW b \in Seq(T)
  PROVE  /\ a \o b \in Seq(T)
         /\ Len(a) \in Nat /\ Len(b) \in Nat
         /\ Len(a \o b) = Len(a) + Len(b)
         /\ \A i \in 1..Len(a) : (a \o b)[i] = a[i]
         /\ \A i \in 1..(Len(a) + Len(b)) : Len(a) < i => (a \o b)[i] = b[i - Len(a)]
<1>1. /\ a \o b \in Seq(T) /\ Len(a \o b) = Len(a) + Len(b)
      /\ \A i \in 1..(Len(a) + Len(b)) :
            (a \o b)[i] = IF i <= Len(a) THEN a[i] ELSE b[i - Len(a)]
  BY ConcatProperties, Zenon
<1>2. Len(a) \in Nat /\ Len(b) \in Nat
  OBVIOUS
<1>3. ASSUME NEW i \in 1..Len(a) PROVE (a \o b)[i] = a[i]
  <2>1. i \in 1..(Len(a) + Len(b)) /\ i <= Len(a)
    BY <1>2
  <2> QED
    BY <1>1, <2>1
<1>4. ASSUME NEW i \in 1..(Len(a) + Len(b)), Len(a) < i PROVE (a \o b)[i] = b[i - Len(a)]
  <2>1. ~(i <= Len(a))
    BY <1>2, <1>4
  <2> QED
    BY <1>1, <2>1
<1> QED
  BY <1>1, <1>2, <1>3, <1>4

(* The list after a removal, and its elements.                             *)
LEMMA RemovedIs ==
  ASSUME NEW T, NEW q \in Seq(T), NEW k \in 1..Len(q)
  PROVE  /\ RemoveAt(q, k) \in Seq(T) /\ Len(RemoveAt(q, k)) = Len(q) - 1
         /\ \A i \in 1..(Len(q) - 1) :
                RemoveAt(q, k)[i] = IF i < k THEN q[i] ELSE q[i + 1]
<1> DEFINE a == SubSeq(q, 1, k - 1)
           b == SubSeq(q, k + 1, Len(q))
<1>1. Len(q) \in Nat /\ k \in Nat /\ 1 <= k /\ k <= Len(q)
  OBVIOUS
<1>2. /\ a \in Seq(T) /\ Len(a) = k - 1
      /\ \A i \in 1..(k - 1) : a[i] = q[i]
  BY <1>1
<1>3. /\ b \in Seq(T) /\ Len(b) = Len(q) - k
      /\ \A i \in 1..(Len(q) - k) : b[i] = q[i + k]
  BY <1>1
<1>4. RemoveAt(q, k) = a \o b
  BY DEF RemoveAt
<1> HIDE DEF a, b
<1>7. /\ a \o b \in Seq(T)
      /\ Len(a) \in Nat /\ Len(b) \in Nat
      /\ Len(a \o b) = Len(a) + Len(b)
      /\ \A i \in 1..Len(a) : (a \o b)[i] = a[i]
      /\ \A i \in 1..(Len(a) + Len(b)) : Len(a) < i => (a \o b)[i] = b[i - Len(a)]
  BY <1>2, <1>3, Joined
<1>5. /\ a \o b \in Seq(T) /\ Len(a \o b) = Len(q) - 1
  BY <1>1, <1>2, <1>3, <1>7
<1>6. ASSUME NEW i \in 1..(Len(q) - 1)
      PROVE  (a \o b)[i] = IF i < k THEN q[i] ELSE q[i + 1]
  <2>1. CASE i < k
    BY <1>1, <1>2, <1>3, <1>7, <2>1
  <2>2. CASE ~(i < k)
    <3>1. i - (k - 1) \in 1..(Len(q) - k) /\ i - (k - 1) + k = i + 1
      BY <1>1, <2>2
    <3>2. (a \o b)[i] = b[i - (k - 1)]
      BY <1>1, <1>2, <1>3, <1>7, <2>2
    <3>3. b[i - (k - 1)] = q[i - (k - 1) + k]
      BY <1>3, <3>1
    <3> QED
      BY <2>2, <3>1, <3>2, <3>3
  <2> QED
    BY <2>1, <2>2
<1> QED
  BY <1>4, <1>5, <1>6

LEMMA RemovedSet ==
  ASSUME NEW T, NEW q \in Seq(T), NEW k \in 1..Len(q), Distinct(q)
  PROVE  /\ Distinct(RemoveAt(q, k))
         /\ ToSet(RemoveAt(q, k)) = ToSet(q) \ {q[k]}
<1> DEFINE r == RemoveAt(q, k)
<1>1. /\ r \in Seq(T) /\ Len(r) = Len(q) - 1 /\ Len(q) \in Nat
      /\ \A i \in 1..(Len(q) - 1) : r[i] = IF i < k THEN q[i] ELSE q[i + 1]
  <2>1. /\ RemoveAt(q, k) \in Seq(T) /\ Len(RemoveAt(q, k)) = Len(q) - 1
        /\ \A i \in 1..(Len(q) - 1) :
                RemoveAt(q, k)[i] = IF i < k THEN q[i] ELSE q[i + 1]
    BY RemovedIs
  <2>2. Len(q) \in Nat
    OBVIOUS
  <2> QED
    BY <2>1, <2>2
<1> HIDE DEF r
<1>2. DOMAIN r = 1..(Len(q) - 1) /\ DOMAIN q = 1..Len(q)
  BY <1>1
<1>3. Distinct(r)
  <2> SUFFICES ASSUME NEW i \in 1..(Len(q) - 1), NEW j \in 1..(Len(q) - 1), r[i] = r[j]
               PROVE  i = j
    BY <1>2 DEF Distinct
  <2>1. \A m, n \in 1..Len(q) : q[m] = q[n] => m = n
    BY <1>2 DEF Distinct
  <2>2. /\ i \in 1..Len(q) /\ i + 1 \in 1..Len(q)
        /\ j \in 1..Len(q) /\ j + 1 \in 1..Len(q)
    BY <1>1
  <2> QED
    BY <1>1, <2>1, <2>2
<1>4. ASSUME NEW x, x \in ToSet(r) PROVE x \in ToSet(q) /\ x # q[k]
  <2>1. PICK i \in 1..(Len(q) - 1) : x = r[i]
    BY <1>2, <1>4 DEF ToSet
  <2>2. i \in 1..Len(q) /\ i + 1 \in 1..Len(q)
    BY <1>1
  <2> QED
    BY <1>1, <1>2, <2>1, <2>2 DEF ToSet, Distinct
<1>5. ASSUME NEW x, x \in ToSet(q), x # q[k] PROVE x \in ToSet(r)
  <2>1. PICK j \in 1..Len(q) : x = q[j]
    BY <1>2, <1>5 DEF ToSet
  <2>2. CASE j < k
    <3>1. j \in 1..(Len(q) - 1) /\ r[j] = x
      BY <1>1, <2>1, <2>2
    <3> QED
      BY <1>2, <3>1 DEF ToSet
  <2>3. CASE k < j
    <3>1. j - 1 \in 1..(Len(q) - 1) /\ ~(j - 1 < k) /\ j - 1 + 1 = j
      BY <1>1, <2>1, <2>3
    <3>2. r[j - 1] = q[j - 1 + 1]
      BY <1>1, <3>1
    <3> QED
      BY <1>2, <2>1, <3>1, <3>2 DEF ToSet
  <2> QED
    BY <1>1, <1>5, <2>1, <2>2, <2>3
<1>6. ToSet(r) = ToSet(q) \ {q[k]}
  BY <1>4, <1>5
<1> QED
  BY <1>3, <1>6 DEF r

(* The list after an insertion, and its elements.                          *)
LEMMA InsertedIs ==
  ASSUME NEW T, NEW q \in Seq(T), NEW k \in 1..(Len(q) + 1), NEW x \in T
  PROVE  /\ InsertAt(q, k, x) \in Seq(T) /\ Len(InsertAt(q, k, x)) = Len(q) + 1
         /\ \A i \in 1..(Len(q) + 1) :
                InsertAt(q, k, x)[i] = IF i < k THEN q[i]
                                       ELSE IF i = k THEN x ELSE q[i - 1]
<1> DEFINE a == SubSeq(q, 1, k - 1)
           e == <<x>>
           b == SubSeq(q, k, Len(q))
           c == a \o e
<1>1. Len(q) \in Nat /\ k \in Nat /\ 1 <= k /\ k <= Len(q) + 1
  OBVIOUS
<1>2. /\ a \in Seq(T) /\ Len(a) = k - 1
      /\ \A i \in 1..(k - 1) : a[i] = q[i]
  BY <1>1
<1>3. /\ b \in Seq(T) /\ Len(b) = Len(q) - k + 1
      /\ \A i \in 1..(Len(q) - k + 1) : b[i] = q[i + k - 1]
  BY <1>1
<1>4. e \in Seq(T) /\ Len(e) = 1 /\ e[1] = x
  OBVIOUS
<1>5. InsertAt(q, k, x) = c \o b
  BY DEF InsertAt
<1> HIDE DEF a, b, e
<1>9. /\ c \in Seq(T)
      /\ Len(a) \in Nat /\ Len(e) \in Nat
      /\ Len(c) = Len(a) + Len(e)
      /\ \A i \in 1..Len(a) : c[i] = a[i]
      /\ \A i \in 1..(Len(a) + Len(e)) : Len(a) < i => c[i] = e[i - Len(a)]
  BY <1>2, <1>4, Joined
<1> HIDE DEF c
<1>6. /\ c \in Seq(T) /\ Len(c) = k /\ c[k] = x
      /\ \A i \in 1..(k - 1) : c[i] = q[i]
  <2>1. k - Len(a) = 1 /\ k \in 1..(Len(a) + Len(e)) /\ Len(a) < k
    BY <1>1, <1>2, <1>4, <1>9
  <2>2. c[k] = e[k - Len(a)]
    BY <1>9, <2>1
  <2>3. c[k] = x
    BY <1>4, <2>1, <2>2
  <2> QED
    BY <1>1, <1>2, <1>4, <1>9, <2>3
<1>10. /\ c \o b \in Seq(T)
       /\ Len(c \o b) = Len(c) + Len(b)
       /\ \A i \in 1..Len(c) : (c \o b)[i] = c[i]
       /\ \A i \in 1..(Len(c) + Len(b)) : Len(c) < i => (c \o b)[i] = b[i - Len(c)]
  BY <1>3, <1>6, Joined
<1>7. c \o b \in Seq(T) /\ Len(c \o b) = Len(q) + 1
  BY <1>1, <1>3, <1>6, <1>10
<1>8. ASSUME NEW i \in 1..(Len(q) + 1)
      PROVE  (c \o b)[i] = IF i < k THEN q[i] ELSE IF i = k THEN x ELSE q[i - 1]
  <2>1. CASE i <= k
    BY <1>1, <1>3, <1>6, <1>10, <2>1
  <2>2. CASE ~(i <= k)
    <3>1. i - k \in 1..(Len(q) - k + 1) /\ i - k + k - 1 = i - 1
      BY <1>1, <2>2
    <3>2. (c \o b)[i] = b[i - k]
      BY <1>1, <1>3, <1>6, <1>10, <2>2
    <3>3. b[i - k] = q[i - k + k - 1]
      BY <1>3, <3>1
    <3> QED
      BY <2>2, <3>1, <3>2, <3>3
  <2> QED
    BY <2>1, <2>2
<1> QED
  BY <1>5, <1>7, <1>8

LEMMA InsertedSet ==
  ASSUME NEW T, NEW q \in Seq(T), NEW k \in 1..(Len(q) + 1), NEW x \in T,
         Distinct(q), x \notin ToSet(q)
  PROVE  /\ Distinct(InsertAt(q, k, x))
         /\ ToSet(InsertAt(q, k, x)) = ToSet(q) \cup {x}
<1> DEFINE r == InsertAt(q, k, x)
<1>1. /\ r \in Seq(T) /\ Len(r) = Len(q) + 1 /\ Len(q) \in Nat
      /\ \A i \in 1..(Len(q) + 1) :
            r[i] = IF i < k THEN q[i] ELSE IF i = k THEN x ELSE q[i - 1]
  BY InsertedIs
<1> HIDE DEF r
<1>2. DOMAIN r = 1..(Len(q) + 1) /\ DOMAIN q = 1..Len(q)
  BY <1>1
<1>3. \A i \in 1..Len(q) : q[i] # x
  BY <1>2 DEF ToSet
<1>4. Distinct(r)
  <2> SUFFICES ASSUME NEW i \in 1..(Len(q) + 1), NEW j \in 1..(Len(q) + 1), r[i] = r[j]
               PROVE  i = j
    BY <1>2 DEF Distinct
  <2>1. \A m, n \in 1..Len(q) : q[m] = q[n] => m = n
    BY <1>2 DEF Distinct
  <2>2. /\ i < k => i \in 1..Len(q)
        /\ k < i => i - 1 \in 1..Len(q)
        /\ j < k => j \in 1..Len(q)
        /\ k < j => j - 1 \in 1..Len(q)
    BY <1>1
  <2>3. CASE i = k
    <3>1. r[i] = x /\ j = k
      BY <1>1, <1>3, <2>2, <2>3
    <3> QED
      BY <2>3, <3>1
  <2>4. CASE i < k
    <3>1. r[i] = q[i] /\ i \in 1..Len(q) /\ j # k
      BY <1>1, <1>3, <2>2, <2>4
    <3>2. ASSUME k < j PROVE FALSE
      <4>1. r[j] = q[j - 1] /\ j - 1 \in 1..Len(q)
        BY <1>1, <2>2, <3>2
      <4>2. i = j - 1
        BY <2>1, <3>1, <4>1
      <4> QED
        BY <2>4, <3>2, <4>2
    <3>3. j < k
      BY <3>1, <3>2
    <3>4. r[j] = q[j] /\ j \in 1..Len(q)
      BY <1>1, <2>2, <3>3
    <3> QED
      BY <2>1, <3>1, <3>4
  <2>5. CASE k < i
    <3>1. r[i] = q[i - 1] /\ i - 1 \in 1..Len(q) /\ j # k
      BY <1>1, <1>3, <2>2, <2>5
    <3>2. ASSUME j < k PROVE FALSE
      <4>1. r[j] = q[j] /\ j \in 1..Len(q)
        BY <1>1, <2>2, <3>2
      <4>2. i - 1 = j
        BY <2>1, <3>1, <4>1
      <4> QED
        BY <2>5, <3>2, <4>2
    <3>3. k < j
      BY <3>1, <3>2
    <3>4. r[j] = q[j - 1] /\ j - 1 \in 1..Len(q)
      BY <1>1, <2>2, <3>3
    <3>5. i - 1 = j - 1
      BY <2>1, <3>1, <3>4
    <3> QED
      BY <3>5
  <2> QED
    BY <1>1, <2>3, <2>4, <2>5
<1>5. ASSUME NEW y, y \in ToSet(r) PROVE y \in ToSet(q) \cup {x}
  <2>1. PICK i \in 1..(Len(q) + 1) : y = r[i]
    BY <1>2, <1>5 DEF ToSet
  <2>2. /\ i < k => i \in 1..Len(q)
        /\ k < i => i - 1 \in 1..Len(q)
    BY <1>1
  <2> QED
    BY <1>1, <1>2, <2>1, <2>2 DEF ToSet
<1>6. x \in ToSet(r)
  BY <1>1, <1>2 DEF ToSet
<1>7. ASSUME NEW y, y \in ToSet(q) PROVE y \in ToSet(r)
  <2>1. PICK j \in 1..Len(q) : y = q[j]
    BY <1>2, <1>7 DEF ToSet
  <2>2. CASE j < k
    <3>1. j \in 1..(Len(q) + 1) /\ r[j] = y
      BY <1>1, <2>1, <2>2
    <3> QED
      BY <1>2, <3>1 DEF ToSet
  <2>3. CASE ~(j < k)
    <3>1. j + 1 \in 1..(Len(q) + 1) /\ ~(j + 1 < k) /\ j + 1 # k /\ j + 1 - 1 = j
      BY <1>1, <2>1, <2>3
    <3>2. r[j + 1] = q[j + 1 - 1]
      BY <1>1, <3>1
    <3> QED
      BY <1>2, <2>1, <3>1, <3>2 DEF ToSet
  <2> QED
    BY <2>2, <2>3
<1>8. ToSet(r) = ToSet(q) \cup {x}
  BY <1>5, <1>6, <1>7
<1> QED
  BY <1>4, <1>8 DEF r

-----------------------------------------------------------------------------
(* The selected message of the upper list is deleted.                      *)

(* Only the counts of the upper list change.                               *)
OnlyTally(t, s) ==
    /\ t \in State
    /\ t.recvBar.idx = s.recvBar.idx /\ t.recvBar.sendState = s.recvBar.sendState
    /\ t.sendBar = s.sendBar /\ t.recvList = s.recvList /\ t.sendList = s.sendList
    /\ t.env = s.env
    /\ t.mgr.selType = s.mgr.selType /\ t.mgr.clicked = s.mgr.clicked
    /\ t.mgr.sendListCount = s.mgr.sendListCount /\ t.mgr.sendState = s.mgr.sendState
    /\ t.mgr.recvListMode = s.mgr.recvListMode
    /\ t.mgr.displayed = s.mgr.displayed /\ t.mgr.pending = s.mgr.pending
    /\ t.mgr.pendingWait = s.mgr.pendingWait

TallyIs(t, count, total) == t.mgr.recvListCount = count /\ t.recvBar.total = total

(* Only RecvCounted depends on them.                                       *)
LEMMA OnlyTallyKeeps ==
  ASSUME NEW s, NEW t, OnlyTally(t, s)
  PROVE  /\ Sound(s) => Sound(t)
         /\ Selected(s) => Selected(t)
         /\ SendCounted(s) => SendCounted(t)
         /\ Sending(s) => Sending(t)
         /\ Fits(s) => Fits(t)
<1>1. Sound(s) => Sound(t)
  BY DEF OnlyTally, Sound, Listings, Focus, Dialogs, Fine
<1>2. Selected(s) => Selected(t)
  BY DEF OnlyTally, Selected, Selects
<1> QED
  BY <1>1, <1>2 DEF OnlyTally, SendCounted, Sending, Fits

(* The count and its report.                                               *)
LEMMA TallyCountIs ==
  ASSUME NEW s \in State, NEW n \in Int, NEW t, t = [s EXCEPT !.mgr.recvListCount = n]
  PROVE  OnlyTally(t, s) /\ TallyIs(t, n, s.recvBar.total)
<1>1. s.mgr \in Managers
  BY Parts
<1>2. Be(t, [s.mgr EXCEPT !.recvListCount = n], s.recvBar, s.sendBar, s.recvList,
         s.sendList, s.env)
  BY RecvCountIs
<1> QED
  BY <1>1, <1>2 DEF Be, OnlyTally, TallyIs, Managers

LEMMA TallyReportedIs ==
  ASSUME NEW s \in State, s.recvBar.idx < s.mgr.recvListCount,
         NEW t, t = RecvListCountReport(s)
  PROVE  OnlyTally(t, s) /\ TallyIs(t, s.mgr.recvListCount, s.mgr.recvListCount)
<1>1. s.recvBar \in RecvBars
  BY Parts
<1>2. Be(t, s.mgr, [s.recvBar EXCEPT !.total = s.mgr.recvListCount], s.sendBar,
         s.recvList, s.sendList, s.env)
  BY RecvReportedIs
<1> QED
  BY <1>1, <1>2 DEF Be, OnlyTally, TallyIs, RecvBars

(* The row that becomes current.                                           *)
LEMMA RowAfterDeleteIs ==
  ASSUME NEW n \in Nat, NEW row \in Int, 0 <= row, row < n,
         NEW list, list.row = row, Len(list.items) = n
  PROVE  /\ RowAfterDelete(list) \in Int /\ RowAfterDelete(list) \in NoRow..(n - 2)
         /\ RowAfterDelete(list) < 0 <=> n = 1
BY DEF RowAfterDelete, NoRow

(* What is selected is listed.                                             *)
LEMMA RecvSelectedIs ==
  ASSUME NEW s, Whole(s), 0 <= s.recvBar.idx
  PROVE  /\ s.mgr.selType = "Recv" /\ s.recvList.row \in Int
         /\ 0 <= s.recvList.row /\ s.recvList.row < Len(s.recvList.items)
         /\ s.recvList.items[s.recvList.row + 1] = s.mgr.clicked
         /\ s.mgr.clicked \in ToSet(s.recvList.items)
         /\ s.mgr.clicked \in ToSet(s.env.allMsgs)
         /\ s.sendBar.idx = NoRow
<1>1. /\ s \in State /\ Selected(s) /\ Listings(s)
      /\ s.recvList.items \in Seq(Listed) /\ Len(s.recvList.items) \in Nat
  BY WholeIs
<1>2. s.mgr.selType = "Recv"
  BY <1>1, NoMsgIsNone DEF Selected
<1>3. Selects(s, s.recvList, s.recvBar) /\ s.sendBar.idx = NoRow
  BY <1>1, <1>2 DEF Selected
<1>4. /\ s.recvList.row \in Int
      /\ 0 <= s.recvList.row /\ s.recvList.row < Len(s.recvList.items)
      /\ s.recvList.items[s.recvList.row + 1] = s.mgr.clicked
  BY <1>1, <1>3 DEF Selects, CurrentMsg, Listings, Rows, NoRow
<1>5. s.mgr.clicked \in ToSet(s.recvList.items)
  <2>1. s.recvList.row + 1 \in 1..Len(s.recvList.items)
    BY <1>1, <1>4
  <2>2. DOMAIN s.recvList.items = 1..Len(s.recvList.items)
    BY <1>1
  <2> QED
    BY <1>4, <2>1, <2>2 DEF ToSet
<1> QED
  BY <1>1, <1>2, <1>3, <1>4, <1>5 DEF Listings

RecvDeleted(a, s) ==
    /\ Sound(a) /\ SendCounted(a) /\ Sending(a) /\ Total(a) /\ Fits(a)
    /\ a.env.dialog = "None" /\ a.mgr.selType = "None" /\ a.mgr.clicked = NoMsg
    /\ a.sendBar.idx = NoRow
    /\ a.recvList.row \in NoRow..(Len(s.recvList.items) - 2)
    /\ a.recvList.row < 0 <=> Len(s.recvList.items) = 1
    /\ Len(a.recvList.items) = Len(s.recvList.items) - 1
    /\ a.mgr.recvListCount = Len(s.recvList.items)
    /\ a.recvBar.total = Len(s.recvList.items)

(* The message is out of the list and the counts are to follow.            *)
LEMMA RecvDeletedWhole ==
  ASSUME NEW s, Whole(s), s.env.dialog = "None", 0 <= s.recvBar.idx,
         NEW m, m = ClearDisplayedMessage(s),
         NEW a, a = [m EXCEPT !.env.allMsgs = Without(@, {s.mgr.clicked}),
                              !.recvList = DeleteCurrent(@)]
  PROVE  RecvDeleted(a, s)
<1> DEFINE clicked == s.mgr.clicked
           n == Len(s.recvList.items)
           k == s.recvList.row + 1
           q == RemoveAt(s.recvList.items, k)
           r == RowAfterDelete(s.recvList)
           msgs == Without(s.env.allMsgs, {clicked})
           b == [m EXCEPT !.env.allMsgs = msgs]
<1>1. /\ s \in State /\ Sound(s) /\ Listings(s) /\ Focus(s) /\ Dialogs(s) /\ Fine(s)
      /\ Selected(s) /\ RecvCounted(s) /\ SendCounted(s) /\ Sending(s) /\ Fits(s) /\ Total(s)
      /\ s.recvList.items \in Seq(Listed) /\ n \in Nat
      /\ s.env.allMsgs \in Seq(Listed) /\ Len(s.env.allMsgs) \in Nat
      /\ Len(s.sendList.items) \in Nat
  BY WholeIs, ListElements
<1>2. /\ s.recvList.row \in Int /\ 0 <= s.recvList.row /\ s.recvList.row < n
      /\ s.recvList.items[k] = clicked /\ s.sendBar.idx = NoRow
  BY RecvSelectedIs
<1>3. /\ k \in 1..n /\ q \in Seq(Listed) /\ Len(q) = n - 1 /\ Distinct(q)
      /\ ToSet(q) = ToSet(s.recvList.items) \ {clicked}
  <2>1. k \in 1..n
    BY <1>1, <1>2
  <2>2. q \in Seq(Listed) /\ Len(q) = n - 1
    BY <1>1, <2>1, RemovedIs
  <2>3. Distinct(q) /\ ToSet(q) = ToSet(s.recvList.items) \ {s.recvList.items[k]}
    BY <1>1, <2>1, RemovedSet DEF Listings
  <2> QED
    BY <1>2, <2>1, <2>2, <2>3
<1>4. /\ msgs \in Seq(Listed) /\ Distinct(msgs)
      /\ ToSet(msgs) = ToSet(s.env.allMsgs) \ {clicked}
      /\ Len(msgs) <= Len(s.env.allMsgs) /\ Len(msgs) \in Nat
  <2>1. /\ msgs \in Seq(Listed) /\ Distinct(msgs)
        /\ ToSet(msgs) = ToSet(s.env.allMsgs) \ {clicked}
        /\ Len(msgs) <= Len(s.env.allMsgs)
    BY <1>1, WithoutIs DEF Listings
  <2> HIDE DEF msgs
  <2> QED
    BY <2>1
<1>5. r \in Int /\ r \in NoRow..(n - 2) /\ (r < 0 <=> n = 1)
  BY <1>1, <1>2, RowAfterDeleteIs
<1>6. Undisplayed(m, s)
  BY <1>1, UndisplayedFields
<1>7. a = [b EXCEPT !.recvList.items = q, !.recvList.row = r]
  <2>1. /\ m \in State /\ m.recvList = s.recvList /\ m.env = s.env
        /\ m.recvList \in RecvLists /\ m.env \in Envs
    BY <1>6, Parts DEF Undisplayed
  <2>2. DeleteCurrent(s.recvList) = [s.recvList EXCEPT !.items = q, !.row = r]
    BY <2>1 DEF DeleteCurrent, RecvLists
  <2> HIDE DEF q, r, msgs
  <2>3. b.recvList = s.recvList
    BY <2>1 DEF State, Envs
  <2>4. a = [b EXCEPT !.recvList = DeleteCurrent(s.recvList)]
    BY <2>1 DEF State, Envs, msgs
  <2>5. [b EXCEPT !.recvList.items = q, !.recvList.row = r]
          = [b EXCEPT !.recvList = [s.recvList EXCEPT !.items = q, !.row = r]]
    BY <2>1, <2>3 DEF State, Envs, RecvLists
  <2> QED
    BY <2>2, <2>4, <2>5
<1> HIDE DEF q, r, msgs, k
<1>8. AllMsgsSet(b, m, msgs)
  BY <1>4, <1>6, AllMsgsIs DEF Undisplayed
<1> HIDE DEF b
<1>9. RecvListSet(a, b, q, r)
  <2>1. b \in State
    BY <1>8 DEF AllMsgsSet
  <2> QED
    BY <1>3, <1>5, <1>7, <2>1, RecvListIs
<1>10. /\ a \in State /\ a.recvBar = s.recvBar /\ a.sendBar = s.sendBar
       /\ a.sendList = s.sendList /\ a.env.allMsgs = msgs /\ SameEnv(a, s)
       /\ a.recvList.items = q /\ a.recvList.row = r
       /\ a.mgr = m.mgr
  BY <1>6, <1>8, <1>9 DEF Undisplayed, AllMsgsSet, RecvListSet, SameEnv
<1>11. Listings(a)
  <2>1. r \in Rows(a.recvList)
    BY <1>1, <1>3, <1>5, <1>10 DEF Rows, NoRow
  <2> QED
    BY <1>1, <1>3, <1>4, <1>10, <2>1 DEF Listings
<1>12. Focus(a) /\ Dialogs(a) /\ Fine(a) /\ a.env.dialog = "None"
  BY <1>1, <1>6, <1>10 DEF Focus, Dialogs, Fine, SameEnv, Undisplayed
<1>13. Sound(a)
  BY <1>10, <1>11, <1>12 DEF Sound
<1>14. SendCounted(a) /\ Sending(a) /\ Total(a)
  BY <1>1, <1>6, <1>10 DEF SendCounted, Sending, Total, SameEnv, Undisplayed
<1>15. Fits(a)
  BY <1>1, <1>4, <1>10, FitsFewer DEF Fits
<1> QED
  BY <1>1, <1>2, <1>3, <1>5, <1>6, <1>10, <1>12, <1>13, <1>14, <1>15
     DEF Undisplayed, RecvCounted, RecvDeleted

-----------------------------------------------------------------------------
(* recvDeleteClicked: the next message is clicked, then the count          *)
(* reported.                                                               *)
LEMMA RecvDeleteKeeps ==
  ASSUME Whole(Now), RecvDelete
  PROVE  Whole(Now)'
<1> DEFINE s == Now
           n == Len(s.recvList.items)
           x == Assert_(Now, /\ 0 < mgr.recvListCount
                             /\ mgr.selType = "Recv"
                             /\ 0 <= recvList.row
                             /\ mgr.clicked \in ToSet(env.allMsgs))
           m == ClearDisplayedMessage(x)
           a == [m EXCEPT !.env.allMsgs = Without(@, {mgr.clicked}),
                          !.recvList = DeleteCurrent(@)]
           b == IF a.recvList.row < 0 THEN a
                ELSE RecvMsgClicked(a, CurrentMsg(a.recvList), a.recvList.row)
           c == [b EXCEPT !.mgr.recvListCount = b.mgr.recvListCount - 1]
           d == IF c.mgr.recvListCount = 0 THEN RecvMsgSelected(c, NoRow) ELSE c
           t == RecvListCountReport(d)
<1>1. s.env.dialog = "None" /\ 0 <= s.recvBar.idx
  BY NowIs DEF RecvDelete, RecvSelected, User
<1>2. /\ s \in State /\ RecvCounted(s) /\ n \in Nat
      /\ s.recvList.items \in Seq(Listed)
  BY WholeIs DEF s
<1>3. x = s
  <2>1. /\ s.mgr.selType = "Recv" /\ 0 <= s.recvList.row /\ s.recvList.row < n
        /\ s.recvList.row \in Int
        /\ s.mgr.clicked \in ToSet(s.env.allMsgs)
    BY <1>1, RecvSelectedIs
  <2>2. 0 < s.mgr.recvListCount
    BY <1>2, <2>1 DEF RecvCounted
  <2>3. /\ 0 < mgr.recvListCount /\ mgr.selType = "Recv" /\ 0 <= recvList.row
        /\ mgr.clicked \in ToSet(env.allMsgs)
    BY <2>1, <2>2, NowIs
  <2> QED
    BY <1>2, <2>3, AssertTrue
<1>5. Become(t)
  BY DEF RecvDelete
<1>4. m = ClearDisplayedMessage(s) /\ mgr.clicked = s.mgr.clicked
  BY <1>3, NowIs
<1>6. /\ Sound(a) /\ SendCounted(a) /\ Sending(a) /\ Total(a) /\ Fits(a)
      /\ a.env.dialog = "None" /\ a.mgr.selType = "None" /\ a.mgr.clicked = NoMsg
      /\ a.sendBar.idx = NoRow
      /\ a.recvList.row \in NoRow..(n - 2)
      /\ a.recvList.row < 0 <=> n = 1
      /\ Len(a.recvList.items) = n - 1
      /\ a.mgr.recvListCount = n
      /\ a.recvBar.total = n
  <2>0. Whole(s)
    OBVIOUS
  <2> HIDE DEF m, n
  <2>1. a = [m EXCEPT !.env.allMsgs = Without(@, {s.mgr.clicked}),
                      !.recvList = DeleteCurrent(@)]
    BY <1>4
  <2> HIDE DEF a, s
  <2>2. RecvDeleted(a, s)
    BY <1>1, <1>4, <2>0, <2>1, RecvDeletedWhole
  <2> QED
    BY <2>2 DEF n, RecvDeleted
<1> HIDE DEF s, n, x, m, a
<1>7. /\ Sound(b) /\ Total(b) /\ SendCounted(b) /\ Sending(b) /\ Fits(b)
      /\ b \in State
      /\ Len(b.recvList.items) = n - 1
      /\ b.mgr.recvListCount = n /\ b.recvBar.total = n
      /\ b.recvList.row \in NoRow..(n - 2)
      /\ IF n = 1 THEN b = a ELSE Selected(b)
  <2>1. CASE n = 1
    <3>1. b = a
      BY <1>6, <2>1
    <3> HIDE DEF b
    <3> QED
      BY <1>6, <2>1, <3>1 DEF Sound
  <2>2. CASE n # 1
    <3> DEFINE idx == a.recvList.row
               msg == CurrentMsg(a.recvList)
    <3>1. b = RecvMsgClicked(a, msg, idx)
      BY <1>6, <2>2
    <3> HIDE DEF b
    <3>2. idx \in Int /\ 0 <= idx /\ idx < a.recvBar.total /\ idx + 1 \in 1..(n - 1)
      BY <1>2, <1>6, <2>2 DEF NoRow
    <3>3. msg \in Listed /\ msg # a.mgr.clicked
      <4>1. a.recvList.items \in Seq(Listed)
        BY <1>6, ListElements DEF Sound
      <4> QED
        BY <1>6, <3>2, <4>1, NoMsgIsNone DEF CurrentMsg
    <3>4. Sound(b) /\ Kept(b, a) /\ Selected(b)
      <4> HIDE DEF idx, msg
      <4>1. a.recvList.row = idx /\ CurrentMsg(a.recvList) = msg
        BY DEF idx, msg
      <4> QED
        BY <1>6, <3>1, <3>2, <3>3, <4>1, RecvPicks
    <3>5. b \in State /\ Listings(b)
      BY <3>4 DEF Sound
    <3>6. b.recvList.row \in NoRow..(n - 2)
      <4>1. b.recvList.row \in NoRow..(Len(b.recvList.items) - 1)
        BY <3>5 DEF Listings, Rows
      <4> QED
        BY <1>2, <1>6, <3>4, <4>1 DEF Kept
    <3> QED
      BY <1>6, <2>2, <3>4, <3>5, <3>6, KeptAgrees DEF Kept
  <2> QED
    BY <2>1, <2>2
<1> HIDE DEF b
<1>8. OnlyTally(c, b) /\ TallyIs(c, n - 1, n)
  <2>1. b.mgr.recvListCount - 1 = n - 1 /\ n - 1 \in Int
    BY <1>2, <1>7
  <2>2. c = [b EXCEPT !.mgr.recvListCount = n - 1]
    BY <2>1
  <2> HIDE DEF c
  <2> QED
    BY <1>7, <2>1, <2>2, TallyCountIs
<1> HIDE DEF c
<1>9. /\ Sound(c) /\ SendCounted(c) /\ Sending(c) /\ Fits(c) /\ c \in State
      /\ (n # 1 => Selected(c))
      /\ c.mgr.recvListCount = n - 1 /\ c.recvBar.total = n
      /\ Len(c.recvList.items) = n - 1 /\ c.recvList.row \in NoRow..(n - 2)
  BY <1>7, <1>8, OnlyTallyKeeps DEF OnlyTally, TallyIs
<1>10. /\ Sound(d) /\ SendCounted(d) /\ Sending(d) /\ Fits(d) /\ d \in State
       /\ Selected(d) /\ d.mgr.recvListCount = n - 1
       /\ Len(d.recvList.items) = n - 1 /\ d.recvList.row \in NoRow..(n - 2)
  <2>1. CASE n = 1
    <3>1. d = RecvMsgSelected(c, NoRow)
      BY <1>9, <2>1
    <3> HIDE DEF d
    <3>2. Total(c)
      BY <1>2, <1>7, <1>8, <1>9, <2>1 DEF Total, OnlyTally
    <3>3. Be(d, c.mgr, AtIdx(c.recvBar, NoRow), c.sendBar, c.recvList, c.sendList, c.env)
      BY <1>9, <3>1, <3>2, NoRecvTold
    <3>4. /\ AtIdx(c.recvBar, NoRow).idx = NoRow
          /\ AtIdx(c.recvBar, NoRow).sendState = c.recvBar.sendState
      BY <1>9, Parts, AtIdxIs, NoMsgIsNone
    <3>5. /\ c.mgr.selType = "None" /\ c.mgr.clicked = NoMsg /\ c.sendBar.idx = NoRow
      BY <1>6, <1>7, <1>8, <2>1 DEF OnlyTally
    <3>6. Selected(d)
      BY <3>3, <3>4, <3>5 DEF Selected, Be
    <3>7. Sound(d)
      BY <1>9, <3>3 DEF Sound, Listings, Focus, Dialogs, Fine, Be
    <3> QED
      BY <1>9, <3>3, <3>4, <3>6, <3>7 DEF Be, SendCounted, Sending, Fits
  <2>2. CASE n # 1
    <3>1. d = c
      BY <1>2, <1>9, <2>2
    <3> HIDE DEF d
    <3> QED
      BY <1>9, <2>2, <3>1
  <2> QED
    BY <2>1, <2>2
<1> HIDE DEF d
<1>11. OnlyTally(t, d) /\ TallyIs(t, n - 1, n - 1)
  <2>1. n - 1 \in Nat
    <3>1. a.recvList.row \in NoRow..(n - 2)
      BY <1>6
    <3> QED
      BY <1>2, <3>1 DEF NoRow
  <2>2. d.recvBar.idx < d.mgr.recvListCount
    BY <1>2, <1>10, <2>1 DEF Selected, Selects, NoRow
  <2>3. OnlyTally(t, d) /\ TallyIs(t, d.mgr.recvListCount, d.mgr.recvListCount)
    BY <1>10, <2>2, TallyReportedIs
  <2> QED
    BY <1>10, <2>3
<1> HIDE DEF t
<1>12. RecvCounted(t)
  BY <1>10, <1>11 DEF OnlyTally, TallyIs, RecvCounted
<1>13. t \in State /\ Whole(t)
  BY <1>10, <1>11, <1>12, OnlyTallyKeeps DEF Whole, Sound
<1> QED
  BY <1>5, <1>13, BecomeIs

-----------------------------------------------------------------------------
(* The selected message of the lower list is deleted.                      *)
LEMMA SendSelectedIs ==
  ASSUME NEW s, Whole(s), 0 <= s.sendBar.idx
  PROVE  /\ s.mgr.selType = "Send" /\ s.sendList.row \in Int
         /\ 0 <= s.sendList.row /\ s.sendList.row < Len(s.sendList.items)
         /\ s.sendList.items[s.sendList.row + 1] = s.mgr.clicked
         /\ s.sendList.row = s.sendBar.idx
         /\ s.mgr.clicked \in ToSet(s.sendList.items) /\ s.mgr.clicked \in Scripts
         /\ s.recvBar.idx = NoRow
<1>1. /\ s \in State /\ Selected(s) /\ Listings(s)
      /\ s.sendList.items \in Seq(Scripts) /\ Len(s.sendList.items) \in Nat
  BY WholeIs
<1>2. s.mgr.selType = "Send"
  BY <1>1, NoMsgIsNone DEF Selected
<1>3. Selects(s, s.sendList, s.sendBar) /\ s.recvBar.idx = NoRow
  BY <1>1, <1>2 DEF Selected
<1>4. /\ s.sendList.row \in Int /\ s.sendList.row = s.sendBar.idx
      /\ 0 <= s.sendList.row /\ s.sendList.row < Len(s.sendList.items)
      /\ s.sendList.items[s.sendList.row + 1] = s.mgr.clicked
  BY <1>1, <1>3 DEF Selects, CurrentMsg, Listings, Rows, NoRow
<1>5. s.mgr.clicked \in ToSet(s.sendList.items) /\ s.mgr.clicked \in Scripts
  <2>1. s.sendList.row + 1 \in 1..Len(s.sendList.items)
    BY <1>1, <1>4
  <2>2. DOMAIN s.sendList.items = 1..Len(s.sendList.items)
    BY <1>1
  <2> QED
    BY <1>1, <1>4, <2>1, <2>2 DEF ToSet
<1> QED
  BY <1>2, <1>3, <1>4, <1>5

SendDeleted(a, s) ==
    /\ Sound(a) /\ RecvCounted(a) /\ Sending(a) /\ Total(a) /\ Fits(a)
    /\ a.env.dialog = "None" /\ a.mgr.selType = "None" /\ a.mgr.clicked = NoMsg
    /\ a.recvBar.idx = NoRow
    /\ a.sendList.row \in NoRow..(Len(s.sendList.items) - 2)
    /\ a.sendList.row < 0 <=> Len(s.sendList.items) = 1
    /\ Len(a.sendList.items) = Len(s.sendList.items) - 1
    /\ a.mgr.sendListCount = Len(s.sendList.items)
    /\ a.sendBar.total = Len(s.sendList.items)

(* The message is out of the list and the counts are to follow.            *)
LEMMA SendDeletedWhole ==
  ASSUME NEW s, Whole(s), s.env.dialog = "None", 0 <= s.sendBar.idx,
         NEW m, m = ClearDisplayedMessage(s),
         NEW a, a = [m EXCEPT !.sendList = DeleteCurrent(@)]
  PROVE  SendDeleted(a, s)
<1> DEFINE n == Len(s.sendList.items)
           k == s.sendList.row + 1
           q == RemoveAt(s.sendList.items, k)
           r == RowAfterDelete(s.sendList)
           l == [m.sendList EXCEPT !.items = q, !.row = r]
<1>1. /\ s \in State /\ Sound(s) /\ Listings(s) /\ Focus(s) /\ Dialogs(s) /\ Fine(s)
      /\ Selected(s) /\ RecvCounted(s) /\ SendCounted(s) /\ Sending(s) /\ Fits(s) /\ Total(s)
      /\ s.sendList.items \in Seq(Scripts) /\ n \in Nat
      /\ Len(s.env.allMsgs) \in Nat
  BY WholeIs, ListElements
<1>2. /\ s.sendList.row \in Int /\ 0 <= s.sendList.row /\ s.sendList.row < n
      /\ s.recvBar.idx = NoRow
  BY SendSelectedIs
<1>3. k \in 1..n /\ q \in Seq(Scripts) /\ Len(q) = n - 1 /\ Distinct(q)
  <2>1. k \in 1..n
    BY <1>1, <1>2
  <2>2. q \in Seq(Scripts) /\ Len(q) = n - 1
    BY <1>1, <2>1, RemovedIs
  <2>3. Distinct(q)
    BY <1>1, <2>1, RemovedSet DEF Listings
  <2> QED
    BY <2>1, <2>2, <2>3
<1>4. r \in Int /\ r \in NoRow..(n - 2) /\ (r < 0 <=> n = 1)
  BY <1>1, <1>2, RowAfterDeleteIs
<1>5. Undisplayed(m, s)
  BY <1>1, UndisplayedFields
<1>6. m \in State /\ m.sendList = s.sendList /\ m.sendList \in SendLists
  BY <1>5, Parts DEF Undisplayed
<1>7. a = [m EXCEPT !.sendList = l]
  <2>1. DeleteCurrent(m.sendList) = l
    BY <1>6 DEF DeleteCurrent, SendLists
  <2> QED
    BY <2>1
<1> HIDE DEF q, r, k
<1>8. OnlySend(a, m) /\ SendIs(a, q, r, m.mgr.sendListCount, m.sendBar.total)
  <2>1. l = [m.sendList EXCEPT !.items = q, !.row = r]
    OBVIOUS
  <2> HIDE DEF l
  <2> QED
    BY <1>3, <1>4, <1>6, <1>7, <2>1, SendListIs
<1> HIDE DEF l
<1>9. Sound(m) /\ RecvCounted(m) /\ Sending(m)
  <2>1. Sound(m)
    BY <1>1, <1>5, UndisplayedSound
  <2> QED
    BY <1>1, <1>5, <2>1 DEF Undisplayed, RecvCounted, Sending
<1>10. Sound(a) /\ RecvCounted(a) /\ Sending(a)
  <2>1. a.sendList.items = q /\ a.sendList.row = r
    BY <1>8 DEF SendIs
  <2>2. a.sendList.row \in Rows(a.sendList)
    BY <1>1, <1>3, <1>4, <2>1 DEF Rows, NoRow
  <2> QED
    BY <1>3, <1>8, <1>9, <2>1, <2>2, OnlySendKeeps
<1>11. Fits(a)
  <2>1. a.env = s.env /\ a.sendList.items = q /\ Len(q) <= n /\ Len(q) \in Nat
    BY <1>1, <1>3, <1>5, <1>8 DEF OnlySend, SendIs, Undisplayed
  <2>2. Fit(Len(s.env.allMsgs), n)
    BY <1>1 DEF Fits
  <2> HIDE DEF n
  <2> QED
    BY <1>1, <2>1, <2>2, FitsFewer DEF Fits
<1> QED
  BY <1>1, <1>2, <1>3, <1>4, <1>5, <1>8, <1>10, <1>11
     DEF OnlySend, SendIs, Undisplayed, SendCounted, SendDeleted, Total

(* sendDeleteClicked: the next message is clicked, then the count          *)
(* reported.                                                               *)
LEMMA SendDeleteKeeps ==
  ASSUME Whole(Now), SendDelete
  PROVE  Whole(Now)'
<1> DEFINE s == Now
           n == Len(s.sendList.items)
           x == Assert_(Now, /\ 0 < mgr.sendListCount
                             /\ mgr.selType = "Send"
                             /\ 0 <= sendList.row)
           m == ClearDisplayedMessage(x)
           a == [m EXCEPT !.sendList = DeleteCurrent(@)]
           b == IF a.sendList.row < 0 THEN a
                ELSE SendMsgClicked(a, CurrentMsg(a.sendList), a.sendList.row)
           c == [b EXCEPT !.mgr.sendListCount = b.mgr.sendListCount - 1]
           d == IF c.mgr.sendListCount = 0 THEN SendMsgSelected(c, NoRow) ELSE c
           t == SendListCountReport(d)
<1>1. s.env.dialog = "None" /\ 0 <= s.sendBar.idx
  BY NowIs DEF SendDelete, SendSelected, SendIdle, User
<1>2. /\ s \in State /\ SendCounted(s) /\ n \in Nat
      /\ s.sendList.items \in Seq(Scripts)
  BY WholeIs DEF s
<1>3. x = s
  <2>1. /\ s.mgr.selType = "Send" /\ 0 <= s.sendList.row /\ s.sendList.row < n
        /\ s.sendList.row \in Int
    BY <1>1, SendSelectedIs
  <2>2. 0 < s.mgr.sendListCount
    BY <1>2, <2>1 DEF SendCounted
  <2>3. /\ 0 < mgr.sendListCount /\ mgr.selType = "Send" /\ 0 <= sendList.row
    BY <2>1, <2>2, NowIs
  <2> QED
    BY <1>2, <2>3, AssertTrue
<1>5. Become(t)
  BY DEF SendDelete
<1>4. m = ClearDisplayedMessage(s)
  BY <1>3
<1>6. /\ Sound(a) /\ RecvCounted(a) /\ Sending(a) /\ Total(a) /\ Fits(a)
      /\ a.env.dialog = "None" /\ a.mgr.selType = "None" /\ a.mgr.clicked = NoMsg
      /\ a.recvBar.idx = NoRow
      /\ a.sendList.row \in NoRow..(n - 2)
      /\ a.sendList.row < 0 <=> n = 1
      /\ Len(a.sendList.items) = n - 1
      /\ a.mgr.sendListCount = n
      /\ a.sendBar.total = n
  <2>0. Whole(s)
    OBVIOUS
  <2> HIDE DEF m, n
  <2>1. a = [m EXCEPT !.sendList = DeleteCurrent(@)]
    OBVIOUS
  <2> HIDE DEF a, s
  <2>2. SendDeleted(a, s)
    BY <1>1, <1>4, <2>0, <2>1, SendDeletedWhole
  <2> QED
    BY <2>2 DEF n, SendDeleted
<1> HIDE DEF s, n, x, m, a
<1>7. /\ Sound(b) /\ Total(b) /\ RecvCounted(b) /\ Sending(b) /\ Fits(b)
      /\ b \in State
      /\ Len(b.sendList.items) = n - 1
      /\ b.mgr.sendListCount = n /\ b.sendBar.total = n
      /\ b.sendList.row \in NoRow..(n - 2)
      /\ IF n = 1 THEN b = a ELSE Selected(b)
  <2>1. CASE n = 1
    <3>1. b = a
      BY <1>6, <2>1
    <3> HIDE DEF b
    <3> QED
      BY <1>6, <2>1, <3>1 DEF Sound
  <2>2. CASE n # 1
    <3> DEFINE idx == a.sendList.row
               msg == CurrentMsg(a.sendList)
    <3>1. b = SendMsgClicked(a, msg, idx)
      BY <1>6, <2>2
    <3> HIDE DEF b
    <3>2. /\ idx \in Int /\ 0 <= idx /\ idx < a.sendBar.total /\ idx + 1 \in 1..(n - 1)
          /\ idx < Len(a.sendList.items)
      BY <1>2, <1>6, <2>2 DEF NoRow
    <3>3. msg \in Scripts /\ msg # a.mgr.clicked /\ a.sendList.items[idx + 1] = msg
      <4>1. a.sendList.items \in Seq(Scripts)
        BY <1>6, ListElements DEF Sound
      <4> QED
        BY <1>6, <3>2, <4>1, NoMsgIsNone DEF CurrentMsg
    <3>4. Sound(b) /\ Kept(b, a) /\ Selected(b)
      <4> HIDE DEF idx, msg
      <4> QED
        BY <1>6, <3>1, <3>2, <3>3, SendPicks
    <3>5. b \in State /\ Listings(b)
      BY <3>4 DEF Sound
    <3>6. b.sendList.row \in NoRow..(n - 2)
      <4>1. b.sendList.row \in NoRow..(Len(b.sendList.items) - 1)
        BY <3>5 DEF Listings, Rows
      <4> QED
        BY <1>2, <1>6, <3>4, <4>1 DEF Kept
    <3> QED
      BY <1>6, <2>2, <3>4, <3>5, <3>6, KeptAgrees DEF Kept
  <2> QED
    BY <2>1, <2>2
<1> HIDE DEF b
<1>8. OnlySend(c, b) /\ SendIs(c, b.sendList.items, b.sendList.row, n - 1, n)
  <2>1. b.mgr.sendListCount - 1 = n - 1 /\ n - 1 \in Int
    BY <1>2, <1>7
  <2>2. c = [b EXCEPT !.mgr.sendListCount = n - 1]
    BY <2>1
  <2> HIDE DEF c
  <2>3. /\ OnlySend(c, b)
        /\ SendIs(c, b.sendList.items, b.sendList.row, n - 1, b.sendBar.total)
    BY <1>7, <2>1, <2>2, SendCountIs
  <2> QED
    BY <1>7, <2>3
<1> HIDE DEF c
<1>9. /\ Sound(c) /\ RecvCounted(c) /\ Sending(c) /\ Fits(c) /\ c \in State
      /\ (n # 1 => Selected(c))
      /\ c.mgr.sendListCount = n - 1 /\ c.sendBar.total = n
      /\ Len(c.sendList.items) = n - 1 /\ c.sendList.row \in NoRow..(n - 2)
  <2>1. /\ c.sendList.items = b.sendList.items /\ c.sendList.row = b.sendList.row
        /\ c.mgr.sendListCount = n - 1 /\ c.sendBar.total = n
    BY <1>8 DEF SendIs
  <2>2. Distinct(b.sendList.items) /\ b.sendList.row \in Rows(b.sendList)
    BY <1>7 DEF Sound, Listings
  <2>3. Sound(c) /\ RecvCounted(c) /\ Sending(c)
    BY <1>7, <1>8, <2>1, <2>2, OnlySendKeeps DEF Rows
  <2>4. Selected(b) => Selected(c)
    BY <1>8, <2>1 DEF OnlySend, Selected, Selects, CurrentMsg
  <2> QED
    BY <1>7, <1>8, <2>1, <2>3, <2>4 DEF OnlySend, Fits
<1>10. /\ Sound(d) /\ RecvCounted(d) /\ Sending(d) /\ Fits(d) /\ d \in State
       /\ Selected(d) /\ d.mgr.sendListCount = n - 1
       /\ Len(d.sendList.items) = n - 1 /\ d.sendList.row \in NoRow..(n - 2)
  <2>1. CASE n = 1
    <3>1. d = SendMsgSelected(c, NoRow)
      BY <1>9, <2>1
    <3> HIDE DEF d
    <3>2. Total(c)
      BY <1>2, <1>7, <1>8, <1>9, <2>1 DEF Total, OnlySend
    <3>3. Be(d, c.mgr, c.recvBar, AtIdx(c.sendBar, NoRow), c.recvList,
             AtRow(c.sendList, NoRow), c.env)
      BY <1>9, <3>1, <3>2, NoSendTold
    <3>4. /\ AtIdx(c.sendBar, NoRow).idx = NoRow
          /\ AtIdx(c.sendBar, NoRow).state = c.sendBar.state
          /\ AtRow(c.sendList, NoRow).items = c.sendList.items
          /\ AtRow(c.sendList, NoRow).row = NoRow
          /\ AtRow(c.sendList, NoRow).state = c.sendList.state
      BY <1>9, Parts, AtIdxIs, AtRowIs, NoMsgIsNone
    <3>5. /\ c.mgr.selType = "None" /\ c.mgr.clicked = NoMsg /\ c.recvBar.idx = NoRow
      BY <1>6, <1>7, <1>8, <2>1 DEF OnlySend
    <3>6. Selected(d)
      BY <3>3, <3>4, <3>5 DEF Selected, Be
    <3>7. d.sendList.row \in Rows(d.sendList) /\ d.sendList.row \in NoRow..(n - 2)
      BY <1>9, <2>1, <3>3, <3>4 DEF Be, Rows, NoRow
    <3>8. Sound(d)
      <4>1. Listings(d)
        BY <1>9, <3>3, <3>4, <3>7 DEF Sound, Listings, Be
      <4> QED
        BY <1>9, <3>3, <4>1 DEF Sound, Focus, Dialogs, Fine, Be
    <3> QED
      BY <1>9, <3>3, <3>4, <3>6, <3>7, <3>8 DEF Be, RecvCounted, Sending, Fits
  <2>2. CASE n # 1
    <3>1. d = c
      BY <1>2, <1>9, <2>2
    <3> HIDE DEF d
    <3> QED
      BY <1>9, <2>2, <3>1
  <2> QED
    BY <2>1, <2>2
<1> HIDE DEF d
<1>11. OnlySend(t, d) /\ SendIs(t, d.sendList.items, d.sendList.row, n - 1, n - 1)
  <2>1. n - 1 \in Nat
    <3>1. a.sendList.row \in NoRow..(n - 2)
      BY <1>6
    <3> QED
      BY <1>2, <3>1 DEF NoRow
  <2>2. d.sendBar.idx < d.mgr.sendListCount
    BY <1>2, <1>10, <2>1 DEF Selected, Selects, NoRow
  <2>3. /\ OnlySend(t, d)
        /\ SendIs(t, d.sendList.items, d.sendList.row, d.mgr.sendListCount,
                  d.mgr.sendListCount)
    BY <1>10, <2>2, SendReportedIs
  <2> QED
    BY <1>10, <2>3
<1> HIDE DEF t
<1>12. t \in State /\ Whole(t)
  <2>1. /\ t.sendList.items = d.sendList.items /\ t.sendList.row = d.sendList.row
        /\ t.mgr.sendListCount = n - 1 /\ t.sendBar.total = n - 1
    BY <1>11 DEF SendIs
  <2>2. Distinct(d.sendList.items) /\ d.sendList.row \in Rows(d.sendList)
    BY <1>10 DEF Sound, Listings
  <2>3. Sound(t) /\ RecvCounted(t) /\ Sending(t)
    BY <1>10, <1>11, <2>1, <2>2, OnlySendKeeps DEF Rows
  <2>4. Selected(t)
    BY <1>10, <1>11, <2>1 DEF OnlySend, Selected, Selects, CurrentMsg
  <2>5. SendCounted(t) /\ Fits(t)
    BY <1>10, <1>11, <2>1 DEF OnlySend, SendCounted, Fits
  <2> QED
    BY <2>3, <2>4, <2>5 DEF Whole, Sound
<1> QED
  BY <1>5, <1>12, BecomeIs

-----------------------------------------------------------------------------
(* The selected message is moved.                                          *)
Moved(q, from, to) == InsertAt(RemoveAt(q, from + 1), to + 1, q[from + 1])

(* Taken out and put back, the messages are the same.                      *)
LEMMA MovedIs ==
  ASSUME NEW q \in Seq(Scripts), Distinct(q), NEW n \in Nat, n = Len(q),
         NEW from \in 0..(n - 1), NEW to \in 0..(n - 1)
  PROVE  /\ Moved(q, from, to) \in Seq(Scripts) /\ Len(Moved(q, from, to)) = n
         /\ Distinct(Moved(q, from, to)) /\ ToSet(Moved(q, from, to)) = ToSet(q)
         /\ Moved(q, from, to)[to + 1] = q[from + 1]
<1> DEFINE k == from + 1
           j == to + 1
           r == RemoveAt(q, k)
           x == q[k]
           p == InsertAt(r, j, x)
<1>1. k \in 1..Len(q) /\ x \in Scripts /\ x \in ToSet(q)
  <2>1. k \in 1..Len(q) /\ DOMAIN q = 1..Len(q)
    OBVIOUS
  <2> QED
    BY <2>1 DEF ToSet
<1> HIDE DEF x
<1>2. /\ r \in Seq(Scripts) /\ Len(r) = n - 1 /\ Distinct(r)
      /\ ToSet(r) = ToSet(q) \ {x}
  <2>1. r \in Seq(Scripts) /\ Len(r) = Len(q) - 1
    BY <1>1, RemovedIs
  <2>2. Distinct(r) /\ ToSet(r) = ToSet(q) \ {q[k]}
    BY <1>1, RemovedSet
  <2> QED
    BY <2>1, <2>2 DEF x
<1>3. p = Moved(q, from, to)
  BY DEF Moved, x
<1> HIDE DEF r
<1>4. j \in 1..(Len(r) + 1) /\ x \notin ToSet(r)
  BY <1>2
<1>5. /\ p \in Seq(Scripts) /\ Len(p) = Len(r) + 1 /\ p[j] = x
  <2>1. /\ p \in Seq(Scripts) /\ Len(p) = Len(r) + 1
        /\ \A i \in 1..(Len(r) + 1) :
                p[i] = IF i < j THEN r[i] ELSE IF i = j THEN x ELSE r[i - 1]
    BY <1>1, <1>2, <1>4, InsertedIs
  <2> QED
    BY <1>4, <2>1
<1>6. Distinct(p) /\ ToSet(p) = ToSet(r) \cup {x}
  BY <1>1, <1>2, <1>4, InsertedSet
<1> HIDE DEF p
<1>7. Len(p) = n /\ ToSet(p) = ToSet(q)
  BY <1>1, <1>2, <1>5, <1>6
<1> QED
  BY <1>3, <1>5, <1>6, <1>7 DEF x

SendMoved(t, s) ==
    /\ t \in State /\ Whole(t)
    /\ t.mgr.clicked = s.mgr.clicked
    /\ ToSet(t.sendList.items) = ToSet(s.sendList.items)

(* moveItem: another message is clicked in between.                        *)
LEMMA MoveItemIs ==
  ASSUME NEW s, Whole(s), s.env.dialog = "None", 0 <= s.sendBar.idx,
         1 < Len(s.sendList.items), NEW to \in 0..(Len(s.sendList.items) - 1),
         NEW t, t = MoveItem(s, to)
  PROVE  SendMoved(t, s)
<1> DEFINE n == Len(s.sendList.items)
           from == s.sendList.row
           item == CurrentMsg(s.sendList)
           next == IF from + 1 < n THEN from + 1 ELSE from - 1
           other == s.sendList.items[next + 1]
           a == [s EXCEPT !.sendList.row = next]
           b == SendMsgClicked(a, other, next)
           q == InsertAt(RemoveAt(b.sendList.items, from + 1), to + 1, item)
           c == [b EXCEPT !.sendList.items = q, !.sendList.row = to]
           d == SendMsgClicked(c, item, to)
           x == Assert_(d, d.mgr.selType = "Send")
<1>0. t = SendMsgSelected(x, to)
  BY DEF MoveItem
<1>1. /\ s \in State /\ Sound(s) /\ Listings(s) /\ Selected(s) /\ RecvCounted(s)
      /\ SendCounted(s) /\ Sending(s) /\ Fits(s) /\ Total(s)
      /\ s.sendList.items \in Seq(Scripts) /\ n \in Nat /\ 1 < n /\ to \in 0..(n - 1)
  BY WholeIs
<1>2. /\ from \in Int /\ 0 <= from /\ from < n /\ item = s.mgr.clicked
      /\ item = s.sendList.items[from + 1] /\ item \in Scripts
  BY SendSelectedIs DEF CurrentMsg
<1>3. /\ next \in Int /\ 0 <= next /\ next < n /\ next # from /\ next \in Rows(s.sendList)
      /\ from + 1 \in 1..n /\ next + 1 \in 1..n
  <2>1. from \in Int /\ 0 <= from /\ from < n /\ n \in Nat /\ 1 < n
    BY <1>1, <1>2
  <2>2. Rows(s.sendList) = (-1)..(n - 1)
    BY DEF Rows, NoRow
  <2> HIDE DEF from, n, item
  <2> QED
    BY <2>1, <2>2
<1> HIDE DEF next
<1>4. other \in Scripts /\ other # s.mgr.clicked
  <2>1. DOMAIN s.sendList.items = 1..n
    BY <1>1
  <2> QED
    BY <1>1, <1>2, <1>3, <2>1 DEF Listings, Distinct
<1> HIDE DEF from, item, n
<1>5. Sound(a) /\ Kept(a, s) /\ a.mgr = s.mgr
  BY <1>1, <1>3, SendRowSound
<1> HIDE DEF a
<1>6. /\ Sound(b) /\ Kept(b, a) /\ b.mgr.clicked = other
  <2>1. /\ Total(a) /\ a.env.dialog = "None" /\ other # a.mgr.clicked
        /\ next < a.sendBar.total /\ next < Len(a.sendList.items)
        /\ a.sendList.items[next + 1] = other
    <3>1. /\ Total(a) /\ SendCounted(a) /\ a.env = s.env /\ a.mgr = s.mgr
          /\ a.sendList.items = s.sendList.items
      BY <1>1, <1>5, KeptAgrees DEF Kept
    <3>2. a.sendBar.total = n /\ Len(a.sendList.items) = n
      BY <3>1 DEF SendCounted, n
    <3> QED
      BY <1>3, <1>4, <3>1, <3>2
  <2> HIDE DEF other
  <2> QED
    BY <1>3, <1>4, <1>5, <2>1, SendPicks
<1> HIDE DEF b, other
<1>7. /\ q \in Seq(Scripts) /\ Len(q) = n /\ Distinct(q)
      /\ ToSet(q) = ToSet(s.sendList.items) /\ q[to + 1] = item
  <2> DEFINE p == s.sendList.items
  <2>1. b.sendList.items = p
    BY <1>5, <1>6 DEF Kept
  <2>2. q = Moved(p, from, to)
    BY <1>2, <2>1 DEF Moved
  <2>3. p \in Seq(Scripts) /\ Distinct(p) /\ n = Len(p) /\ from \in 0..(n - 1)
    BY <1>1, <1>2 DEF Listings, n
  <2> HIDE DEF p, q
  <2>4. /\ Moved(p, from, to) \in Seq(Scripts) /\ Len(Moved(p, from, to)) = n
        /\ Distinct(Moved(p, from, to)) /\ ToSet(Moved(p, from, to)) = ToSet(p)
        /\ Moved(p, from, to)[to + 1] = p[from + 1]
    BY <1>1, <2>3, MovedIs
  <2> QED
    BY <1>2, <2>2, <2>4 DEF p
<1> HIDE DEF q
<1>8. OnlySend(c, b) /\ SendIs(c, q, to, b.mgr.sendListCount, b.sendBar.total)
  <2> DEFINE l == [b.sendList EXCEPT !.items = q, !.row = to]
  <2>1. b \in State /\ to \in Int
    BY <1>1, <1>6 DEF Sound
  <2>2. c = [b EXCEPT !.sendList = l]
    BY <2>1 DEF State, SendLists
  <2>3. l = [b.sendList EXCEPT !.items = q, !.row = to]
    OBVIOUS
  <2> HIDE DEF l
  <2> QED
    BY <1>7, <2>1, <2>2, <2>3, SendListIs
<1> HIDE DEF c
<1>9. /\ Sound(c) /\ RecvCounted(c) /\ Sending(c) /\ Total(c) /\ SendCounted(c) /\ Fits(c)
      /\ c.env.dialog = "None" /\ item # c.mgr.clicked
      /\ to < c.sendBar.total /\ to < Len(c.sendList.items)
      /\ c.sendList.items = q
  <2>1. /\ RecvCounted(b) /\ SendCounted(b) /\ Sending(b) /\ Fits(b) /\ Total(b)
        /\ b.env = s.env /\ b.sendList.items = s.sendList.items
    <3>1. RecvCounted(a) /\ SendCounted(a) /\ Sending(a) /\ Fits(a) /\ Total(a)
      BY <1>1, <1>5, KeptAgrees
    <3> QED
      BY <1>5, <1>6, <3>1, KeptAgrees DEF Kept
  <2>2. c.sendList.items = q /\ c.sendList.row = to /\ c.mgr.sendListCount = n
        /\ c.sendBar.total = n
    BY <1>8, <2>1 DEF SendIs, SendCounted, n
  <2>3. c.sendList.row \in Rows(c.sendList)
    BY <1>1, <1>7, <2>2 DEF Rows, NoRow
  <2>4. Sound(c) /\ RecvCounted(c) /\ Sending(c)
    BY <1>6, <1>7, <1>8, <2>1, <2>2, <2>3, OnlySendKeeps
  <2>5. Total(c) /\ SendCounted(c) /\ Fits(c)
    BY <1>1, <1>7, <1>8, <2>1, <2>2 DEF Total, SendCounted, Fits, OnlySend, n
  <2> QED
    BY <1>1, <1>2, <1>4, <1>5, <1>6, <1>7, <1>8, <2>1, <2>2, <2>4, <2>5 DEF OnlySend
<1>10. /\ Sound(d) /\ Kept(d, c) /\ Selected(d)
       /\ d.mgr.selType = "Send" /\ d.mgr.clicked = item
  <2>1. c.sendList.items[to + 1] = item /\ to \in Int /\ 0 <= to
    BY <1>1, <1>7, <1>9
  <2> QED
    BY <1>2, <1>9, <2>1, SendPicks
<1> HIDE DEF d
<1>11. /\ d \in State /\ RecvCounted(d) /\ SendCounted(d) /\ Sending(d) /\ Fits(d)
       /\ Total(d) /\ d.sendList.items = q /\ d.sendBar.total = n
  <2>1. d \in State /\ RecvCounted(d) /\ SendCounted(d) /\ Sending(d) /\ Fits(d) /\ Total(d)
    BY <1>9, <1>10, KeptAgrees DEF Sound
  <2> QED
    BY <1>7, <1>9, <1>10, <2>1 DEF Kept, SendCounted
<1>12. x = d
  BY <1>10, <1>11, AssertTrue
<1> HIDE DEF x
<1>13. Be(t, d.mgr, d.recvBar, AtIdx(d.sendBar, to), d.recvList,
          AtRow(d.sendList, to), d.env)
  <2>1. to \in Int /\ to < d.sendBar.total /\ to < Len(d.sendList.items)
    BY <1>1, <1>7, <1>11
  <2> QED
    BY <1>0, <1>11, <1>12, <2>1, SendToldIs
<1>14. /\ t \in State
       /\ t.mgr = d.mgr /\ t.recvBar = d.recvBar /\ t.recvList = d.recvList /\ t.env = d.env
       /\ t.sendBar.idx = to /\ t.sendBar.total = d.sendBar.total
       /\ t.sendBar.state = d.sendBar.state
       /\ t.sendList.items = q /\ t.sendList.row = to
       /\ t.sendList.state = d.sendList.state
  <2>1. to \in Int /\ d.sendBar \in SendBars /\ d.sendList \in SendLists
    BY <1>1, <1>11, Parts
  <2> QED
    BY <1>11, <1>13, <2>1, AtIdxIs, AtRowIs DEF Be
<1> HIDE DEF x
<1>15. Selected(t)
  <2>1. CurrentMsg(t.sendList) = t.mgr.clicked /\ 0 <= to
    BY <1>1, <1>7, <1>10, <1>14 DEF CurrentMsg
  <2> QED
    BY <1>10, <1>14, <2>1 DEF Selected, Selects
<1>16. Sound(t)
  <2>1. t.sendList.row \in Rows(t.sendList)
    BY <1>1, <1>7, <1>14 DEF Rows, NoRow
  <2>2. Listings(t)
    BY <1>7, <1>10, <1>14, <2>1 DEF Sound, Listings
  <2> QED
    BY <1>10, <1>14, <2>2 DEF Sound, Focus, Dialogs, Fine
<1>17. RecvCounted(t) /\ SendCounted(t) /\ Sending(t) /\ Fits(t)
  BY <1>11, <1>14 DEF RecvCounted, SendCounted, Sending, Fits
<1> QED
  BY <1>2, <1>7, <1>10, <1>14, <1>15, <1>16, <1>17 DEF Whole, SendMoved

(* The four buttons that move.                                             *)
LEMMA SendMoveIs ==
  ASSUME Whole(Now), SendMove
  PROVE  Whole(Now)' /\ SendMoved(Now', Now)
<1> DEFINE s == Now
           n == Len(s.sendList.items)
<1>1. s.env.dialog = "None"
  BY NowIs DEF SendMove, SendIdle, User
<1>2. /\ s \in State /\ SendCounted(s) /\ n \in Nat /\ Selected(s)
  BY WholeIs DEF s
<1>3. \/ /\ 0 < s.sendBar.idx
         /\ \E to \in {0, s.sendList.row - 1} :
                Become(MoveItem(Assert_(s, 0 < s.sendList.row), to))
      \/ /\ 0 <= s.sendBar.idx /\ s.sendBar.idx < s.sendBar.total - 1
         /\ \E to \in {s.sendList.row + 1, n - 1} :
                Become(MoveItem(Assert_(s, s.sendList.row < n - 1), to))
  <2>1. \/ /\ 0 < sendBar.idx
           /\ \E to \in {0, sendList.row - 1} :
                Become(MoveItem(Assert_(Now, 0 < sendList.row), to))
        \/ /\ 0 <= sendBar.idx /\ sendBar.idx < sendBar.total - 1
           /\ \E to \in {sendList.row + 1, Len(sendList.items) - 1} :
                Become(MoveItem(Assert_(Now, sendList.row < Len(sendList.items) - 1), to))
    BY DEF SendMove
  <2> QED
    BY <2>1, NowIs
<1>4. s.sendBar.idx \in Int
  BY <1>2, Parts DEF SendBars
<1>5. 0 <= s.sendBar.idx
  BY <1>3, <1>4
<1>6. /\ s.sendList.row \in Int /\ 0 <= s.sendList.row /\ s.sendList.row < n
      /\ s.sendList.row = s.sendBar.idx
  BY <1>5, SendSelectedIs
<1>7. \E to \in 0..(n - 1) : 1 < n /\ Become(MoveItem(s, to))
  <2>1. CASE /\ 0 < s.sendBar.idx
             /\ \E to \in {0, s.sendList.row - 1} :
                    Become(MoveItem(Assert_(s, 0 < s.sendList.row), to))
    <3>1. Assert_(s, 0 < s.sendList.row) = s
      BY <1>2, <1>6, <2>1, AssertTrue
    <3>2. 0 \in 0..(n - 1) /\ s.sendList.row - 1 \in 0..(n - 1) /\ 1 < n
      BY <1>2, <1>6, <2>1
    <3> HIDE DEF s, n
    <3> QED
      BY <2>1, <3>1, <3>2
  <2>2. CASE /\ 0 <= s.sendBar.idx /\ s.sendBar.idx < s.sendBar.total - 1
             /\ \E to \in {s.sendList.row + 1, n - 1} :
                    Become(MoveItem(Assert_(s, s.sendList.row < n - 1), to))
    <3>0. s.sendList.row < n - 1
      BY <1>2, <1>6, <2>2 DEF SendCounted
    <3>1. Assert_(s, s.sendList.row < n - 1) = s
      BY <1>2, <3>0, AssertTrue
    <3>2. n - 1 \in 0..(n - 1) /\ s.sendList.row + 1 \in 0..(n - 1) /\ 1 < n
      BY <1>2, <1>6, <3>0
    <3> HIDE DEF s, n
    <3> QED
      BY <2>2, <3>1, <3>2
  <2> QED
    BY <1>3, <2>1, <2>2
<1>8. PICK to \in 0..(n - 1) : 1 < n /\ Become(MoveItem(s, to))
  BY <1>7
<1> DEFINE t == MoveItem(s, to)
<1>9. SendMoved(t, s)
  BY <1>1, <1>5, <1>8, MoveItemIs
<1> HIDE DEF t, n
<1>10. Become(t)
  BY <1>8 DEF t
<1>11. Now' = t
  BY <1>9, <1>10, BecomeIs DEF SendMoved
<1> QED
  BY <1>9, <1>11 DEF SendMoved

-----------------------------------------------------------------------------
(* Messages are loaded into the lower list.                                *)
Loaded(t, s, n) ==
    /\ Sound(t) /\ OnlySend(t, s)
    /\ Len(t.sendList.items) = Len(s.sendList.items) + n
    /\ t.mgr.sendListCount = s.mgr.sendListCount
    /\ t.sendBar.total = s.sendBar.total

LoadOne(x) == AddSendMsg(x, FreshScript(x))

(* One message is loaded, and one after the other.                         *)
LEMMA LoadedOne ==
  ASSUME NEW s, Sound(s), NEW i \in Nat, NEW x, Loaded(x, s, i),
         Len(s.sendList.items) + i < MaxScript
  PROVE  Loaded(LoadOne(x), s, i + 1)
<1> DEFINE t == LoadOne(x)
           msg == FreshScript(x)
           q == Append(x.sendList.items, msg)
<1>1. /\ s \in State /\ Sound(x) /\ x \in State /\ Listings(x)
      /\ Len(s.sendList.items) \in Nat
      /\ x.sendList.items \in Seq(Scripts) /\ Len(x.sendList.items) \in Nat
      /\ Len(x.sendList.items) = Len(s.sendList.items) + i
  BY ListElements DEF Loaded, Sound
<1>2. msg \in Scripts /\ msg \notin Held(x)
  BY <1>1, FreshScriptIs
<1>3. t = AddSendMsg(x, msg)
  BY DEF LoadOne
<1> HIDE DEF t, msg
<1>4. /\ OnlySend(t, x)
      /\ SendIs(t, q, Len(x.sendList.items), x.mgr.sendListCount, x.sendBar.total)
  BY <1>1, <1>2, <1>3, SendAppendedIs
<1>5. Len(q) = Len(x.sendList.items) + 1 /\ Distinct(q)
  <2> DEFINE p == x.sendList.items
  <2>1. p \in Seq(Scripts) /\ Distinct(p) /\ msg \notin ToSet(p)
    BY <1>1, <1>2 DEF Listings, Held
  <2> HIDE DEF p
  <2>2. Len(Append(p, msg)) = Len(p) + 1 /\ Distinct(Append(p, msg))
    BY <1>2, <2>1, Appended
  <2> QED
    BY <2>2 DEF p
<1> HIDE DEF q
<1>6. Sound(t)
  <2>1. t.sendList.items = q /\ t.sendList.row = Len(x.sendList.items)
    BY <1>4 DEF SendIs
  <2>2. t.sendList.row \in Rows(t.sendList)
    BY <1>1, <1>5, <2>1 DEF Rows, NoRow
  <2> QED
    BY <1>1, <1>4, <1>5, <2>1, <2>2, OnlySendKeeps
<1>7. OnlySend(t, s)
  BY <1>4, OnlySendOn DEF Loaded
<1>8. /\ Len(t.sendList.items) = Len(s.sendList.items) + (i + 1)
      /\ t.mgr.sendListCount = s.mgr.sendListCount
      /\ t.sendBar.total = s.sendBar.total
  <2>1. /\ t.sendList.items = q /\ t.mgr.sendListCount = x.mgr.sendListCount
        /\ t.sendBar.total = x.sendBar.total
    BY <1>4 DEF SendIs
  <2>2. /\ x.mgr.sendListCount = s.mgr.sendListCount
        /\ x.sendBar.total = s.sendBar.total
    BY DEF Loaded
  <2>3. \A k \in Nat : \A m, j : m = k + i /\ j = m + 1 => j = k + (i + 1)
    OBVIOUS
  <2>4. Len(q) = Len(s.sendList.items) + (i + 1)
    BY <1>1, <1>5, <2>3
  <2> QED
    BY <2>1, <2>2, <2>4
<1> QED
  BY <1>6, <1>7, <1>8 DEF Loaded, t

LEMMA AddScriptsSound ==
  ASSUME NEW s, Sound(s), NEW n \in Nat, Len(s.sendList.items) + n <= MaxScript,
         NEW t, t = AddScripts(s, n)
  PROVE  Loaded(t, s, n)
<1> DEFINE G(i) == {x \in State : Loaded(x, s, i)}
           inv == [i \in 0..n |-> G(i)]
           next(x) == LoadOne(x)
           go == [p \in State \X (1..n) |->
                    IF next(p[1]) \in State THEN next(p[1]) ELSE s]
           R(f) == f = [i \in 0..n |-> IF i = 0 THEN s ELSE next(f[i - 1])]
           loop == CHOOSE f : R(f)
<1>1. s \in State /\ Len(s.sendList.items) \in Nat /\ MaxScript \in Nat
  BY ListElements, BoundsAssumption DEF Sound
<1>2. s \in G(0)
  BY <1>1 DEF Loaded, OnlySend
<1>3. ASSUME NEW i \in 1..n, NEW x, x \in G(i - 1)
      PROVE  next(x) \in G(i)
  <2>1. Loaded(x, s, i - 1) /\ i - 1 \in Nat /\ i - 1 + 1 = i
    BY <1>3
  <2>2. Len(s.sendList.items) + (i - 1) < MaxScript
    BY <1>1
  <2>3. Loaded(LoadOne(x), s, i)
    BY <2>1, <2>2, LoadedOne
  <2>4. LoadOne(x) \in State
    BY <2>3 DEF Loaded, Sound
  <2> QED
    BY <2>3, <2>4
<1>4. \A i \in 0..n : inv[i] = G(i) /\ G(i) \subseteq State
  OBVIOUS
<1> HIDE DEF G, next, inv
<1>5. go \in [State \X (1..n) -> State]
  BY <1>1
<1>6. \A x \in State : \A i \in 1..n :
        next(x) \in State => go[<<x, i>>] = next(x)
  OBVIOUS
<1> HIDE DEF go
<1>7. s \in inv[0]
  BY <1>2, <1>4
<1>8. \A i \in 1..n : \A x : x \in inv[i - 1] => next(x) \in inv[i] /\ next(x) \in State
  <2> TAKE i \in 1..n
  <2>1. i - 1 \in 0..n /\ i \in 0..n
    OBVIOUS
  <2> QED
    BY <1>3, <1>4, <2>1
<1>9. \A i \in 1..n : \A x \in State : x \in inv[i - 1] => go[<<x, i>>] \in inv[i]
  BY <1>6, <1>8
<1>10. PICK f \in [0..n -> State] :
            /\ f = [i \in 0..n |-> IF i = 0 THEN s ELSE go[<<f[i - 1], i>>]]
            /\ \A i \in 0..n : f[i] \in inv[i]
  <2>1. Loops(State, s, n, go, inv) # {}
    BY <1>1, <1>5, <1>7, <1>9, LoopExists
  <2> QED
    BY <2>1 DEF Loops
<1>11. R(f)
  <2>1. ASSUME NEW i \in 0..n, i # 0 PROVE go[<<f[i - 1], i>>] = next(f[i - 1])
    <3>1. i \in 1..n /\ i - 1 \in 0..n
      BY <2>1
    <3> QED
      BY <1>6, <1>8, <1>10, <3>1
  <2> QED
    BY <1>10, <2>1
<1>12. R(loop)
  <2> HIDE DEF R
  <2> QED
    BY <1>11, Zenon
<1>13. t = loop[n]
  BY DEF AddScripts, next, LoadOne
<1> HIDE DEF loop
<1>14. loop[0] = s /\ \A i \in 1..n : loop[i] = next(loop[i - 1])
  BY <1>12
<1>15. loop[0] \in inv[0] /\ \A i \in 1..n : loop[i - 1] \in inv[i - 1] => loop[i] \in inv[i]
  BY <1>7, <1>8, <1>14
<1>16. \A i \in 0..n : loop[i] \in inv[i]
  BY <1>15, LoopStays
<1>17. t \in G(n)
  BY <1>4, <1>13, <1>16
<1> QED
  BY <1>17 DEF G

(* The first row that has a message.                                       *)
LEMMA RowOfIs ==
  ASSUME NEW q \in Seq(Scripts), NEW msg \in ToSet(q)
  PROVE  /\ RowOf(q, msg) \in Int /\ 0 <= RowOf(q, msg) /\ RowOf(q, msg) < Len(q)
         /\ q[RowOf(q, msg) + 1] = msg
<1> DEFINE M == {j \in Nat : j < Len(q) /\ q[j + 1] = msg}
           P(row) == q[row + 1] = msg /\ \A i \in 1..row : q[i] # msg
<1>1. M # {} /\ M \subseteq Nat
  <2>1. PICK i \in 1..Len(q) : q[i] = msg
    <3>1. DOMAIN q = 1..Len(q)
      OBVIOUS
    <3> QED
      BY <3>1 DEF ToSet
  <2>2. i - 1 \in Nat /\ i - 1 < Len(q) /\ i - 1 + 1 = i
    OBVIOUS
  <2> QED
    BY <2>1, <2>2
<1>2. PICK m \in M : \A j \in M : m <= j
  <2> HIDE DEF M
  <2> QED
    BY <1>1, LeastElement
<1>3. m \in 0..(Len(q) - 1) /\ P(m)
  <2>1. ASSUME NEW i \in 1..m, q[i] = msg PROVE FALSE
    <3>1. i - 1 \in Nat /\ i - 1 < Len(q) /\ i - 1 + 1 = i /\ ~(m <= i - 1)
      BY <1>2
    <3> QED
      BY <1>2, <2>1, <3>1
  <2> QED
    BY <1>2, <2>1
<1>4. RowOf(q, msg) = CHOOSE row \in 0..(Len(q) - 1) : P(row)
  BY DEF RowOf
<1>5. RowOf(q, msg) \in 0..(Len(q) - 1) /\ P(RowOf(q, msg))
  <2> HIDE DEF P
  <2> QED
    BY <1>3, <1>4
<1> QED
  BY <1>5

-----------------------------------------------------------------------------
(* sendUpdateList, after the list of the widget has changed below the      *)
(* manager and the toolbar.                                                *)
LEMMA SendUpdatedWhole ==
  ASSUME NEW s, Whole(s), s.env.dialog = "None",
         NEW u, Sound(u), OnlySend(u, s), Fits(u),
         u.mgr.sendListCount = s.mgr.sendListCount,
         u.sendBar.total = s.sendBar.total,
         NEW t, t = SendUpdateList(u)
  PROVE  t \in State /\ Whole(t)
<1> DEFINE n == Len(u.sendList.items)
           msg == IF u.mgr.selType = "Send" THEN u.mgr.clicked ELSE NoMsg
           x == Assert_(u, 0 < u.mgr.sendListCount)
           off == SendMsgClicked(x, msg, NoRow)
           d == IF msg = NoMsg THEN u ELSE Assert_(off, off.mgr.clicked = NoMsg)
           c == [d EXCEPT !.mgr.sendListCount = n]
           r == SendListCountReport(c)
           row == RowOf(u.sendList.items, msg)
<1>0. t = IF msg \in ToSet(u.sendList.items) THEN SendMsgClicked(r, msg, row) ELSE r
  BY DEF SendUpdateList
<1>1. /\ s \in State /\ Selected(s) /\ RecvCounted(s) /\ SendCounted(s) /\ Sending(s)
      /\ Total(s)
      /\ u \in State /\ u.sendList.items \in Seq(Scripts) /\ n \in Nat
      /\ ToSet(u.sendList.items) \subseteq Scripts /\ Len(s.sendList.items) \in Nat
  BY WholeIs, ListElements DEF Sound
<1>2. /\ Total(u) /\ RecvCounted(u) /\ Sending(u) /\ u.env.dialog = "None"
  BY <1>1 DEF OnlySend, Total, RecvCounted, Sending
<1>3. /\ Sound(d) /\ Total(d) /\ RecvCounted(d) /\ Sending(d) /\ Selected(d)
      /\ d.env.dialog = "None"
      /\ d.sendBar.idx = NoRow /\ d.sendList.items = u.sendList.items /\ Fits(d)
      /\ msg # NoMsg => d.mgr.clicked = NoMsg
  <2>1. CASE u.mgr.selType = "Send"
    <3>1. s.mgr.selType = "Send" /\ msg = s.mgr.clicked /\ msg = u.mgr.clicked
      BY <2>1 DEF OnlySend
    <3>2. msg \in Scripts /\ msg # NoMsg
      BY <3>1, SelectedIs, NoMsgIsNone
    <3>3. x = u
      <4>1. 0 < u.mgr.sendListCount
        <5>1. s.sendList.row \in 0..(Len(s.sendList.items) - 1)
          BY <1>1, <3>1, WholeIs DEF Listings, Rows, NoRow, Selected, Selects
        <5> QED
          BY <1>1, <5>1 DEF SendCounted
      <4> QED
        BY <1>1, <4>1, AssertTrue
    <3> HIDE DEF x, msg
    <3>4. off = SendMsgClicked(u, msg, NoRow)
      BY <3>3
    <3> HIDE DEF off
    <3>5. /\ Sound(off) /\ Kept(off, u) /\ Selected(off) /\ off.mgr.selType = "None"
          /\ off.mgr.clicked = NoMsg
      BY <1>2, <2>1, <3>1, <3>4, SendDrops
    <3>6. d = off
      <4>1. off \in State
        BY <3>5 DEF Sound
      <4> QED
        BY <3>2, <3>5, <4>1, AssertTrue
    <3> HIDE DEF d
    <3>7. d.sendBar.idx = NoRow
      BY <3>5, <3>6 DEF Selected
    <3>8. /\ Total(d) /\ RecvCounted(d) /\ Sending(d) /\ Fits(d)
      BY <1>2, <3>5, <3>6, KeptAgrees
    <3> QED
      BY <1>2, <3>5, <3>6, <3>7, <3>8 DEF Kept
  <2>2. CASE u.mgr.selType # "Send"
    <3>1. d = u /\ msg = NoMsg
      BY <2>2
    <3> HIDE DEF d, msg
    <3>2. s.mgr.selType # "Send"
      BY <2>2 DEF OnlySend
    <3>3. Selected(u) /\ u.sendBar.idx = NoRow
      BY <1>1, <2>2, <3>2 DEF Selected, Selects, OnlySend
    <3> QED
      BY <1>2, <3>1, <3>3
  <2> QED
    BY <2>1, <2>2
<1>4. msg # NoMsg => msg \in Scripts
  <2>1. u.mgr.selType = s.mgr.selType /\ u.mgr.clicked = s.mgr.clicked
    BY DEF OnlySend
  <2> QED
    BY <2>1, SelectedIs
<1> HIDE DEF d, x, off
<1>5. d \in State /\ Listings(d)
  BY <1>3 DEF Sound
<1>6. OnlySend(c, d) /\ SendIs(c, d.sendList.items, d.sendList.row, n, d.sendBar.total)
  <2>1. n \in Int
    BY <1>1
  <2> HIDE DEF n
  <2> QED
    BY <1>5, <2>1, SendCountIs
<1> HIDE DEF c
<1>7. OnlySend(r, c) /\ SendIs(r, c.sendList.items, c.sendList.row, n, n)
  <2>1. c \in State /\ c.sendBar.idx = NoRow /\ c.mgr.sendListCount = n
    BY <1>3, <1>6 DEF OnlySend, SendIs
  <2>2. c.sendBar.idx < c.mgr.sendListCount
    BY <1>1, <2>1 DEF NoRow
  <2> HIDE DEF n
  <2>3. /\ OnlySend(r, c)
        /\ SendIs(r, c.sendList.items, c.sendList.row, c.mgr.sendListCount,
                  c.mgr.sendListCount)
    BY <2>1, <2>2, SendReportedIs
  <2> QED
    BY <2>1, <2>3
<1> HIDE DEF r
<1>8. /\ r.sendList.items = u.sendList.items /\ r.sendList.row = d.sendList.row
      /\ r.mgr.sendListCount = n /\ r.sendBar.total = n /\ OnlySend(r, d)
  BY <1>3, <1>6, <1>7, OnlySendOn DEF SendIs
<1>9. /\ Sound(r) /\ RecvCounted(r) /\ Sending(r) /\ SendCounted(r) /\ Total(r)
      /\ Selected(r) /\ Fits(r) /\ r.env.dialog = "None" /\ r.mgr.clicked = d.mgr.clicked
  <2>1. Distinct(r.sendList.items) /\ r.sendList.row \in Rows(r.sendList)
    BY <1>3, <1>5, <1>8 DEF Listings, Rows
  <2>2. Sound(r) /\ RecvCounted(r) /\ Sending(r)
    BY <1>3, <1>8, <2>1, OnlySendKeeps
  <2>3. Selected(r)
    BY <1>3, <1>8 DEF OnlySend, Selected, Selects, CurrentMsg
  <2>4. SendCounted(r) /\ Total(r) /\ Fits(r)
    BY <1>1, <1>3, <1>8 DEF OnlySend, SendCounted, Total, Fits
  <2> QED
    BY <1>3, <1>8, <2>2, <2>3, <2>4 DEF OnlySend
<1>10. CASE msg \notin ToSet(u.sendList.items)
  <2>1. t = r
    BY <1>0, <1>10
  <2> QED
    BY <1>9, <2>1 DEF Whole, Sound
<1>11. CASE msg \in ToSet(u.sendList.items)
  <2>1. t = SendMsgClicked(r, msg, row)
    BY <1>0, <1>11
  <2>2. msg \in Scripts /\ msg # r.mgr.clicked
    BY <1>1, <1>3, <1>4, <1>9, <1>11, NoMsgIsNone
  <2> HIDE DEF msg
  <2>3. /\ row \in Int /\ 0 <= row /\ row < n /\ u.sendList.items[row + 1] = msg
    BY <1>1, <1>11, RowOfIs
  <2> HIDE DEF row
  <2>4. Sound(t) /\ Kept(t, r) /\ Selected(t)
    <3>1. row < r.sendBar.total /\ row < Len(r.sendList.items)
          /\ r.sendList.items[row + 1] = msg
      BY <1>8, <2>3
    <3> QED
      BY <1>9, <2>1, <2>2, <2>3, <3>1, SendPicks
  <2> QED
    BY <1>9, <2>4, KeptAgrees DEF Whole, Sound
<1> QED
  BY <1>10, <1>11

(* loadMessages and sendUpdateList.                                        *)
LEMMA SendLoadKeeps ==
  ASSUME Whole(Now), SendLoad
  PROVE  Whole(Now)'
<1> DEFINE s == Now
<1>1. s.env.dialog = "None"
  BY NowIs DEF SendLoad, SendIdle, User
<1>2. PICK clear \in BOOLEAN, n \in 0..MaxScript :
        LET kept == IF clear
                    THEN [s EXCEPT !.sendList.items = <<>>, !.sendList.row = NoRow]
                    ELSE s
        IN  /\ Fit(Len(s.env.allMsgs), Len(kept.sendList.items) + n)
            /\ Become(SendUpdateList(AddScripts(kept, n)))
  <2>1. \E clear \in BOOLEAN, n \in 0..MaxScript :
        LET kept == IF clear
                    THEN [Now EXCEPT !.sendList.items = <<>>, !.sendList.row = NoRow]
                    ELSE Now
        IN  /\ Fit(Len(env.allMsgs), Len(kept.sendList.items) + n)
            /\ Become(SendUpdateList(AddScripts(kept, n)))
    BY DEF SendLoad
  <2> QED
    BY <2>1, NowIs
<1> DEFINE k == IF clear
                THEN [s EXCEPT !.sendList.items = <<>>, !.sendList.row = NoRow]
                ELSE s
           u == AddScripts(k, n)
           t == SendUpdateList(u)
<1>3. Fit(Len(s.env.allMsgs), Len(k.sendList.items) + n) /\ Become(t)
  BY <1>2
<1>4. /\ s \in State /\ Sound(s) /\ s.sendList \in SendLists /\ Len(s.env.allMsgs) \in Nat
      /\ Len(s.sendList.items) \in Nat /\ n \in Nat
  BY WholeIs, ListElements, Parts, BoundsAssumption DEF s
<1>5. /\ Sound(k) /\ OnlySend(k, s) /\ k.mgr.sendListCount = s.mgr.sendListCount
      /\ k.sendBar.total = s.sendBar.total
  <2>1. CASE clear
    <3> DEFINE q == <<>>
               l == [s.sendList EXCEPT !.items = q, !.row = NoRow]
    <3>1. k = [s EXCEPT !.sendList = l] /\ q \in Seq(Scripts) /\ NoRow \in Int
      BY <1>4, <2>1, EmptyList, NoMsgIsNone DEF State, SendLists
    <3>2. l = [s.sendList EXCEPT !.items = q, !.row = NoRow]
      OBVIOUS
    <3>3. Len(q) = 0 /\ Distinct(q)
      BY EmptyList
    <3> HIDE DEF k, q, l
    <3>4. OnlySend(k, s) /\ SendIs(k, q, NoRow, s.mgr.sendListCount, s.sendBar.total)
      BY <1>4, <3>1, <3>2, SendListIs
    <3>5. k.sendList.items = q /\ k.sendList.row \in Rows(k.sendList)
      BY <3>3, <3>4 DEF SendIs, Rows, NoRow
    <3> QED
      BY <1>4, <3>3, <3>4, <3>5, OnlySendKeeps DEF SendIs
  <2>2. CASE ~clear
    <3>1. k = s
      BY <2>2
    <3> HIDE DEF k
    <3> QED
      BY <1>4, <3>1 DEF OnlySend
  <2> QED
    BY <2>1, <2>2
<1> HIDE DEF k, s
<1>6. Loaded(u, k, n)
  <2>1. Len(k.sendList.items) + n <= MaxScript
    BY <1>3 DEF Fit
  <2> QED
    BY <1>4, <1>5, <2>1, AddScriptsSound
<1> HIDE DEF u
<1>7. OnlySend(u, s) /\ Sound(u) /\ u.mgr.sendListCount = s.mgr.sendListCount
      /\ u.sendBar.total = s.sendBar.total
  BY <1>5, <1>6, OnlySendOn DEF Loaded
<1>8. Fits(u)
  BY <1>3, <1>6, <1>7 DEF Loaded, OnlySend, Fits
<1>9. t \in State /\ Whole(t)
  <2>1. Whole(s)
    BY DEF s
  <2> QED
    BY <1>1, <1>7, <1>8, <2>1, SendUpdatedWhole
<1> QED
  BY <1>3, <1>9, BecomeIs

-----------------------------------------------------------------------------
(* A dialog is closed.                                                     *)
ClosedFrom(t, s) ==
    /\ t \in State
    /\ t.mgr = s.mgr /\ t.recvBar = s.recvBar /\ t.sendBar = s.sendBar
    /\ t.recvList = s.recvList /\ t.sendList = s.sendList
    /\ t.env.dialog = "None" /\ t.env.dialogMsg = NoMsg
    /\ t.env.allMsgs = s.env.allMsgs /\ t.env.toSend = s.env.toSend
    /\ t.env.ok = s.env.ok /\ t.env.applied = s.env.applied
    /\ t.env.running = s.env.running

(* What Closed sets.                                                       *)
LEMMA ClosedIs ==
  ASSUME NEW s \in State, NEW t, t = Closed(s)
  PROVE  ClosedFrom(t, s)
<1>1. s.env \in Envs /\ NoMsg \in AnyMsg
  BY Parts, NoMsgIsNone
<1>2. Be(t, s.mgr, s.recvBar, s.sendBar, s.recvList, s.sendList,
         [s.env EXCEPT !.dialog = "None", !.dialogMsg = NoMsg])
  BY <1>1 DEF Closed, State, Envs, Be
<1> QED
  BY <1>1, <1>2 DEF Be, Envs, ClosedFrom

LEMMA ClosedWhole ==
  ASSUME NEW s, Whole(s), NEW t, t = Closed(s)
  PROVE  t \in State /\ Whole(t)
<1>1. s \in State /\ Focus(s) /\ Fine(s)
  BY WholeIs
<1>2. ClosedFrom(t, s)
  BY <1>1, ClosedIs
<1>3. Aside(t, s) /\ Focus(t) /\ Dialogs(t) /\ Fine(t)
  BY <1>1, <1>2 DEF ClosedFrom, Aside, Focus, Dialogs, Fine
<1> QED
  BY <1>2, <1>3, AsideWhole DEF ClosedFrom

(* A message takes the place of another one.                               *)
Replacing(p, q, k, msg) ==
    p \in Seq(Scripts) /\ Len(p) = Len(q) /\ Distinct(p) /\ p[k] = msg

LEMMA ReplacedIs ==
  ASSUME NEW q \in Seq(Scripts), Distinct(q), NEW k \in 1..Len(q), NEW msg \in Scripts,
         msg \notin ToSet(q), NEW p, p = [q EXCEPT ![k] = msg]
  PROVE  Replacing(p, q, k, msg)
<1>1. Len(q) \in Nat /\ q \in [1..Len(q) -> Scripts] /\ DOMAIN q = 1..Len(q)
  OBVIOUS
<1>2. p \in [1..Len(q) -> Scripts] /\ DOMAIN p = 1..Len(q)
  BY <1>1
<1>3. p \in Seq(Scripts) /\ Len(p) = Len(q)
  <2>1. p \in Seq(Scripts)
    BY <1>1, <1>2, SeqDef
  <2> QED
    BY <1>1, <1>2, <2>1, LenProperties
<1>4. \A i \in 1..Len(q) : q[i] # msg
  BY <1>1 DEF ToSet
<1>5. \A i \in 1..Len(q) : p[i] = IF i = k THEN msg ELSE q[i]
  BY <1>1
<1>6. Distinct(p)
  BY <1>1, <1>2, <1>4, <1>5 DEF Distinct
<1> QED
  BY <1>3, <1>5, <1>6 DEF Replacing

(* The edited message replaces the selected one.                           *)
LEMMA EditedWhole ==
  ASSUME NEW s, Whole(s), s.env.dialog = "Edit", NEW msg, msg = FreshScript(s),
         NEW u, u = [s EXCEPT !.mgr.clicked = msg,
                              !.sendList.items[s.sendList.row + 1] = msg],
         NEW t, t = Closed(DisplayMessage(u, msg))
  PROVE  t \in State /\ Whole(t)
<1> DEFINE q == s.sendList.items
           k == s.sendList.row + 1
           p == [q EXCEPT ![k] = msg]
           m == [s.mgr EXCEPT !.clicked = msg]
           l == [s.sendList EXCEPT !.items = p]
           v == DisplayMessage(u, msg)
<1>1. /\ s \in State /\ Sound(s) /\ Listings(s) /\ Focus(s) /\ Dialogs(s) /\ Fine(s)
      /\ Selected(s) /\ RecvCounted(s) /\ SendCounted(s) /\ Sending(s) /\ Fits(s)
      /\ q \in Seq(Scripts) /\ Len(q) \in Nat /\ Distinct(q)
      /\ s.mgr \in Managers /\ s.sendList \in SendLists /\ s.env \in Envs
  BY WholeIs, Parts DEF Listings
<1>2. s.mgr.selType = "Send" /\ s.mgr.clicked # NoMsg /\ s.mgr.displayed = s.mgr.clicked
  BY <1>1 DEF Dialogs, Focus
<1>3. 0 <= s.sendBar.idx /\ s.sendList.row = s.sendBar.idx
  BY <1>1, <1>2 DEF Selected, Selects
<1>4. /\ s.sendList.row \in Int /\ 0 <= s.sendList.row /\ s.sendList.row < Len(q)
      /\ s.mgr.displayed \in ToSet(q) /\ s.recvBar.idx = NoRow
  BY <1>2, <1>3, SendSelectedIs
<1>5. msg \in Scripts /\ msg \notin Held(s)
  <2>1. Len(q) < MaxScript \/ Len(q) = MaxScript
    BY <1>1, BoundsAssumption DEF Fits, Fit
  <2> QED
    BY <1>1, <1>4, <2>1, FreshScriptIs
<1>6. k \in 1..Len(q) /\ msg \notin ToSet(q) /\ msg \in AnyMsg /\ msg # NoMsg
      /\ NoMsg \in AnyMsg
  BY <1>1, <1>4, <1>5, NoMsgIsNone DEF Held
<1>7. p \in Seq(Scripts) /\ Len(p) = Len(q) /\ Distinct(p) /\ p[k] = msg
  <2>1. p = [q EXCEPT ![k] = msg]
    OBVIOUS
  <2> HIDE DEF p, k, q
  <2>2. Replacing(p, q, k, msg)
    BY <1>1, <1>5, <1>6, <2>1, ReplacedIs
  <2> QED
    BY <2>2 DEF Replacing
<1>8. u = [s EXCEPT !.mgr = m, !.sendList = l]
  BY <1>1 DEF State, Managers, SendLists
<1> HIDE DEF p
<1>9. /\ l \in SendLists /\ l.items = p /\ l.row = s.sendList.row
      /\ l.state = s.sendList.state
  BY <1>1, <1>7 DEF SendLists
<1>10. /\ m \in Managers /\ m.clicked = msg /\ m.selType = s.mgr.selType
       /\ m.recvListCount = s.mgr.recvListCount
       /\ m.sendListCount = s.mgr.sendListCount /\ m.sendState = s.mgr.sendState
       /\ m.pendingWait = s.mgr.pendingWait
  BY <1>1, <1>6 DEF Managers
<1> HIDE DEF l, m
<1>11. Be(u, m, s.recvBar, s.sendBar, s.recvList, l, s.env)
  BY <1>1, <1>8, <1>9, <1>10 DEF State, Be
<1> DEFINE w == [m EXCEPT !.pending = NoMsg, !.displayed = msg]
<1>12. Be(v, w, s.recvBar, s.sendBar, s.recvList, l, s.env)
  BY <1>6, <1>10, <1>11 DEF State, Managers, Be, DisplayMessage
<1>13. /\ w.clicked = msg /\ w.selType = s.mgr.selType
       /\ w.recvListCount = s.mgr.recvListCount
       /\ w.sendListCount = s.mgr.sendListCount /\ w.sendState = s.mgr.sendState
       /\ w.pendingWait = s.mgr.pendingWait /\ w.pending = NoMsg /\ w.displayed = msg
  BY <1>10 DEF Managers
<1> HIDE DEF v, w
<1>14. ClosedFrom(t, v)
  <2>1. v \in State /\ t = Closed(v)
    BY <1>12 DEF Be, v
  <2> QED
    BY <2>1, ClosedIs
<1>15. /\ t \in State /\ t.mgr = w /\ t.recvBar = s.recvBar /\ t.sendBar = s.sendBar
       /\ t.recvList = s.recvList /\ t.sendList.items = p
       /\ t.sendList.row = s.sendList.row /\ t.sendList.state = s.sendList.state
       /\ t.env.dialog = "None" /\ t.env.dialogMsg = NoMsg
       /\ t.env.allMsgs = s.env.allMsgs /\ t.env.toSend = s.env.toSend
       /\ t.env.ok = s.env.ok /\ t.env.applied = s.env.applied
       /\ t.env.running = s.env.running
  BY <1>9, <1>12, <1>14 DEF Be, ClosedFrom
<1>16. Listings(t)
  BY <1>1, <1>7, <1>15 DEF Listings, Rows
<1>17. Focus(t) /\ Dialogs(t) /\ Fine(t)
  BY <1>1, <1>2, <1>13, <1>15 DEF Focus, Dialogs, Fine
<1>18. Selected(t)
  <2>1. CurrentMsg(t.sendList) = t.mgr.clicked
    BY <1>7, <1>13, <1>15 DEF CurrentMsg, k
  <2> QED
    BY <1>2, <1>3, <1>4, <1>6, <1>13, <1>15, <2>1 DEF Selected, Selects
<1>19. RecvCounted(t) /\ SendCounted(t) /\ Sending(t) /\ Fits(t)
  BY <1>1, <1>7, <1>13, <1>15 DEF RecvCounted, SendCounted, Sending, Fits
<1> QED
  BY <1>15, <1>16, <1>17, <1>18, <1>19 DEF Whole, Sound

(* The dialog is cancelled or accepted.                                    *)
LEMMA DialogDoneKeeps ==
  ASSUME Whole(Now), DialogDone
  PROVE  Whole(Now)'
<1> DEFINE s == Now
           x == Assert_(s, env.dialogMsg = mgr.clicked)
           msg == FreshScript(s)
           y == Assert_(s, /\ 0 < mgr.sendListCount
                           /\ mgr.clicked # NoMsg
                           /\ 0 <= sendList.row)
           u == [y EXCEPT !.mgr.clicked = msg,
                          !.sendList.items[sendList.row + 1] = msg]
<1>1. /\ env.dialog # "None"
      /\ \/ Become(Closed(s))
         \/ env.dialog = "Comment" /\ Become(Closed(x))
         \/ env.dialog = "Edit" /\ Become(Closed(DisplayMessage(u, msg)))
  BY DEF DialogDone
<1>2. /\ s \in State /\ Dialogs(s) /\ Selected(s) /\ SendCounted(s)
      /\ Len(s.sendList.items) \in Nat
  BY WholeIs DEF s
<1>3. CASE Become(Closed(s))
  <2> DEFINE t == Closed(s)
  <2>1. Whole(s)
    OBVIOUS
  <2> HIDE DEF s, t
  <2>2. t \in State /\ Whole(t)
    BY <2>1, ClosedWhole DEF t
  <2> QED
    BY <1>3, <2>2, BecomeIs DEF t
<1>4. CASE env.dialog = "Comment" /\ Become(Closed(x))
  <2> DEFINE t == Closed(s)
  <2>1. Whole(s)
    OBVIOUS
  <2>2. env.dialogMsg = mgr.clicked
    BY <1>2, <1>4, NowIs DEF Dialogs
  <2>3. x = s
    BY <1>2, <2>2, AssertTrue
  <2> HIDE DEF s, t, x
  <2>4. t \in State /\ Whole(t)
    BY <2>1, ClosedWhole DEF t
  <2> QED
    BY <1>4, <2>3, <2>4, BecomeIs DEF t
<1>5. CASE env.dialog = "Edit" /\ Become(Closed(DisplayMessage(u, msg)))
  <2> DEFINE t == Closed(DisplayMessage(u, msg))
  <2>1. Whole(s) /\ s.env.dialog = "Edit"
    BY <1>5, NowIs
  <2>2. s.mgr.selType = "Send" /\ s.mgr.clicked # NoMsg /\ 0 <= s.sendBar.idx
    BY <1>2, <2>1 DEF Dialogs, Selected, Selects
  <2>3. 0 < s.mgr.sendListCount /\ 0 <= s.sendList.row
    <3>1. s.sendList.row \in Int /\ 0 <= s.sendList.row /\ s.sendList.row < Len(s.sendList.items)
      BY <2>1, <2>2, SendSelectedIs
    <3> QED
      BY <1>2, <3>1 DEF SendCounted
  <2>4. 0 < mgr.sendListCount /\ mgr.clicked # NoMsg /\ 0 <= sendList.row
    BY <2>2, <2>3, NowIs
  <2>5. y = s
    BY <1>2, <2>4, AssertTrue
  <2>6. sendList.row = s.sendList.row
    BY NowIs
  <2> HIDE DEF s, y
  <2>7. u = [s EXCEPT !.mgr.clicked = msg, !.sendList.items[s.sendList.row + 1] = msg]
    BY <2>5, <2>6
  <2> HIDE DEF u
  <2>8. msg = FreshScript(s) /\ t = Closed(DisplayMessage(u, msg))
    OBVIOUS
  <2> HIDE DEF msg, t
  <2>9. t \in State /\ Whole(t)
    BY <2>1, <2>7, <2>8, EditedWhole
  <2> QED
    BY <1>5, <2>8, <2>9, BecomeIs
<1> QED
  BY <1>1, <1>3, <1>4, <1>5

-----------------------------------------------------------------------------
(* The list is filled anew from the message manager. The selected message  *)
(* is either none that can be listed, or clicked already, or none is       *)
(* clicked and the next message becomes current.                           *)
Ready(x, selected) ==
    \/ selected \notin Listed
    \/ x.mgr.clicked = selected
    \/ x.mgr.selType = "None" /\ x.recvList.selectOnAdd = TRUE

Listable(x) == Resting(x) /\ Sending(x) /\ Fits(x) /\ x.env.dialog = "None"

(* One message is listed again, and clicked if it was selected.            *)
LEMMA Relisted ==
  ASSUME NEW s, Listable(s), NEW msg \in Listed, msg \in ToSet(s.env.allMsgs),
         msg \notin ToSet(s.recvList.items), NEW selected, Ready(s, selected),
         NEW t, t = Relist(s, msg, selected)
  PROVE  /\ Listable(t) /\ Ready(t, selected) /\ t.env = s.env
         /\ ToSet(t.recvList.items) \subseteq ToSet(s.recvList.items) \cup {msg}
<1> DEFINE y == AddMsgToRecvList(s, msg)
           idx == y.mgr.recvListCount - 1
           z == RecvMsgClicked(y, msg, idx)
<1>1. /\ Resting(s) /\ Sending(s) /\ Fits(s) /\ s.env.dialog = "None"
      /\ Sound(s) /\ Selected(s) /\ RecvCounted(s) /\ SendCounted(s) /\ s \in State
      /\ s.recvList.items \in Seq(Listed) /\ Len(s.recvList.items) \in Nat
  BY ListElements DEF Listable, Resting, Sound
<1>2. CASE ~CanAddToRecvList(s, msg)
  <2>1. t = s
    BY <1>2 DEF Relist
  <2> QED
    BY <2>1
<1>3. CASE CanAddToRecvList(s, msg)
  <2>1. t = IF msg = selected THEN z ELSE y
    BY <1>3 DEF Relist
  <2>2. RecvAddedIs(y, s, msg) /\ Sound(y) /\ RecvCounted(y) /\ Selected(y)
    BY <1>1, RecvAddedSound
  <2> HIDE DEF y
  <2>3. y.env = s.env /\ SameSend(y, s) /\ RecvListed(y, s, msg) /\ y \in State
    BY <2>2 DEF RecvAddedIs
  <2>4. SendCounted(y) /\ Sending(y) /\ Fits(y)
    BY <1>1, <2>3 DEF SendCounted, Sending, Fits, SameSend
  <2>5. Listable(y) /\ y.env = s.env
    BY <1>1, <2>2, <2>3, <2>4 DEF Listable, Resting
  <2>6. /\ ToSet(y.recvList.items) = ToSet(s.recvList.items) \cup {msg}
        /\ Len(y.recvList.items) = Len(s.recvList.items) + 1
        /\ y.recvList.items[Len(s.recvList.items) + 1] = msg
    BY <1>1, <2>3, Appended DEF RecvListed
  <2>7. Ready(y, selected)
    BY <2>3 DEF Ready, SameSend, RecvListed
  <2>8. CASE msg # selected
    BY <2>1, <2>5, <2>6, <2>7, <2>8
  <2>9. CASE msg = selected
    <3>1. s.mgr.clicked # msg
      <4> SUFFICES ASSUME s.mgr.clicked = msg PROVE FALSE
        OBVIOUS
      <4>1. s.mgr.selType = "Recv" /\ msg \in ToSet(s.recvList.items)
        <5>1. Whole(s)
          BY <1>1 DEF Whole
        <5>2. s.mgr.selType = "Recv"
          BY <5>1, SelectedIs
        <5>3. /\ Selects(s, s.recvList, s.recvBar)
              /\ s.recvList.row \in NoRow..(Len(s.recvList.items) - 1)
          BY <1>1, <5>2 DEF Selected, Sound, Listings, Rows
        <5>4. s.recvList.row + 1 \in 1..Len(s.recvList.items)
          BY <1>1, <5>3 DEF Selects, NoRow
        <5>5. s.recvList.items[s.recvList.row + 1] = msg
          BY <5>3 DEF Selects, CurrentMsg
        <5> QED
          BY <1>1, <5>2, <5>4, <5>5 DEF ToSet
      <4> QED
        BY <4>1
    <3>2. s.mgr.selType = "None" /\ s.recvList.selectOnAdd = TRUE
      BY <2>9, <3>1 DEF Ready
    <3>3. /\ y.mgr.clicked # msg /\ y.recvList.row = Len(s.recvList.items)
          /\ y.mgr.recvListCount = Len(s.recvList.items) + 1
          /\ y.recvBar.total = Len(s.recvList.items) + 1
      <4>1. y.mgr.recvListCount = Len(s.recvList.items) + 1
            /\ y.recvBar.total = Len(s.recvList.items) + 1
        BY <2>2, <2>6 DEF RecvCounted
      <4> QED
        BY <2>3, <3>1, <3>2, <4>1 DEF SameSend, RecvListed
    <3>4. /\ idx \in Int /\ 0 <= idx /\ idx < y.recvBar.total /\ y.recvList.row = idx
          /\ CurrentMsg(y.recvList) = msg
      BY <1>1, <2>6, <3>3 DEF CurrentMsg
    <3>5. Total(y) /\ y.env.dialog = "None"
      <4>1. Len(y.sendList.items) \in Nat /\ Len(y.recvList.items) \in Nat
        BY <2>3, ListElements
      <4> QED
        BY <1>1, <2>2, <2>3, <2>4, <4>1 DEF Total, RecvCounted, SendCounted
    <3> HIDE DEF z, idx
    <3>6. /\ Sound(z) /\ Kept(z, y) /\ Selected(z)
          /\ z.mgr.selType = "Recv" /\ z.mgr.clicked = msg
      BY <2>2, <3>3, <3>4, <3>5, RecvPicks DEF z
    <3>7. RecvCounted(z) /\ SendCounted(z) /\ Sending(z) /\ Fits(z) /\ z.env = y.env
          /\ z.recvList.items = y.recvList.items
      BY <2>2, <2>4, <3>6, KeptAgrees DEF Kept
    <3>8. Listable(z) /\ Ready(z, selected) /\ z.env = s.env
      BY <2>3, <2>9, <3>5, <3>6, <3>7 DEF Listable, Resting, Ready
    <3> QED
      BY <2>1, <2>6, <2>9, <3>7, <3>8
  <2> QED
    BY <2>8, <2>9
<1> QED
  BY <1>2, <1>3

(* All the messages of the message manager.                                *)
LEMMA RelistAllSound ==
  ASSUME NEW s, Listable(s), NEW msgs \in Seq(Listed), Distinct(msgs),
         ToSet(msgs) = ToSet(s.env.allMsgs), ToSet(s.recvList.items) = {},
         NEW selected, Ready(s, selected), NEW t, t = RelistAll(s, msgs, selected)
  PROVE  Listable(t)
<1> DEFINE n == Len(msgs)
           Upto(i) == {msgs[j] : j \in 1..i}
           G(i) == {x \in State : /\ Listable(x) /\ Ready(x, selected) /\ x.env = s.env
                                  /\ ToSet(x.recvList.items) \subseteq Upto(i)}
           inv == [i \in 0..n |-> G(i)]
           next(x, i) == Relist(x, msgs[i], selected)
           go == [p \in State \X (1..n) |->
                    IF next(p[1], p[2]) \in State THEN next(p[1], p[2]) ELSE s]
           R(f) == f = [i \in 0..n |-> IF i = 0 THEN s ELSE next(f[i - 1], i)]
           loop == CHOOSE f : R(f)
<1>1. s \in State /\ n \in Nat
  BY DEF Listable, Resting, Sound
<1>2. s \in G(0)
  BY <1>1
<1>3. ASSUME NEW i \in 1..n, NEW x, x \in G(i - 1)
      PROVE  next(x, i) \in G(i)
  <2> DEFINE y == Relist(x, msgs[i], selected)
             p == Upto(i - 1)
  <2>1. /\ Listable(x) /\ Ready(x, selected) /\ x.env = s.env
        /\ ToSet(x.recvList.items) \subseteq p
    BY <1>3
  <2>2. msgs[i] \in Listed /\ msgs[i] \in ToSet(s.env.allMsgs)
    <3>1. i \in DOMAIN msgs /\ msgs[i] \in Listed
      BY <1>1
    <3>2. msgs[i] \in ToSet(msgs)
      BY <3>1 DEF ToSet
    <3> QED
      BY <3>1, <3>2
  <2>3. msgs[i] \notin p
    <3> SUFFICES ASSUME NEW j \in 1..(i - 1), msgs[j] = msgs[i] PROVE FALSE
      OBVIOUS
    <3>1. j \in DOMAIN msgs /\ i \in DOMAIN msgs /\ j # i
      BY <1>1
    <3> QED
      BY <3>1 DEF Distinct
  <2>4. p \cup {msgs[i]} \subseteq Upto(i)
    BY <1>1
  <2> HIDE DEF y, p
  <2>5. /\ Listable(y) /\ Ready(y, selected) /\ y.env = x.env
        /\ ToSet(y.recvList.items) \subseteq ToSet(x.recvList.items) \cup {msgs[i]}
    <3>1. msgs[i] \in ToSet(x.env.allMsgs) /\ msgs[i] \notin ToSet(x.recvList.items)
      BY <2>1, <2>2, <2>3
    <3> QED
      BY <2>1, <2>2, <3>1, Relisted DEF y
  <2>6. y \in State
    BY <2>5 DEF Listable, Resting, Sound
  <2>7. ToSet(y.recvList.items) \subseteq Upto(i)
    <3> HIDE DEF Upto
    <3> QED
      BY <2>1, <2>4, <2>5
  <2> QED
    BY <2>1, <2>5, <2>6, <2>7 DEF y
<1>4. \A i \in 0..n : inv[i] = G(i) /\ G(i) \subseteq State
  OBVIOUS
<1> HIDE DEF G, next, inv, n
<1>5. go \in [State \X (1..n) -> State]
  BY <1>1
<1>6. \A x \in State : \A i \in 1..n :
        next(x, i) \in State => go[<<x, i>>] = next(x, i)
  OBVIOUS
<1> HIDE DEF go
<1>7. s \in inv[0]
  BY <1>1, <1>2, <1>4
<1>8. \A i \in 1..n : \A x : x \in inv[i - 1] => next(x, i) \in inv[i] /\ next(x, i) \in State
  <2> TAKE i \in 1..n
  <2>1. i - 1 \in 0..n /\ i \in 0..n
    BY <1>1
  <2> QED
    BY <1>3, <1>4, <2>1
<1>9. \A i \in 1..n : \A x \in State : x \in inv[i - 1] => go[<<x, i>>] \in inv[i]
  BY <1>6, <1>8
<1>10. PICK f \in [0..n -> State] :
            /\ f = [i \in 0..n |-> IF i = 0 THEN s ELSE go[<<f[i - 1], i>>]]
            /\ \A i \in 0..n : f[i] \in inv[i]
  <2>1. Loops(State, s, n, go, inv) # {}
    BY <1>1, <1>5, <1>7, <1>9, LoopExists
  <2> QED
    BY <2>1 DEF Loops
<1>11. R(f)
  <2>1. ASSUME NEW i \in 0..n, i # 0 PROVE go[<<f[i - 1], i>>] = next(f[i - 1], i)
    <3>1. i \in 1..n /\ i - 1 \in 0..n
      BY <1>1, <2>1
    <3> QED
      BY <1>6, <1>8, <1>10, <3>1
  <2> QED
    BY <1>10, <2>1
<1>12. R(loop)
  <2> HIDE DEF R
  <2> QED
    BY <1>11, Zenon
<1>13. t = loop[n]
  BY DEF RelistAll, next, n
<1> HIDE DEF loop
<1>14. loop[0] = s /\ \A i \in 1..n : loop[i] = next(loop[i - 1], i)
  BY <1>1, <1>12
<1>15. loop[0] \in inv[0] /\ \A i \in 1..n : loop[i - 1] \in inv[i - 1] => loop[i] \in inv[i]
  BY <1>7, <1>8, <1>14
<1>16. \A i \in 0..n : loop[i] \in inv[i]
  BY <1>1, <1>15, LoopStays
<1>17. t \in G(n)
  BY <1>1, <1>4, <1>13, <1>16
<1> QED
  BY <1>17 DEF G

-----------------------------------------------------------------------------
(* Other kinds of messages are to be listed.                               *)
LEMMA ModeWhole ==
  ASSUME NEW s, Whole(s), NEW mode \in SUBSET ListedKinds,
         NEW t, t = [s EXCEPT !.mgr.recvListMode = mode]
  PROVE  Whole(t) /\ Aside(t, s) /\ t.env = s.env
<1>1. s \in State /\ Focus(s) /\ Dialogs(s) /\ Fine(s) /\ s.mgr \in Managers
  BY WholeIs, Parts
<1>2. Be(t, [s.mgr EXCEPT !.recvListMode = mode], s.recvBar,
         s.sendBar, s.recvList, s.sendList, s.env)
  BY <1>1 DEF State, Managers, Be
<1>3. /\ t \in State /\ Aside(t, s)
      /\ t.mgr.displayed = s.mgr.displayed /\ t.mgr.pending = s.mgr.pending
      /\ t.mgr.pendingWait = s.mgr.pendingWait
  BY <1>1, <1>2 DEF Be, Aside, Managers
<1>4. Focus(t) /\ Dialogs(t) /\ Fine(t)
  BY <1>1, <1>2, <1>3 DEF Focus, Dialogs, Fine, Aside, Be
<1> QED
  BY <1>2, <1>3, <1>4, AsideWhole DEF Be

(* Nothing is displayed any more.                                          *)
LEMMA UndisplayWhole ==
  ASSUME NEW s, Whole(s), s.mgr.clicked = NoMsg,
         NEW t, t = [s EXCEPT !.mgr.displayed = NoMsg]
  PROVE  Whole(t) /\ t.mgr.clicked = NoMsg /\ t.env = s.env
<1>1. s \in State /\ Focus(s) /\ Dialogs(s) /\ Fine(s) /\ s.mgr \in Managers /\ NoMsg \in AnyMsg
  BY WholeIs, Parts, NoMsgIsNone
<1> DEFINE m == [s.mgr EXCEPT !.displayed = NoMsg]
<1>2. Be(t, m, s.recvBar, s.sendBar, s.recvList, s.sendList, s.env)
  BY <1>1 DEF State, Managers, Be
<1>3. /\ t \in State /\ Aside(t, s) /\ t.mgr.pending = s.mgr.pending
      /\ t.mgr.pendingWait = s.mgr.pendingWait
  BY <1>1, <1>2 DEF Be, Aside, Managers
<1>4. Focus(t) /\ Dialogs(t) /\ Fine(t)
  BY <1>1, <1>2, <1>3 DEF Focus, Dialogs, Fine, Aside, Be
<1> QED
  BY <1>2, <1>3, <1>4, AsideWhole DEF Be, Aside

(* The selection is dropped, if it is in the list.                         *)
RecvDropped(s) ==
    IF s.mgr.selType = "Recv"
    THEN LET off == RecvMsgClicked(Assert_(s, 0 < s.mgr.recvListCount),
                                   s.mgr.clicked, s.mgr.recvListCount - 1)
         IN  Assert_(off, off.mgr.clicked = NoMsg)
    ELSE IF s.mgr.selType = "None"
    THEN [s EXCEPT !.mgr.displayed = NoMsg]
    ELSE s

LEMMA RecvDroppedSound ==
  ASSUME NEW s, Whole(s), s.env.dialog = "None", NEW t, t = RecvDropped(s)
  PROVE  /\ Whole(t) /\ t.env = s.env
         /\ \/ s.mgr.clicked \notin Listed
            \/ t.mgr.selType = "None" /\ t.recvList.selectOnAdd = TRUE
<1>1. CASE s.mgr.selType = "Recv"
  <2> DEFINE off == RecvMsgClicked(s, s.mgr.clicked, s.mgr.recvListCount - 1)
  <2>1. s \in State /\ Total(s) /\ Sound(s)
    BY WholeIs
  <2>2. 0 < s.mgr.recvListCount
    <3>1. /\ Selects(s, s.recvList, s.recvBar) /\ RecvCounted(s)
          /\ s.recvList.row \in NoRow..(Len(s.recvList.items) - 1)
          /\ Len(s.recvList.items) \in Nat
      BY <1>1, WholeIs DEF Selected, Listings, Rows
    <3> QED
      BY <3>1 DEF Selects, RecvCounted, NoRow
  <2>3. Assert_(s, 0 < s.mgr.recvListCount) = s
    BY <2>1, <2>2, AssertTrue
  <2>4. t = Assert_(off, off.mgr.clicked = NoMsg)
    BY <1>1, <2>3 DEF RecvDropped
  <2> HIDE DEF off
  <2>5. /\ Sound(off) /\ Kept(off, s) /\ Selected(off) /\ off.mgr.selType = "None"
        /\ off.mgr.clicked = NoMsg /\ off.recvList.selectOnAdd = TRUE
    BY <1>1, <2>1, RecvDrops DEF off
  <2>6. t = off
    BY <2>4, <2>5, AssertTrue DEF Sound
  <2>7. Whole(off) /\ off.env = s.env
    BY <2>5, WholeIs, KeptAgrees DEF Whole, Kept
  <2> QED
    BY <2>5, <2>6, <2>7
<1>2. CASE s.mgr.selType = "None"
  <2>1. s.mgr.clicked = NoMsg
    BY <1>2, SelectedIs
  <2>2. t = [s EXCEPT !.mgr.displayed = NoMsg]
    BY <1>2 DEF RecvDropped
  <2>3. Whole(t) /\ t.env = s.env
    BY <2>1, <2>2, UndisplayWhole
  <2> QED
    BY <2>1, <2>3, NoMsgIsNone
<1>3. CASE s.mgr.selType = "Send"
  <2>1. t = s /\ s.mgr.clicked \in Scripts
    BY <1>3, SelectedIs DEF RecvDropped
  <2> QED
    BY <2>1, NoMsgIsNone
<1> QED
  BY <1>1, <1>2, <1>3, SelectedIs

(* refreshRecvList.                                                        *)
LEMMA RefreshedWhole ==
  ASSUME NEW s, Whole(s), s.env.dialog = "None", NEW t, t = RefreshRecvList(s)
  PROVE  Whole(t)
<1> DEFINE a == RecvDropped(s)
           b == ClearRecvList(a, {})
           c == RelistAll(b, s.env.allMsgs, s.mgr.clicked)
           d == [c EXCEPT !.recvList.row = NoRow]
<1>1. t = IF c.mgr.clicked = NoMsg THEN d ELSE c
  BY DEF RefreshRecvList, RecvDropped, RecvClearSelection
<1>2. /\ Whole(a) /\ a.env = s.env
      /\ \/ s.mgr.clicked \notin Listed
         \/ a.mgr.selType = "None" /\ a.recvList.selectOnAdd = TRUE
  BY RecvDroppedSound
<1> HIDE DEF a, c
<1>3. /\ Resting(a) /\ Sending(a) /\ Fits(a) /\ Listings(a) /\ a \in State
      /\ a.env.allMsgs \in Seq(Listed) /\ Len(a.env.allMsgs) \in Nat
      /\ Len(a.sendList.items) \in Nat
  <2>1. a \in State /\ Sound(a) /\ Listings(a) /\ Selected(a) /\ RecvCounted(a)
        /\ SendCounted(a) /\ Sending(a) /\ Fits(a)
    BY <1>2, WholeIs
  <2>2. /\ a.env.allMsgs \in Seq(Listed) /\ Len(a.env.allMsgs) \in Nat
        /\ Len(a.sendList.items) \in Nat
    BY <2>1, ListElements
  <2> QED
    BY <2>1, <2>2 DEF Resting
<1> DEFINE none == {}
<1>4. none \subseteq Listed /\ b = ClearRecvList(a, none)
  OBVIOUS
<1>5. ToSet(a.env.allMsgs) \ none = ToSet(a.env.allMsgs)
  OBVIOUS
<1> HIDE DEF none, b
<1>6. RecvEmptied(b, a) /\ b.env.allMsgs = Without(a.env.allMsgs, none)
  BY <1>3, <1>4, RecvEmptiedIs
<1>7. /\ b.env.allMsgs \in Seq(Listed) /\ Distinct(b.env.allMsgs)
      /\ ToSet(b.env.allMsgs) = ToSet(a.env.allMsgs)
      /\ Len(b.env.allMsgs) <= Len(a.env.allMsgs)
      /\ Len(b.env.allMsgs) \in Nat
  <2>1. /\ Without(a.env.allMsgs, none) \in Seq(Listed)
        /\ Distinct(Without(a.env.allMsgs, none))
        /\ ToSet(Without(a.env.allMsgs, none)) = ToSet(a.env.allMsgs) \ none
        /\ Len(Without(a.env.allMsgs, none)) <= Len(a.env.allMsgs)
    BY <1>3, WithoutIs DEF Listings
  <2> QED
    BY <1>5, <1>6, <2>1
<1>8. Resting(b) /\ Sending(b)
  <2>1. a.env.dialog = "None"
    BY <1>2
  <2> QED
    BY <1>3, <1>6, <1>7, <2>1, RecvEmptiedKeeps
<1>9. Fits(b)
  <2>1. b.sendList = a.sendList
    BY <1>6 DEF RecvEmptied
  <2> QED
    BY <1>3, <1>7, <2>1, FitsFewer DEF Fits
<1>10. Listable(b)
  <2>1. b.env.dialog = "None"
    BY <1>2, <1>6 DEF RecvEmptied, SameEnv
  <2> QED
    BY <1>8, <1>9, <2>1 DEF Listable
<1>11. Ready(b, s.mgr.clicked)
  BY <1>2, <1>6 DEF Ready, RecvEmptied
<1>12. ToSet(b.recvList.items) = {}
  BY <1>6, EmptyList DEF RecvEmptied
<1>13. Listable(c)
  <2>1. /\ s.env.allMsgs \in Seq(Listed) /\ Distinct(s.env.allMsgs)
        /\ ToSet(s.env.allMsgs) = ToSet(b.env.allMsgs)
    BY <1>2, <1>3, <1>7 DEF Listings
  <2> QED
    BY <1>10, <1>11, <1>12, <2>1, RelistAllSound DEF c
<1>14. Whole(c)
  BY <1>13 DEF Listable, Resting, Whole
<1>15. CASE c.mgr.clicked = NoMsg
  <2>1. t = [c EXCEPT !.recvList.row = NoRow]
    BY <1>1, <1>15
  <2> HIDE DEF d
  <2>2. c \in State /\ Sound(c) /\ c.mgr.selType = "None"
    BY <1>14, <1>15, WholeIs, SelectedIs
  <2>3. NoRow \in Int /\ NoRow \in Rows(c.recvList)
    BY <2>2, NoMsgIsNone, RowsOfLists
  <2>4. Sound(t) /\ RecvRowIs(t, c, NoRow)
    BY <2>1, <2>2, <2>3, RecvRowSound
  <2>5. Be(t, c.mgr, c.recvBar, c.sendBar, AtRow(c.recvList, NoRow), c.sendList, c.env)
    BY <2>1, <2>2, RecvClearedIs DEF RecvClearSelection
  <2>6. Selected(t)
    <3>1. Selected(c)
      BY <1>14, WholeIs
    <3> QED
      BY <2>2, <2>5, <3>1 DEF Selected, Be
  <2>7. RecvCounted(t) /\ SendCounted(t) /\ Sending(t) /\ Fits(t)
    BY <1>14, <2>4, KeptAgrees, WholeIs DEF RecvRowIs
  <2> QED
    BY <2>4, <2>6, <2>7 DEF Whole
<1>16. CASE c.mgr.clicked # NoMsg
  BY <1>1, <1>14, <1>16
<1> QED
  BY <1>15, <1>16

(* The buttons that choose the kinds of messages listed.                   *)
LEMMA UpdateRecvListModeKeeps ==
  ASSUME Whole(Now), UpdateRecvListMode
  PROVE  Whole(Now)'
<1> DEFINE s == Now
           mode(kind) == IF kind \in s.mgr.recvListMode THEN s.mgr.recvListMode \ {kind}
                         ELSE s.mgr.recvListMode \cup {kind}
<1>1. s.env.dialog = "None"
  BY NowIs DEF UpdateRecvListMode, User
<1>2. PICK kind \in ListedKinds :
        Become(RefreshRecvList([s EXCEPT !.mgr.recvListMode = mode(kind)]))
  BY DEF UpdateRecvListMode
<1> DEFINE a == [s EXCEPT !.mgr.recvListMode = mode(kind)]
           t == RefreshRecvList(a)
<1>3. Become(t)
  BY <1>2
<1> HIDE DEF s, t
<1>4. Whole(s)
  BY DEF s
<1>5. mode(kind) \in SUBSET ListedKinds
  <2>1. s.mgr.recvListMode \in SUBSET ListedKinds
    BY <1>4, WholeIs, Parts DEF Managers
  <2> QED
    BY <2>1
<1> HIDE DEF mode
<1>6. Whole(a) /\ a.env = s.env
  BY <1>4, <1>5, ModeWhole
<1> HIDE DEF a
<1>7. Whole(t)
  BY <1>1, <1>6, RefreshedWhole DEF t
<1> QED
  BY <1>3, <1>7, WholeIs, BecomeIs

-----------------------------------------------------------------------------
(* The windows as they are constructed.                                    *)
LEMMA InitWhole ==
  ASSUME Init
  PROVE  Whole(Now)
<1> DEFINE s == Now
<1>1. /\ s.mgr = [selType |-> "None", clicked |-> NoMsg, recvListCount |-> 0,
              sendListCount |-> 0, sendState |-> "Idle", recvRunning |-> TRUE,
              recvListMode |-> ListedKinds, displayed |-> NoMsg,
              pending |-> NoMsg, pendingWait |-> FALSE]
      /\ s.recvBar = [idx |-> NoRow, total |-> 0, sendState |-> "Idle"]
      /\ s.sendBar = [idx |-> NoRow, total |-> 0, state |-> "Idle"]
      /\ s.recvList = [items |-> <<>>, row |-> NoRow, selectOnAdd |-> TRUE]
      /\ s.sendList = [items |-> <<>>, row |-> NoRow, state |-> "Idle"]
      /\ s.env = [active |-> FALSE, applied |-> FALSE, running |-> FALSE,
              allMsgs |-> <<>>, toSend |-> 0,
              dialog |-> "None", dialogMsg |-> NoMsg, ok |-> TRUE]
  BY NowIs DEF Init
<1>2. s \in State
  <2>1. /\ s.mgr \in Managers /\ s.recvBar \in RecvBars /\ s.sendBar \in SendBars
        /\ s.recvList \in RecvLists /\ s.sendList \in SendLists
    BY <1>1, NoMsgIsNone
       DEF Managers, RecvBars, SendBars, RecvLists, SendLists, Selection, SendState
  <2>2. s.env \in Envs
    BY <1>1, NoMsgIsNone DEF Envs
  <2> QED
    BY <2>1, <2>2, NowIs DEF Now, State
<1> HIDE DEF s
<1>3. Listings(s)
  <2>1. Rows(s.recvList) = NoRow..(0 - 1) /\ Rows(s.sendList) = NoRow..(0 - 1)
    BY <1>1, EmptyList DEF Rows
  <2> QED
    BY <1>1, <2>1, EmptyList DEF Listings, NoRow
<1>4. Focus(s) /\ Dialogs(s) /\ Fine(s)
  BY <1>1 DEF Focus, Dialogs, Fine
<1>5. Selected(s)
  BY <1>1 DEF Selected
<1>6. RecvCounted(s) /\ SendCounted(s)
  BY <1>1, EmptyList DEF RecvCounted, SendCounted
<1>7. Sending(s) /\ Fits(s)
  BY <1>1, EmptyList, BoundsAssumption DEF Sending, Fits, Fit
<1>8. Whole(s)
  BY <1>2, <1>3, <1>4, <1>5, <1>6, <1>7 DEF Whole, Sound
<1> QED
  BY <1>8 DEF s

(* Every slot, timer and dialog.                                           *)
LEMMA NextKeeps ==
  ASSUME Whole(Now), [Next]_vars
  PROVE  Whole(Now)'
<1>1. CASE UNCHANGED vars
  <2>1. Now' = Now
    BY <1>1 DEF Now, vars
  <2> QED
    BY <2>1
<1>2. CASE RecvStartStop BY <1>2, RecvStartStopKeeps
<1>3. CASE RecvLoad BY <1>3, RecvLoadKeeps
<1>4. CASE RecvDup BY <1>4, RecvDupKeeps
<1>5. CASE RecvDelete BY <1>5, RecvDeleteKeeps
<1>6. CASE RecvClear BY <1>6, RecvClearKeeps
<1>7. CASE UpdateRecvListMode BY <1>7, UpdateRecvListModeKeeps
<1>8. CASE SendStart BY <1>8, SendStartKeeps
<1>9. CASE SendStop BY <1>9, SendStopKeeps
<1>10. CASE SendAdd BY <1>10, SendAddKeeps
<1>11. CASE SendLoad BY <1>11, SendLoadKeeps
<1>12. CASE SendEdit BY <1>12, SendEditKeeps
<1>13. CASE SendComment BY <1>13, SendCommentKeeps
<1>14. CASE RecvComment BY <1>14, RecvCommentKeeps
<1>15. CASE SendDoubleClick BY <1>15, SendDoubleClickKeeps
<1>16. CASE DialogDone BY <1>16, DialogDoneKeeps
<1>17. CASE SendDelete BY <1>17, SendDeleteKeeps
<1>18. CASE SendClearClicked BY <1>18, SendClearKeeps
<1>19. CASE SendMove BY <1>19, SendMoveIs
<1>20. CASE ClickRecv BY <1>20, ClickRecvKeeps
<1>21. CASE ClickSend BY <1>21, ClickSendKeeps
<1>22. CASE Apply BY <1>22, ApplyKeeps
<1>23. CASE MsgReceived BY <1>23, MsgReceivedKeeps
<1>24. CASE SendTimeout BY <1>24, SendTimeoutKeeps
<1>25. CASE PendingDisplayTimeout BY <1>25, PendingDisplayTimeoutKeeps
<1> QED
  BY <1>1, <1>2, <1>3, <1>4, <1>5, <1>6, <1>7, <1>8, <1>9, <1>10, <1>11, <1>12,
     <1>13, <1>14, <1>15, <1>16, <1>17, <1>18, <1>19, <1>20, <1>21, <1>22, <1>23,
     <1>24, <1>25 DEF Next

(* The invariant of the view application: between two events of the event  *)
(* loop its objects agree, whatever the user clicks, whatever arrives and  *)
(* whatever plugins fail, for any bounds on the lists and any kinds.       *)
THEOREM GuiInvariance == Spec => []IInv
<1>1. Init => IInv
  BY InitWhole DEF IInv
<1>2. IInv /\ [Next]_vars => IInv'
  BY NextKeeps DEF IInv
<1> QED
  BY <1>1, <1>2, PTL DEF Spec

(* The objects hold what their members are declared to hold, the current   *)
(* rows of the lists exist, and a dialog is one there is.                  *)
THEOREM GuiTypes == Spec => []TypeOK
<1>1. IInv => TypeOK
  <2> SUFFICES ASSUME Whole(Now) PROVE TypeOK
    BY DEF IInv
  <2>1. /\ Now \in State /\ Listings(Now) /\ Sending(Now)
        /\ Now.mgr \in Managers /\ Now.recvBar \in RecvBars /\ Now.sendBar \in SendBars
        /\ Now.recvList \in RecvLists /\ Now.sendList \in SendLists /\ Now.env \in Envs
    BY WholeIs, Parts
  <2>2. /\ mgr \in Managers /\ recvBar \in RecvBars /\ sendBar \in SendBars
        /\ recvList \in RecvLists /\ sendList \in SendLists /\ env \in Envs
        /\ recvList.row \in Rows(recvList) /\ sendList.row \in Rows(sendList)
        /\ env.toSend \in 0..MaxScript
    BY <2>1, NowIs DEF Listings, Sending
  <2>3. /\ mgr.selType \in Selection /\ mgr.clicked \in Listed \cup Scripts \cup {NoMsg}
        /\ mgr.recvListMode \in SUBSET ListedKinds /\ mgr.sendState \in SendState
    BY <2>2 DEF Managers, AnyMsg
  <2>4. /\ recvBar.sendState \in SendState /\ sendBar.state \in SendState
        /\ sendList.state \in SendState /\ recvList.items \in Seq(Listed)
        /\ sendList.items \in Seq(Scripts) /\ env.allMsgs \in Seq(Listed)
        /\ env.dialog \in {"None", "Edit", "Comment"}
    BY <2>2 DEF RecvBars, SendBars, RecvLists, SendLists, Envs
  <2> QED
    BY <2>2, <2>3, <2>4 DEF TypeOK
<1> QED
  BY <1>1, GuiInvariance, PTL

(* The manager, the two lists and the two toolbars agree on what is        *)
(* selected after every slot of GuiAppMgr, however the signals nest.       *)
THEOREM SelectionAgrees == Spec => []SelectionConsistent
<1>1. IInv => SelectionConsistent
  <2> SUFFICES ASSUME Whole(Now) PROVE SelectionConsistent
    BY DEF IInv
  <2>1. Selected(Now)
    BY WholeIs
  <2> QED
    BY <2>1, NowIs DEF Selected, Selects, SelectionConsistent, ListSelects
<1> QED
  BY <1>1, GuiInvariance, PTL

(* The counts in the manager and the toolbars are the lengths of the       *)
(* lists, and everybody has the same idea of what is being sent.           *)
THEOREM PartsOfViewAgree == Spec => []PartsAgree
<1>1. IInv => PartsAgree
  <2> SUFFICES ASSUME Whole(Now) PROVE PartsAgree
    BY DEF IInv
  <2>1. RecvCounted(Now) /\ SendCounted(Now) /\ Sending(Now)
    BY WholeIs
  <2>2. CountsAgree
    BY <2>1, NowIs DEF RecvCounted, SendCounted, CountsAgree
  <2>3. SendStatesAgree
    BY <2>1, NowIs DEF Sending, SendStatesAgree
  <2> QED
    BY <2>2, <2>3 DEF PartsAgree
<1> QED
  BY <1>1, GuiInvariance, PTL

(* What is displayed is the selected message as long as there is one, and  *)
(* no message that has arrived waits to replace it.                        *)
THEOREM SelectionStaysDisplayed == Spec => []SelectionIsDisplayed
<1>1. IInv => SelectionIsDisplayed
  <2> SUFFICES ASSUME Whole(Now) PROVE SelectionIsDisplayed
    BY DEF IInv
  <2>1. Focus(Now)
    BY WholeIs
  <2> QED
    BY <2>1, NowIs DEF Focus, SelectionIsDisplayed
<1> QED
  BY <1>1, GuiInvariance, PTL

(* No assertion of the application fails, in nested signals either, as     *)
(* long as plugins create what they promise. (Where they may not,          *)
(* applyNewPlugins asserts that a message manager is running that was      *)
(* never started.)                                                         *)
THEOREM AssertionsHold ==
  ASSUME ~PluginsMayFail
  PROVE  Spec => []AssertsHold
<1>1. IInv => AssertsHold
  <2> SUFFICES ASSUME Whole(Now) PROVE AssertsHold
    BY DEF IInv
  <2>1. Fine(Now)
    BY WholeIs
  <2> QED
    BY <2>1, NowIs DEF Fine, AssertsHold
<1> QED
  BY <1>1, GuiInvariance, PTL

(* A move keeps the selected message selected and loses no message, though *)
(* taking the item out of the list clicks another one.                     *)
THEOREM MovedStaysSelected == Spec => MoveKeepsSelection
<1>1. IInv /\ [Next]_vars =>
        [SendMove => /\ mgr'.clicked = mgr.clicked
                     /\ ToSet(sendList'.items) = ToSet(sendList.items)]_vars
  <2> SUFFICES ASSUME Whole(Now), SendMove
               PROVE  /\ mgr'.clicked = mgr.clicked
                      /\ ToSet(sendList'.items) = ToSet(sendList.items)
    BY DEF IInv
  <2>1. SendMoved(Now', Now)
    BY SendMoveIs
  <2>2. Now'.mgr = mgr' /\ Now'.sendList = sendList' /\ Now.mgr = mgr
        /\ Now.sendList = sendList
    BY DEF Now
  <2> QED
    BY <2>1, <2>2 DEF SendMoved
<1> QED
  BY <1>1, GuiInvariance, PTL DEF Spec, MoveKeepsSelection
=============================================================================
