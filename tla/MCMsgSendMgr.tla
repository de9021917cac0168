--------------------------- MODULE MCMsgSendMgr ---------------------------
(* Instances of MsgSendMgr for TLC: every script of at most three messages *)
(* whose delays, periods and counts come from small ranges. A message is   *)
(* identified by its place in the script.                                  *)
EXTENDS MsgSendMgr

CONSTANTS Delays, Repeats, Counts

MCIds == 1..3

MessageAt(i) == [id : {i}, delay : Delays, repeat : Repeats, count : Counts]

OneMessage    == { <<a>> : a \in MessageAt(1) }
TwoMessages   == { <<a, b>> : a \in MessageAt(1), b \in MessageAt(2) }

(* Of the scripts with three messages those with a short or a long period, *)
(* all but the second of them being repeated once at most.                 *)
AmongThree(i, counts) ==
    [id : {i}, delay : {0, 2}, repeat : {0, 1, 3}, count : counts]
ThreeMessages == { <<a, b, c>> : a \in AmongThree(1, {2}),
                                 b \in AmongThree(2, {0}),
                                 c \in AmongThree(3, {2}) }

MCScripts == OneMessage \cup TwoMessages \cup ThreeMessages
=============================================================================
