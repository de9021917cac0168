---------------------------- MODULE MsgSendMgr ----------------------------
(* The message sending component, comms_champion/lib/src/MsgSendMgrImpl.   *)
(*                                                                         *)
(* The messages still to be sent are kept in a list in which every message *)
(* holds its delay relative to the previous one, and one single-shot timer *)
(* runs for the first of them. When it expires the leading messages with   *)
(* no delay left are handed to the client, those to be repeated are put    *)
(* back where their period places them, and the timer is started for the   *)
(* new front. The client's send callback may report an error, and the      *)
(* dialog that displays it runs an event loop of its own in which the      *)
(* timer expires again: sendPendingAndWait is then re-entered before the   *)
(* earlier invocation has looked at the list a second time.                *)
(*                                                                         *)
(* A message is abstracted to its identity and the three properties the    *)
(* scheduling reads. Time is the nominal time of the timer: a timeout      *)
(* delivered late shifts what follows, as in the code, and is not modelled *)
(* otherwise.                                                              *)
EXTENDS Integers, Sequences

CONSTANTS
    Ids,            \* the identities of messages
    Scripts,        \* the lists of messages a client may start
    IntMax,         \* the largest int, the type QTimer takes milliseconds in
    MaxNesting      \* bound on the send callbacks in progress at a time

Message == [id : Ids, delay : Nat, repeat : Nat, count : Nat]

(* Delays are unsigned 64-bit milliseconds, of which the timer takes an    *)
(* int: the promises below are for scripts whose durations fit.            *)
Fits(m) == m.delay <= IntMax /\ m.repeat <= IntMax

ASSUME IntMaxAssumption == IntMax \in Nat
ASSUME NestingAssumption == MaxNesting \in Nat \ {0}
ASSUME ScriptsAssumption ==
    \A script \in Scripts : /\ script \in Seq(Message) \ {<<>>}
                            /\ \A i \in DOMAIN script : Fits(script[i])

VARIABLES
    m_msgsToSend,   \* the list: each delay counts from the previous message
    m_protocol,     \* whether the protocol that clones messages is held
    m_timer,        \* milliseconds the timer has to run, NotRunning if none
    callbacks,      \* the send callbacks in progress, nested event loops
    handed,         \* ids given to the send callback by the latest step
    phase,          \* what the client has last asked for or been told
    script          \* what start() was given for the sending in progress

vars ==
    <<m_msgsToSend, m_protocol, m_timer, callbacks, handed, phase, script>>

NotRunning == -1

(* static_cast<int>(delay) on a two's complement machine.                  *)
ToInt(ms) == ((ms + IntMax + 1) % (2 * (IntMax + 1))) - (IntMax + 1)

(* QTimer::start: an interval below zero leaves the timer stopped.         *)
TimerStart(interval) == IF interval < 0 THEN NotRunning ELSE interval

-----------------------------------------------------------------------------
(* sendPendingAndWait, up to its callbacks.                                *)

(* The number of leading messages whose delay is zero.                     *)
ReadyCount(list) ==
    CHOOSE n \in 0..Len(list) :
        /\ \A i \in 1..n : list[i].delay = 0
        /\ n < Len(list) => list[n + 1].delay # 0

(* The time from now until the first i messages of the list are sent: what *)
(* std::find_if has subtracted from newDelay after looking at i messages.  *)
Elapsed(list) ==
    LET sum[i \in 0..Len(list)] ==
            IF i = 0 THEN 0 ELSE sum[i - 1] + list[i].delay
    IN  sum

(* Mutant: a repeated message goes before those due at the same time.      *)
ReinsertIter_BeforeEqual(list, repeat) ==
    CHOOSE i \in 1..(Len(list) + 1) :
        /\ i <= Len(list) => repeat <= Elapsed(list)[i]
        /\ \A j \in 1..(i - 1) : Elapsed(list)[j] < repeat

(* The first message that goes later than a period from now, or the end.   *)
ReinsertIter(list, repeat) ==
    CHOOSE i \in 1..(Len(list) + 1) :
        /\ i <= Len(list) => repeat < Elapsed(list)[i]
        /\ \A j \in 1..(i - 1) : Elapsed(list)[j] <= repeat

(* Mutants: a period of zero counts as one; the last repetition is off by  *)
(* one, and the count it leaves behind means for ever.                     *)
IsRepeated_ZeroPeriod(m) == m.count = 0 \/ 1 < m.count
IsRepeated_OneMore(m) == 0 < m.repeat /\ (m.count = 0 \/ 0 < m.count)

IsRepeated(m) == 0 < m.repeat /\ (m.count = 0 \/ 1 < m.count)

Requeued(m, newDelay) ==
    [m EXCEPT !.delay = newDelay, !.count = IF @ = 0 THEN 0 ELSE @ - 1]

(* Mutant: the message after the insertion keeps its delay.                *)
Reinsert_NoUpdate(list, m) ==
    LET at       == ReinsertIter(list, m.repeat)
        newDelay == m.repeat - Elapsed(list)[at - 1]
    IN  SubSeq(list, 1, at - 1) \o <<Requeued(m, newDelay)>>
            \o SubSeq(list, at, Len(list))

Reinsert(list, m) ==
    LET at       == ReinsertIter(list, m.repeat)
        newDelay == m.repeat - Elapsed(list)[at - 1]
        before   == SubSeq(list, 1, at - 1)
        after    == [i \in 1..(Len(list) - at + 1) |->
                        IF i = 1
                        THEN [list[at] EXCEPT !.delay = @ - newDelay]
                        ELSE list[at + i - 1]]
    IN  before \o <<Requeued(m, newDelay)>> \o after

(* The loop over the messages being sent; without a protocol no message    *)
(* can be cloned and none goes back.                                       *)
ReinsertAll(list, sent, protocol) ==
    LET done[i \in 0..Len(sent)] ==
            IF i = 0 THEN list
            ELSE IF IsRepeated(sent[i]) /\ protocol
                 THEN Reinsert(done[i - 1], sent[i])
                 ELSE done[i - 1]
    IN  done[Len(sent)]

Sent(list) == SubSeq(list, 1, ReadyCount(list))
Rest(list) == SubSeq(list, ReadyCount(list) + 1, Len(list))

(* What is left to send once the ready messages have been taken out.       *)
Remaining(list, protocol) == ReinsertAll(Rest(list), Sent(list), protocol)

SendPendingAndWait(list, protocol) ==
    LET left == Remaining(list, protocol)
    IN  /\ m_msgsToSend' = IF left = <<>> THEN <<>>
                           ELSE [left EXCEPT ![1].delay = 0]
        /\ m_timer' = IF left = <<>> THEN NotRunning
                      ELSE TimerStart(ToInt(left[1].delay))
        /\ handed' = [i \in 1..ReadyCount(list) |-> list[i].id]
        /\ callbacks' = IF Sent(list) = <<>> THEN callbacks ELSE callbacks + 1
        /\ m_protocol' = protocol

-----------------------------------------------------------------------------
Init ==
    /\ m_msgsToSend = <<>>
    /\ m_protocol = FALSE
    /\ m_timer = NotRunning
    /\ callbacks = 0
    /\ handed = <<>>
    /\ phase = "stopped"
    /\ script = <<>>

(* start(): the client has stopped the previous sending first, and starts  *)
(* nothing while a dialog is open.                                         *)
Start ==
    /\ callbacks = 0
    /\ m_msgsToSend = <<>>
    /\ script' \in Scripts
    /\ SendPendingAndWait(script', TRUE)
    /\ phase' = "sending"

(* Mutant: the timer is left running.                                      *)
Stop_TimerRuns ==
    /\ callbacks = 0
    /\ m_protocol' = FALSE
    /\ m_msgsToSend' = <<>>
    /\ handed' = <<>>
    /\ phase' = "stopped"
    /\ script' = <<>>
    /\ UNCHANGED <<callbacks, m_timer>>

(* stop(), asked for by the user.                                          *)
Stop ==
    /\ callbacks = 0
    /\ m_timer' = NotRunning
    /\ m_protocol' = FALSE
    /\ m_msgsToSend' = <<>>
    /\ handed' = <<>>
    /\ phase' = "stopped"
    /\ script' = <<>>
    /\ UNCHANGED callbacks

(* A millisecond passes.                                                   *)
Tick ==
    /\ 0 < m_timer
    /\ m_timer' = m_timer - 1
    /\ handed' = <<>>
    /\ UNCHANGED <<m_msgsToSend, m_protocol, callbacks, phase, script>>

(* The timeout signal calls sendPendingAndWait, inside the event loop of a *)
(* dialog if a send callback is in progress.                               *)
Timeout ==
    /\ m_timer = 0
    /\ callbacks < MaxNesting
    /\ SendPendingAndWait(m_msgsToSend, m_protocol)
    /\ UNCHANGED <<phase, script>>

(* The send callback returns while there is more to be sent.               *)
SendReturns ==
    /\ 0 < callbacks
    /\ m_msgsToSend # <<>>
    /\ callbacks' = callbacks - 1
    /\ UNCHANGED <<m_msgsToSend, m_protocol, m_timer, handed, phase, script>>

(* The send callback returns to an empty list, and the completion callback *)
(* is invoked: the view's stops the sending, the dump tool's does not.     *)
SendReturnsLast ==
    /\ 0 < callbacks
    /\ m_msgsToSend = <<>>
    /\ callbacks' = callbacks - 1
    /\ \/ /\ phase' = "stopped"
          /\ m_timer' = NotRunning
          /\ m_protocol' = FALSE
       \/ /\ phase' = "completed"
          /\ UNCHANGED <<m_timer, m_protocol>>
    /\ script' = <<>>
    /\ UNCHANGED <<m_msgsToSend, handed>>

Next ==
    \/ Start
    \/ Stop
    \/ Tick
    \/ Timeout
    \/ SendReturns
    \/ SendReturnsLast

(* The event loop delivers an expired timer, and a dialog is closed in the *)
(* end; nobody has to start or stop anything.                              *)
Fairness ==
    /\ WF_vars(Tick)
    /\ WF_vars(Timeout)
    /\ WF_vars(SendReturns \/ SendReturnsLast)

Spec == Init /\ [][Next]_vars /\ Fairness

-----------------------------------------------------------------------------
TypeOK ==
    /\ m_msgsToSend \in Seq(Message)
    /\ m_protocol \in BOOLEAN
    /\ m_timer \in {NotRunning} \cup 0..IntMax
    /\ callbacks \in 0..MaxNesting
    /\ handed \in Seq(Ids)
    /\ phase \in {"stopped", "sending", "completed"}
    /\ script \in Scripts \cup {<<>>}

(* Nothing is stranded: as long as messages are waiting the timer runs for *)
(* the front one, whose own delay is spent, and the protocol that will     *)
(* clone the repeated ones is held; and a running timer has something to   *)
(* send. This is what the list, the timer and the protocol must agree on   *)
(* whenever sendPendingAndWait, start or stop has returned or is inside a  *)
(* callback.                                                               *)
NothingStranded ==
    /\ m_msgsToSend # <<>> => /\ m_timer # NotRunning
                              /\ m_protocol
                              /\ m_msgsToSend[1].delay = 0
    /\ m_msgsToSend = <<>> => m_timer = NotRunning

(* assert(0 < delay) of sendPendingAndWait: as long as the messages just   *)
(* handed over are the latest that happened, the timer runs for later      *)
(* ones; whatever was put back before the front of the list, no timer is   *)
(* started for no time at all.                                             *)
WaitsForLater == handed # <<>> /\ m_msgsToSend # <<>> => 0 < m_timer

(* A script without endless repetition is sent to its end and the client   *)
(* is told, unless it stops the sending before.                            *)
Endless == \E i \in DOMAIN m_msgsToSend : /\ 0 < m_msgsToSend[i].repeat
                                         /\ m_msgsToSend[i].count = 0
FiniteScriptCompletes ==
    (phase = "sending" /\ ~Endless) ~> (phase # "sending")

(* No message waits for ever behind ones repeated more often: whatever is  *)
(* in the list goes out, unless the client stops the sending.              *)
Waiting(id)  == \E i \in DOMAIN m_msgsToSend : m_msgsToSend[i].id = id
WasSent(id)  == \E i \in DOMAIN handed : handed[i] = id
NoneStarves ==
    \A id \in Ids : Waiting(id) ~> (WasSent(id) \/ phase # "sending")

(* The calendar a list stands for, of which the first message waits for    *)
(* start before its own delay counts: each is due when the delays up to    *)
(* its own have passed.                                                    *)
CalendarOf(list, start) ==
    [i \in DOMAIN list |->
        [msg    |-> list[i].id,     due   |-> start + Elapsed(list)[i],
         period |-> list[i].repeat,
         times  |-> IF list[i].repeat = 0 THEN 1 ELSE list[i].count]]

(* The list and the timer together: nothing is due before it expires.      *)
CalendarOfList == CalendarOf(m_msgsToSend, m_timer)

(* Every message goes out exactly when the script places it, as many times *)
(* as it asks for, those due together in one batch and in order, whatever  *)
(* the interleaving of timeouts, callbacks and stops.                      *)
Promise == INSTANCE SendSchedule WITH calendar <- CalendarOfList
KeepsSchedule == Promise!Spec
=============================================================================
