--------------------------- MODULE SendSchedule ---------------------------
(* What the message sending component promises its client, with no timer,  *)
(* no list of relative delays and no callback nesting: a calendar of the   *)
(* messages still to be sent, each with the time left until it is due.     *)
(*                                                                         *)
(* A script is the list of messages a client asks to have sent: each one   *)
(* names its delay after the previous one, the period of its repetition    *)
(* and how many times it goes out (0: for ever).                           *)
EXTENDS Integers, Sequences

CONSTANT Scripts        \* the scripts a client may ask for

VARIABLES
    calendar,   \* entries [msg, due, period, times], soonest first
    handed,     \* the messages handed to the client by the latest step
    phase,      \* "stopped", "sending" or "completed"
    script      \* the script being sent, <<>> if none

vars == <<calendar, handed, phase, script>>

(* A message that is not repeated goes out once whatever its count says.   *)
Times(m) == IF m.repeat = 0 THEN 1 ELSE m.count

(* A message is due once its own delay and those of all the messages       *)
(* before it in the script have passed.                                    *)
DueTimes(msgs) ==
    LET due[i \in 0..Len(msgs)] ==
            IF i = 0 THEN 0 ELSE due[i - 1] + msgs[i].delay
    IN  due

Planned(msgs) ==
    [i \in DOMAIN msgs |->
        [msg    |-> msgs[i].id,     due   |-> DueTimes(msgs)[i],
         period |-> msgs[i].repeat, times |-> Times(msgs[i])]]

(* How many entries of a calendar are due by a time: they come first.      *)
DueBy(entries, time) ==
    CHOOSE n \in 0..Len(entries) :
        \A i \in DOMAIN entries : entries[i].due <= time <=> i <= n

First(entries, n) == SubSeq(entries, 1, n)
After(entries, n) == SubSeq(entries, n + 1, Len(entries))

(* Entries due at the same time keep the order in which they were planned. *)
Plan(entries, e) ==
    First(entries, DueBy(entries, e.due))
        \o <<e>> \o After(entries, DueBy(entries, e.due))

(* A message that has gone out is planned again one period later, unless   *)
(* that was the last time.                                                 *)
PlanAgain(entries, sent) ==
    IF sent.times = 1
    THEN entries
    ELSE Plan(entries, [sent EXCEPT !.due   = sent.period,
                                    !.times = IF @ = 0 THEN 0 ELSE @ - 1])

PlanAllAgain(entries, sent) ==
    LET planned[i \in 0..Len(sent)] ==
            IF i = 0 THEN entries ELSE PlanAgain(planned[i - 1], sent[i])
    IN  planned[Len(sent)]

Due(entries)   == First(entries, DueBy(entries, 0))
Later(entries) == After(entries, DueBy(entries, 0))

(* Everything due now is handed over together, in the calendar's order.    *)
Release(entries) ==
    /\ handed' = [i \in DOMAIN Due(entries) |-> Due(entries)[i].msg]
    /\ calendar' = PlanAllAgain(Later(entries), Due(entries))

Passed(entries, time) ==
    [i \in DOMAIN entries |-> [entries[i] EXCEPT !.due = @ - time]]
-----------------------------------------------------------------------------
Init ==
    /\ calendar = <<>>
    /\ handed = <<>>
    /\ phase = "stopped"
    /\ script = <<>>

Start ==
    /\ calendar = <<>>
    /\ script' \in Scripts
    /\ Release(Planned(script'))
    /\ phase' = "sending"

(* Time passes, but never beyond the moment the next message is due.       *)
Wait ==
    /\ calendar # <<>>
    /\ Head(calendar).due > 0
    /\ calendar' = Passed(calendar, 1)
    /\ handed' = <<>>
    /\ UNCHANGED <<phase, script>>

(* The next message is due: it goes out, with all that are due with it.    *)
Deliver ==
    /\ calendar # <<>>
    /\ Head(calendar).due = 0
    /\ Release(calendar)
    /\ UNCHANGED <<phase, script>>

(* Completion is reported only when nothing is left to be sent; the client *)
(* may take the report as the occasion to stop.                            *)
Complete ==
    /\ calendar = <<>>
    /\ phase' \in {"completed", "stopped"}
    /\ script' = <<>>
    /\ UNCHANGED <<calendar, handed>>

Stop ==
    /\ calendar' = <<>>
    /\ handed' = <<>>
    /\ phase' = "stopped"
    /\ script' = <<>>

Next == Start \/ Wait \/ Deliver \/ Complete \/ Stop

Spec == Init /\ [][Next]_vars
=============================================================================
