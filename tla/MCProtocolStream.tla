-------------------------- MODULE MCProtocolStream --------------------------
(* Instances of ProtocolStream for TLC: bytes with few values, and three   *)
(* message types of which two share an id and differ in the value of their *)
(* field. The last message sent has a value neither of them accepts.       *)
EXTENDS ProtocolStream

MCAllMessages == << [id |-> 0, fields |-> <<>>],
                    [id |-> 1, fields |-> <<{0}>>],
                    [id |-> 1, fields |-> <<{1}>>] >>

MCOutgoing == { [type |-> 1, payload |-> <<>>],
                [type |-> 2, payload |-> <<0>>],
                [type |-> 3, payload |-> <<1>>],
                [type |-> 3, payload |-> <<2>>] }

MCTyped    == { <<>>, <<0>>, <<3>>, <<3, 1, 0, 1>> }

(* Noise that begins like a message, and typing; or noise that does not.   *)
MCDisturbed == { [noise |-> 1..3, typed |-> MCTyped, maxBytes |-> 8] }
MCHarmless  == { [noise |-> {0, 1}, typed |-> {}, maxBytes |-> 10] }
MCAround    == MCDisturbed \cup MCHarmless

(* What SentIsReceived needs of the messages the other tool sends.         *)
ASSUME MCRecognised == Recognised
=============================================================================
