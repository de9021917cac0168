---------------------------- MODULE MCMsgFactory ----------------------------
(* Instances of MsgFactory: every sorted tuple of up to five types with few*)
(* and with scattered ids for the searches, some of them for the factory.  *)
EXTENDS MsgFactory

SortedOver(S) ==
    UNION { { t \in [1..n -> S] : WeakSorted(t) } : n \in 0..5 }

AllTuples == SortedOver({1, 2, 30}) \cup SortedOver({0, 1, 2, 3})

MCTuples == { t \in AllTuples : Dispatchable(t) }

(* Any number of types may share an id.                                    *)
MCAnyTuples == AllTuples

MCFactoryTuples ==
    { t \in MCTuples : \/ t \in { <<>>, <<1, 30>>, <<1, 1, 2>>, <<1, 2, 2>> }
                       \/ t = <<1, 1, 1, 30>> }
=============================================================================
