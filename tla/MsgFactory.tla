----------------------------- MODULE MsgFactory -----------------------------
(* The life of a message object in the comms library: MsgFactory looks up  *)
(* its type and allocates it, MsgIdLayer reads it as one type after the    *)
(* other of those with its id, processSingleWithDispatch hands it to a     *)
(* handler and the deleter of its smart pointer destroys it. Except for a  *)
(* virtual function or destructor, each of them casts the message to the   *)
(* type that a search of its own finds for the id and the index.           *)
(* Sources: comms/include/comms: details/MsgFactoryBase.h, util/alloc.h,   *)
(* protocol/MsgIdLayer.h, process.h, dispatch.h.                           *)
EXTENDS Dispatch

CONSTANTS
    Ptrs,           \* the smart pointers of the user
    FactoryTuples   \* the tuples of Tuples that a factory is used with

ASSUME FactoryAssumption == FactoryTuples \subseteq Tuples

VARIABLES
    options,    \* of the factory and the interface, see Options
    msg,        \* the message each pointer holds
    allocated,  \* InPlaceSingle::allocated_
    job,        \* the function that runs
    answer,     \* what the read before this state has returned
    cast        \* the last cast of a message: to which type, from which

factoryVars == <<options, msg, allocated, job, answer, cast>>
vars        == <<searchVars, factoryVars>>

(* inPlace: option InPlaceAllocation; virtual: the interface has a virtual *)
(* destructor and read(); generic: option SupportGenericMessage; create:   *)
(* the way createMsg finds the type (forced, or the default; to force the  *)
(* linear switch means the binary search as well).                         *)
Options == [inPlace : BOOLEAN, virtual : BOOLEAN, generic : BOOLEAN,
            create : {"StaticBinSearch", "Polymorphic"}]

(* The type of a GenericMessage, and of anything not in the tuple.         *)
Generic == NotFound

Empty   == [made |-> Generic, id |-> -1, idx |-> 0]
Held(p) == msg[p] # Empty

(* What else the next layers may say than Success.                         *)
Failures == {"NotEnoughData", "InvalidMsgData"}

NoJob    == [pc |-> "none", ptr |-> "none", id |-> 0, idx |-> 0,
             es |-> "InvalidMsgId", reading |-> FALSE]
NoAnswer == [es |-> "none", ptr |-> "none", id |-> 0, idx |-> 0]
NoCast   == [to |-> Generic, made |-> Generic]

(* The search of the job has ended.                                        *)
Found(pc) == job.pc = pc /\ phase = "done"

-----------------------------------------------------------------------------
(* Bound: without a factory its options do not matter.                     *)
FactoryInit ==
    /\ options \in Options
    /\ ids \notin FactoryTuples =>
         options = CHOOSE o \in Options : TRUE
    /\ msg = [p \in Ptrs |-> Empty]
    /\ allocated = FALSE
    /\ job = NoJob /\ answer = NoAnswer /\ cast = NoCast

(* The user has a message read into an empty pointer (processSingle), or   *)
(* created by its id and index.                                            *)
Create(p, i, k, reading) ==
    /\ job = NoJob /\ phase = "idle" /\ ~Held(p) /\ ids \in FactoryTuples
    /\ Start(options.create, "Type", i, k)
    /\ job' = [NoJob EXCEPT !.pc = "create", !.ptr = p, !.id = i, !.idx = k,
                            !.reading = reading]
    /\ answer' = NoAnswer /\ cast' = NoCast
    /\ UNCHANGED <<options, msg, allocated>>

(* The allocator: in place there is room for one message.                  *)
Room == ~(options.inPlace /\ allocated)

Allocate(type) ==
    /\ msg' = [msg EXCEPT ![job.ptr] = [made |-> type, id |-> job.id,
                                        idx |-> job.idx]]
    /\ allocated' = (options.inPlace \/ allocated)

(* Mutant: the deleter does not give the storage back.                     *)
Free_KeepsPlace(p) ==
    /\ msg' = [msg EXCEPT ![p] = Empty]
    /\ UNCHANGED allocated

Free(p) ==
    /\ msg' = [msg EXCEPT ![p] = Empty]
    /\ allocated' = FALSE

(* The function returns; read says what came of it.                        *)
Finish(es) ==
    /\ job' = NoJob
    /\ answer' = IF job.reading
                 THEN [es |-> es, ptr |-> job.ptr, id |-> job.id, idx |-> job.idx]
                 ELSE NoAnswer

(* createMsg has found the type and allocates the message; to read it, the *)
(* type is looked up again unless read() is virtual.                       *)
Created ==
    /\ Found("create") /\ result # NotFound /\ Room
    /\ Allocate(result)
    /\ IF ~job.reading THEN Got /\ Finish("Success")
       ELSE /\ UNCHANGED answer
            /\ IF options.virtual THEN Got /\ job' = [job EXCEPT !.pc = "read"]
               ELSE /\ Start("StaticBinSearch", "Type", job.id, job.idx)
                    /\ job' = [job EXCEPT !.pc = "cast"]
    /\ UNCHANGED <<options, cast>>

NotAllocated ==
    /\ Found("create") /\ result # NotFound /\ ~Room
    /\ Got /\ Finish("MsgAllocFailure")
    /\ UNCHANGED <<options, msg, allocated, cast>>

(* There is no type, or no other type, with the id: where it is supported, *)
(* a GenericMessage is to take the data. That it cannot be allocated is not*)
(* told: the error is still that of the last type tried.                   *)
NotCreated ==
    /\ Found("create") /\ result = NotFound
    /\ ~(job.reading /\ options.generic /\ Room)
    /\ Got /\ Finish(job.es)
    /\ UNCHANGED <<options, msg, allocated, cast>>

(* What the next layer says of the GenericMessage is returned, and the     *)
(* message stays in the pointer, also if it could not be read.             *)
CreateAndReadGenericMsg ==
    /\ Found("create") /\ result = NotFound
    /\ job.reading /\ options.generic /\ Room
    /\ Allocate(Generic)
    /\ \E es \in {"Success"} \cup Failures : Finish(es)
    /\ Got
    /\ UNCHANGED <<options, cast>>

CastToRead ==
    /\ Found("cast")
    /\ Got
    /\ cast' = [to |-> result, made |-> msg[job.ptr].made]
    /\ job' = [job EXCEPT !.pc = "read"]
    /\ UNCHANGED <<options, msg, allocated, answer>>

ReadSucceeds ==
    /\ job.pc = "read"
    /\ Finish("Success")
    /\ UNCHANGED <<searchVars, options, msg, allocated, cast>>

(* Mutant: the message that could not be read is kept.                     *)
ReadFails_Keeps ==
    /\ job.pc = "read"
    /\ \E es \in Failures :
         job' = [job EXCEPT !.pc = "create", !.idx = @ + 1, !.es = es]
    /\ Start(options.create, "Type", job.id, job.idx + 1)
    /\ UNCHANGED <<options, msg, allocated, answer, cast>>

(* The next layer cannot read this type: the message is destroyed and the  *)
(* next type with the id is tried.                                         *)
ReadFails ==
    /\ job.pc = "read"
    /\ \E es \in Failures :
         IF options.virtual
         THEN /\ Free(job.ptr)
              /\ Start(options.create, "Type", job.id, job.idx + 1)
              /\ job' = [job EXCEPT !.pc = "create", !.idx = @ + 1, !.es = es]
         ELSE /\ Start("StaticBinSearch", "Type", job.id, job.idx)
              /\ job' = [job EXCEPT !.pc = "destroy", !.es = es]
              /\ UNCHANGED <<msg, allocated>>
    /\ UNCHANGED <<options, answer, cast>>

(* NoVirtualDestructorDeleter: the message is destroyed as what is found.  *)
DestroyedUnread ==
    /\ Found("destroy")
    /\ cast' = [to |-> result, made |-> msg[job.ptr].made]
    /\ Free(job.ptr)
    /\ Start(options.create, "Type", job.id, job.idx + 1)
    /\ job' = [job EXCEPT !.pc = "create", !.idx = @ + 1]
    /\ UNCHANGED <<options, answer>>

(* Mutant: the deleter knows the id only.                                  *)
Release_FirstOfId(p) ==
    /\ job = NoJob /\ phase = "idle" /\ Held(p)
    /\ Start("StaticBinSearch", "Type", msg[p].id, 0)
    /\ job' = [NoJob EXCEPT !.pc = "release", !.ptr = p]
    /\ answer' = NoAnswer /\ cast' = NoCast
    /\ UNCHANGED <<options, msg, allocated>>

(* The user lets go of a message.                                          *)
Release(p) ==
    /\ job = NoJob /\ phase = "idle" /\ Held(p)
    /\ IF options.virtual
       THEN Free(p) /\ UNCHANGED <<searchVars, job>>
       ELSE /\ Start("StaticBinSearch", "Type", msg[p].id, msg[p].idx)
            /\ job' = [NoJob EXCEPT !.pc = "release", !.ptr = p]
            /\ UNCHANGED <<msg, allocated>>
    /\ answer' = NoAnswer /\ cast' = NoCast
    /\ UNCHANGED options

Released ==
    /\ Found("release")
    /\ cast' = [to |-> result, made |-> msg[job.ptr].made]
    /\ Free(job.ptr)
    /\ Got /\ Finish("none")
    /\ UNCHANGED options

(* dispatchMsg with the id and the index that were read.                   *)
Handle(p) ==
    /\ job = NoJob /\ phase = "idle" /\ Held(p)
    /\ Start(IF DirectSuitable THEN "Polymorphic" ELSE "StaticBinSearch",
             "Type", msg[p].id, msg[p].idx)
    /\ job' = [NoJob EXCEPT !.pc = "handle", !.ptr = p]
    /\ answer' = NoAnswer /\ cast' = NoCast
    /\ UNCHANGED <<options, msg, allocated>>

Handled ==
    /\ Found("handle")
    /\ cast' = [to |-> result, made |-> msg[job.ptr].made]
    /\ Got /\ Finish("none")
    /\ UNCHANGED <<options, msg, allocated>>

-----------------------------------------------------------------------------
(* Bound: the functions of dispatch.h are called directly only while no    *)
(* message is held, for they share nothing with the factory.               *)
CallDirectly ==
    /\ job = NoJob /\ \A p \in Ptrs : ~Held(p)
    /\ answer = NoAnswer /\ cast = NoCast
    /\ Call \/ Got
    /\ UNCHANGED factoryVars

(* Bound: messages are created with the indices up to MaxOffset.           *)
UserCalls ==
    \E p \in Ptrs :
        \/ \E i \in MsgIds : Create(p, i, 0, TRUE)
        \/ \E i \in MsgIds, k \in 0..MaxOffset : Create(p, i, k, FALSE)
        \/ Release(p) \/ Handle(p)

FactoryStep ==
    \/ SearchStep /\ UNCHANGED factoryVars
    \/ Created \/ NotAllocated \/ NotCreated \/ CreateAndReadGenericMsg
    \/ CastToRead \/ ReadSucceeds \/ ReadFails \/ DestroyedUnread
    \/ Released \/ Handled

Init == SearchInit /\ FactoryInit
Next == CallDirectly \/ UserCalls \/ FactoryStep

(* The library runs in its caller's thread: what was called goes on.       *)
Spec == Init /\ [][Next]_vars /\ WF_vars(FactoryStep)

-----------------------------------------------------------------------------
TypeOK ==
    /\ SearchTypeOK
    /\ options \in Options
    /\ msg \in [Ptrs -> [made : Int, id : Int, idx : Nat]]
    /\ allocated \in BOOLEAN
    /\ job.pc \in {"none", "create", "cast", "read", "destroy", "release",
                   "handle"}
    /\ answer.es \in Failures \cup {"none", "Success", "InvalidMsgId",
                                   "MsgAllocFailure"}

(* To read, to handle and to destroy a message, it is cast to the type it  *)
(* was created as, although every time another search says what that is.   *)
CastsAreRight == cast.to = cast.made

(* In place, the storage is taken exactly while a message lives in it, and *)
(* it has one message at a time; whoever gives it back can have it again.  *)
PlaceIsAccounted ==
    options.inPlace =>
        /\ allocated <=> \E p \in Ptrs : Held(p)
        /\ \A p, q \in Ptrs : Held(p) /\ Held(q) => p = q

(* What read answers is true. On success there is a message, and a message *)
(* that there is is the one with the id and the index that were told: of   *)
(* the type that has them, read without an error, or a GenericMessage as no*)
(* type has them. (Only the GenericMessage may be there in spite of an     *)
(* error, against the @post of doRead that promises a message if and only  *)
(* if it succeeds.) Allocation fails only for a type that exists, and only *)
(* because another message is in the place. An id is invalid only if no    *)
(* type has it, and any other error comes after all types of the id were   *)
(* tried; then, too, a GenericMessage would have been made but for another *)
(* message in the place (where page_prot_stack.dox:194 promises            *)
(* MsgAllocFailure).                                                       *)
AnswersTruthfully ==
    LET held  == Held(answer.ptr)
        m     == msg[answer.ptr]
        taken == options.inPlace /\ \E p \in Ptrs \ {answer.ptr} : Held(p)
    IN  answer # NoAnswer =>
            /\ answer.es = "Success" => held
            /\ held =>
                 /\ m.id = answer.id /\ m.idx = answer.idx
                 /\ IF m.made = Generic
                    THEN options.generic /\ NoType(answer.id, answer.idx)
                    ELSE /\ answer.es = "Success"
                         /\ IsTheType(m.made, answer.id, answer.idx)
            /\ answer.es = "MsgAllocFailure" =>
                 ~held /\ taken /\ ~NoType(answer.id, answer.idx)
            /\ answer.es = "InvalidMsgId" => ~held /\ NoType(answer.id, 0)
            /\ answer.es \in Failures /\ ~held =>
                 /\ NoType(answer.id, answer.idx)
                 /\ ~NoType(answer.id, answer.idx - 1)
            /\ answer.es # "MsgAllocFailure" /\ ~held /\ options.generic => taken

(* Every function that was called returns, and every search ends: there are*)
(* not for ever types to try, and no instantiation calls itself.           *)
EveryCallReturns ==
    job # NoJob \/ phase # "idle" ~> job = NoJob /\ phase \in {"idle", "done"}
=============================================================================
