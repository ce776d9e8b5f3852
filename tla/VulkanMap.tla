------------------------------ MODULE VulkanMap ------------------------------
(***************************************************************************)
(* What an application sees: VulkanMap (src/VulkanMap.hpp, .cpp, .inl),    *)
(* composed with the processor it reads a document with.                   *)
(*                                                                         *)
(* The constructor calls process(), drops its result and copies the error  *)
(* flags.  It keeps the address of the processor's map of structs, which   *)
(* get() reads: a second VulkanMap made with the same processor sees, and  *)
(* changes, the same structs.                                              *)
(***************************************************************************)
EXTENDS XmlProcessorProperties

CONSTANT NullPointer    \* std::any_cast of a struct of another type

ASSUME NullPointerIsNone == NullPointer \notin Content

VARIABLE errorState     \* the flags the VulkanMap made last has copied

mapVars == <<vars, errorState>>

MapInit == Init /\ errorState = {}

\* The constructor: its call of process() starts ...
ConstructorStarts == StartProcess /\ UNCHANGED errorState

ProcessReturns == FinishProcess \/ LoadFails

\* Mutant of ConstructorEnds: the flags are copied before process() is called.
ConstructorEndsEarly == ProcessReturns /\ errorState' = errors
\* ... and returns, with whatever result.
ConstructorEnds == ProcessReturns /\ errorState' = errors'

\* The walk in between.
Walk == (Enter \/ Exit) /\ UNCHANGED errorState

MapNext == ConstructorStarts \/ ConstructorEnds \/ Walk

\* process() is one synchronous call on a finite document: once it has begun,
\* the open elements are closed and the call returns.
MapFairness == WF_mapVars(ConstructorEnds \/ (Exit /\ UNCHANGED errorState))

MapSpec == MapInit /\ [][MapNext]_mapVars /\ MapFairness

\* get<T>(): the entry of the type's name, cast to T; or a new default struct.
get(T) ==
    IF structs[T] = NoStruct THEN [f \in Fields |-> Unset]
    ELSE IF GetType(structs[T].ext) = T THEN structs[T].content
    ELSE NullPointer

-----------------------------------------------------------------------------
\* The flags are all that is left of the result the constructor drops.  A
\* VulkanMap without flags comes from a process() that succeeded and left no
\* field waiting; and with or without flags, get() never reads through the null
\* pointer that a cast to a wrong type gives.
MapTellsAll ==
    phase = "idle" /\ calls > 0 =>
        /\ errorState = {} => processResult /\ PendingTypes = {}
        /\ \A T \in StructTypes : get(T) # NullPointer
=============================================================================
