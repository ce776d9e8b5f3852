--------------------------- MODULE VulkanMapProofs ---------------------------
(***************************************************************************)
(* For all documents, and any number of calls: a VulkanMap tells of every  *)
(* failure, and get() returns a struct of the type asked for.              *)
(***************************************************************************)
EXTENDS VulkanMap, XmlProcessorProofs

\* What the constructor leaves: no flags, no failure.
FlagsTell ==
    phase = "idle" /\ calls > 0 /\ errorState = {} =>
        processResult /\ PendingTypes = {}

\* The walk never returns from process() by itself.
LEMMA WalkStays == Enter \/ Exit => phase' # "idle"
<1>1. ASSUME Enter PROVE phase' # "idle"
  <2> USE DEF Descend, Crash
  <2>1. CASE EnterOther \/ EnterFieldTooEarly
    BY <2>1 DEF EnterOther, EnterFieldTooEarly
  <2>2. ASSUME NEW type, NEW id,
               EnterStruct(type, id) \/ EnterBadStruct(type, id) \/ EnterStructOverflow
        PROVE  phase' # "idle"
    BY <2>2 DEF EnterStruct, EnterBadStruct, EnterStructOverflow
  <2>3. ASSUME NEW ref, EnterReference(ref) \/ EnterReferenceOverflow(ref)
        PROVE  phase' # "idle"
    BY <2>3 DEF EnterReference, EnterReferenceOverflow
  <2>4. ASSUME NEW field, NEW complaint,
               \/ EnterLiteral(field, complaint)
               \/ EnterUnreadableField(complaint)
               \/ EnterLiteralNoHandler(complaint)
        PROVE  phase' # "idle"
    BY <2>4 DEF EnterLiteral, EnterUnreadableField, EnterLiteralNoHandler
  <2> QED
    BY <1>1, <2>1, <2>2, <2>3, <2>4 DEF Enter
<1>2. ASSUME Exit PROVE phase' # "idle"
  <2> USE DEF Leaving, EndsStruct, Linking, Crash
  <2>1. CASE ExitField \/ ExitOther \/ ExitBadStruct \/ ExitStore \/ ExitNoMatch
    BY <2>1 DEF ExitField, ExitOther, ExitBadStruct, ExitStore, ExitNoMatch
  <2>2. CASE ExitMatch \/ LinkDone
    BY <2>2 DEF ExitMatch, LinkDone
  <2>3. ASSUME NEW type,
               LinkNoMatch(type) \/ LinkAssign(type) \/ LinkRefused(type)
               \/ LinkTerminates(type) \/ LinkUndefined(type)
        PROVE  phase' # "idle"
    BY <2>3
       DEF LinkNoMatch, LinkAssign, LinkRefused, LinkTerminates, LinkUndefined, walkVars
  <2> QED
    BY <1>2, <2>1, <2>2, <2>3 DEF Exit
<1> QED
    BY <1>1, <1>2

\* What the constructor copies tells of every failure of its call.
LEMMA FlagsTellHolds == MapSpec => []FlagsTell
<1>1. MapInit => FlagsTell
  BY DEF MapInit, Init, FlagsTell
<1>2. FlagsTell /\ [MapNext]_mapVars => FlagsTell'
  <2> SUFFICES ASSUME FlagsTell, [MapNext]_mapVars PROVE FlagsTell'
    OBVIOUS
  <2>1. CASE ConstructorStarts
    BY <2>1 DEF ConstructorStarts, StartProcess, FlagsTell
  <2>2. CASE ConstructorEnds
    <3>1. CASE FinishProcess
      <4>1. /\ processResult' = (TRUE /\ PendingTypes = {})
            /\ errors' = errors \cup {} \cup
                   (IF PendingTypes = {} THEN {} ELSE {"FIELD_LEFT_UNASSIGNED"})
            /\ PendingTypes' = PendingTypes
        BY <3>1 DEF FinishProcess, ReportPending, PendingTypes, linkVars
      <4> QED
        BY <2>2, <4>1 DEF ConstructorEnds, FlagsTell
    <3>2. CASE LoadFails
      <4>1. "FILE_LOAD_ERR" \in errors'
        BY <3>2 DEF LoadFails, ReportPending
      <4> QED
        BY <2>2, <4>1 DEF ConstructorEnds, FlagsTell
    <3> QED
      BY <2>2, <3>1, <3>2 DEF ConstructorEnds, ProcessReturns
  <2>3. CASE Walk
    BY <2>3, WalkStays DEF Walk, FlagsTell
  <2>4. CASE UNCHANGED mapVars
    BY <2>4 DEF mapVars, vars, processVars, walkVars, linkVars, FlagsTell, PendingTypes
  <2> QED
    BY <2>1, <2>2, <2>3, <2>4 DEF MapNext
<1> QED
  BY <1>1, <1>2, PTL DEF MapSpec

\* Made by a VulkanMap, the calls of process() are those the processor allows:
\* every invariant and action property proved of the processor holds of it.
THEOREM MapUsesProcessor == MapSpec => Spec
<1>1. MapInit => Init
  BY DEF MapInit
<1>2. [MapNext]_mapVars => [Next]_vars
  BY DEF MapNext, mapVars, ConstructorStarts, ConstructorEnds, ProcessReturns,
         Walk, Next
<1> QED
  BY <1>1, <1>2, PTL DEF MapSpec, Spec

\* A VulkanMap without flags comes from a process() that succeeded, and get()
\* never casts to a wrong type.
THEOREM MapTellsAllHolds == MapSpec => []MapTellsAll
<1>1. FlagsTell /\ TypeOK /\ StoredIsCurrent => MapTellsAll
  <2> SUFFICES ASSUME FlagsTell, TypeOK, StoredIsCurrent, phase = "idle", calls > 0
               PROVE  /\ errorState = {} => processResult /\ PendingTypes = {}
                      /\ \A T \in StructTypes : get(T) # NullPointer
    BY DEF MapTellsAll
  <2>1. ASSUME NEW T \in StructTypes PROVE get(T) # NullPointer
    <3>1. T \in StoreTypes /\ structs \in [StoreTypes -> Snapshot \cup {NoStruct}]
      BY DEF TypeOK, XmlTypeOK, StoreTypes
    <3>2. CASE structs[T] = NoStruct
      <4>1. [f \in Fields |-> Unset] \in Content
        BY DEF Content, Value
      <4> QED
        BY <3>2, <4>1, NullPointerIsNone DEF get
    <3>3. CASE structs[T] # NoStruct
      <4>1. GetType(structs[T].ext) = T /\ structs[T].content \in Content
        BY <3>1, <3>3 DEF StoredIsCurrent, Snapshot
      <4> QED
        BY <3>3, <4>1, NullPointerIsNone DEF get
    <3> QED
      BY <3>2, <3>3
  <2> QED
    BY <2>1 DEF FlagsTell
<1>2. MapSpec => []TypeOK /\ []StoredIsCurrent
  BY MapUsesProcessor, TypeCorrect, StoredIsCurrentHolds
<1> QED
  BY <1>1, <1>2, FlagsTellHolds, PTL
=============================================================================
