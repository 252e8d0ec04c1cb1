---------------------- MODULE WorkspaceControllerProofs ----------------------
(***************************************************************************)
(* Proofs about WorkspaceController, for every value of its constants:     *)
(* type correctness, that the cleanup finalizer guards the resources       *)
(* garbage collection cannot reach, and that none of them is orphaned      *)
(* while the informers of these two kinds keep up.                         *)
(***************************************************************************)
EXTENDS WorkspaceController, TLAPS

-----------------------------------------------------------------------------
(* Type correctness, in the three parts that the actions write. *)

WsOK == /\ ws \in WsType /\ wsCache \in WsType /\ wsStream \in Seq(WsType)

ObjOK ==
  /\ DOMAIN obj = Kinds /\ DOMAIN cache = Kinds /\ DOMAIN stream = Kinds
  /\ \A k \in Kinds : /\ obj[k] \in SUBSET ObjType(k)
                      /\ cache[k] \in SUBSET ObjType(k)
                      /\ stream[k] \in Seq(SUBSET ObjType(k))
  /\ nextId \in [Kinds -> Nat]

EnvOK ==
  /\ nextUid \in 0..MaxUid
  /\ mode \in Modes /\ profile \in Profiles \cup {Unusable}
  /\ used \in [edits : Nat, profiles : Nat, aborts : Nat, restarts : Nat]

PassOK == pc \in Steps /\ loc \in LocType /\ queue \in BOOLEAN

\* The type invariant is the conjunction of its parts.
LEMMA TypeParts == TypeOK <=> (WsOK /\ ObjOK /\ EnvOK /\ PassOK)
  BY Zenon DEF TypeOK, WsOK, ObjOK, EnvOK, PassOK

\* The absent Workspace and the empty local variables are well typed.
LEMMA NoneType == /\ AnyImage \in Images
                  /\ \A i \in Images : NoWs(i) \in WsType
                  /\ NoLoc \in LocType
<1>1. AnyImage \in Images
  BY ConstantsAssumption DEF AnyImage
<1>2. \A i \in Images : NoWs(i) \in WsType
  BY ConstantsAssumption DEF NoWs, WsType, States
<1>3. NoSts \in StsType
  BY <1>1 DEF NoSts, StsType
<1>4. NoLoc \in LocType
  BY <1>1, <1>2, <1>3 DEF NoLoc, LocType
<1> QED BY <1>1, <1>2, <1>4

\* A new resourceVersion leaves a record well typed.
LEMMA BumpedType == /\ \A w \in WsType : Bumped(w) \in WsType
                    /\ \A k \in Kinds : \A o \in ObjType(k) : Bumped(o) \in ObjType(k)
<1>1. \A w \in WsType : Bumped(w) \in WsType
  BY DEF Bumped, WsType
<1>2. \A k \in Kinds : \A o \in ObjType(k) : Bumped(o) \in ObjType(k)
  <2> TAKE k \in Kinds
  <2> DEFINE S == IF k = "sts" THEN StsType ELSE Images \cup {"fixed"}
  <2> HIDE DEF S
  <2>1. \A o \in [id : Nat, rv : Nat, owner : 0..MaxUid, spec : S] :
          Bumped(o) \in [id : Nat, rv : Nat, owner : 0..MaxUid, spec : S]
    BY DEF Bumped
  <2> QED BY <2>1 DEF S, ObjType
<1> QED BY <1>1, <1>2

\* A write of the Workspace keeps what is known of it well typed.
LEMMA StoreWsType ==
  ASSUME WsOK, NEW w \in WsType, StoreWs(w)
  PROVE  WsOK'
  BY DEF WsOK, StoreWs

\* A write of the objects of one kind keeps the resources well typed.
LEMMA StoreObjType ==
  ASSUME ObjOK, NEW k \in Kinds, NEW S \in SUBSET ObjType(k), StoreObj(k, S),
         nextId' \in [Kinds -> Nat]
  PROVE  ObjOK'
<1>1. /\ DOMAIN obj' = Kinds
      /\ \A j \in Kinds : obj'[j] = IF j = k THEN S ELSE obj[j]
  BY DEF ObjOK, StoreObj
<1>2. /\ DOMAIN cache' = Kinds
      /\ \A j \in Kinds : cache'[j] = IF j = k /\ k \notin Lagging THEN S ELSE cache[j]
  BY DEF ObjOK, StoreObj
<1>3. /\ DOMAIN stream' = Kinds
      /\ \A j \in Kinds : stream'[j] = IF j = k /\ k \in Lagging
                                       THEN Append(stream[j], S) ELSE stream[j]
  BY Zenon DEF ObjOK, StoreObj
<1>4. stream[k] \in Seq(SUBSET ObjType(k)) => Append(stream[k], S) \in Seq(SUBSET ObjType(k))
  OBVIOUS
<1>5. \A j \in Kinds : stream'[j] \in Seq(SUBSET ObjType(j))
  BY <1>3, <1>4, SMTT(30) DEF ObjOK
<1>6. \A j \in Kinds : obj'[j] \in SUBSET ObjType(j) /\ cache'[j] \in SUBSET ObjType(j)
  BY <1>1, <1>2, Zenon DEF ObjOK
<1> QED BY <1>1, <1>2, <1>3, <1>5, <1>6 DEF ObjOK, ObjType

\* The step that follows a step of a pass is a step.
LEMMA AfterStep == \A s \in Steps : After(s) \in Steps
  BY DEF After, Steps, Kinds

\* Ending in a state writes the status or nothing, and resets the pass.
LEMMA EndInStateType ==
  ASSUME WsOK, ObjOK, EnvOK, PassOK, NEW s \in States, EndInState(s)
  PROVE  WsOK' /\ ObjOK' /\ EnvOK' /\ PassOK'
<1>1. Bumped([ws EXCEPT !.state = s]) \in WsType
  <2>1. [ws EXCEPT !.state = s] \in WsType
    BY Zenon DEF WsOK, WsType
  <2> QED BY <2>1, BumpedType
<1>2. WsOK'
  BY <1>1, StoreWsType DEF EndInState, WsOK, wsVars
<1>3. ObjOK' /\ EnvOK'
  BY Zenon DEF EndInState, ObjOK, EnvOK, objVars, envVars
<1>4. PassOK'
  BY NoneType, Zenon DEF EndInState, PassOK, WsEvent, Steps
<1> QED BY <1>2, <1>3, <1>4

\* What the pass wants of a resource is well typed, and so is a new one.
LEMMA DesiredType ==
  ASSUME ObjOK, PassOK, NEW k \in Kinds
  PROVE  /\ NewObject(k) \in ObjType(k)
         /\ \A o \in ObjType(k) :
              Bumped([o EXCEPT !.spec = Desired(k)]) \in ObjType(k)
<1>1. Desired(k) \in IF k = "sts" THEN StsType ELSE Images \cup {"fixed"}
  BY DEF Desired, PassOK, LocType, WsType,
        GenerateService, GenerateVirtualService, GenerateHTTPRoute
<1>2. NewObject(k) \in ObjType(k)
  BY <1>1 DEF NewObject, ObjType, ObjOK, PassOK, LocType, WsType
<1>3. \A o \in ObjType(k) :
         Bumped([o EXCEPT !.spec = Desired(k)]) \in ObjType(k)
  <2>1. \A o \in ObjType(k) : [o EXCEPT !.spec = Desired(k)] \in ObjType(k)
    BY <1>1 DEF ObjType
  <2> QED BY <2>1, BumpedType
<1> QED BY <1>2, <1>3

\* Create or update of one resource.
LEMMA EnsureType ==
  ASSUME WsOK, ObjOK, EnvOK, PassOK, NEW k \in Kinds, Ensure(k)
  PROVE  WsOK' /\ ObjOK' /\ EnvOK' /\ PassOK'
<1> USE DEF wsVars, objVars, envVars
<1>1. ASSUME NEW spec, Proceed(k, spec), k = "sts" => spec \in StsType
      PROVE  WsOK' /\ EnvOK' /\ pc' \in Steps /\ loc' \in LocType
  BY <1>1, AfterStep, Zenon DEF Proceed, Goto, WsOK, EnvOK, PassOK, LocType
<1>2. ASSUME End(TRUE), UNCHANGED <<wsVars, objVars, envVars>>
      PROVE  WsOK' /\ ObjOK' /\ EnvOK' /\ PassOK'
  BY <1>2, NoneType, Zenon DEF End, WsOK, ObjOK, EnvOK, PassOK, Steps
<1>3. k = "sts" => Desired(k) \in StsType
  BY DEF Desired, PassOK, LocType
<1>4. CASE Skip(k)
  BY <1>4, AfterStep, Zenon DEF Skip, Goto, WsOK, ObjOK, EnvOK, PassOK
<1>5. CASE EnsureNone(k)
  <2>1. CASE AlreadyExists(k) /\ k \in Tolerant
    <3>1. Proceed(k, Desired(k)) /\ UNCHANGED <<objVars, queue>>
      BY <2>1, <1>5, Zenon DEF EnsureNone, Tolerant
    <3> QED BY <3>1, <1>1, <1>3, Zenon DEF ObjOK, PassOK
  <2>2. CASE AlreadyExists(k) /\ k = "sa"
    BY <2>2, <1>5, Zenon DEF EnsureNone, Goto, Tolerant, WsOK, ObjOK, EnvOK, PassOK, Steps
  <2>3. CASE AlreadyExists(k) /\ k \notin Tolerant /\ k # "sa"
    BY <2>3, <1>5, <1>2 DEF EnsureNone
  <2>4. CASE ~AlreadyExists(k) /\ k = "sts" /\ loc.stored
    BY <2>4, <1>5, <1>2 DEF EnsureNone
  <2>5. CASE ~AlreadyExists(k) /\ ~(k = "sts" /\ loc.stored)
    <3>1. CreateObj(k) /\ Proceed(k, Desired(k))
      BY <2>5, <1>5, Zenon DEF EnsureNone
    <3>2. obj[k] \cup {NewObject(k)} \in SUBSET ObjType(k)
      BY DesiredType, Zenon DEF ObjOK
    <3>3. nextId' \in [Kinds -> Nat] /\ queue' \in BOOLEAN
      BY <3>1 DEF CreateObj, ObjOK, PassOK
    <3>4. ObjOK'
      BY <3>1, <3>2, <3>3, StoreObjType DEF CreateObj
    <3> QED BY <3>1, <3>3, <3>4, <1>1, <1>3 DEF PassOK
  <2> QED BY <2>1, <2>2, <2>3, <2>4, <2>5
<1>6. CASE EnsureOne(k)
  <2>1. PICK o \in Found(k) :
          IF ~NeedsUpdate(k, o)
          THEN Proceed(k, o.spec) /\ UNCHANGED <<objVars, queue>>
          ELSE IF o \in obj[k]
          THEN UpdateObj(k, o) /\ Proceed(k, Desired(k))
          ELSE End(TRUE) /\ UNCHANGED <<wsVars, objVars, envVars>>
    BY <1>6, Zenon DEF EnsureOne
  <2>2. o \in ObjType(k)
    BY <2>1, Zenon DEF Found, ObjOK
  <2>3. CASE ~NeedsUpdate(k, o)
    <3>1. k = "sts" => o.spec \in StsType
      BY <2>2 DEF ObjType
    <3> QED BY <2>1, <2>3, <3>1, <1>1, Zenon DEF ObjOK, PassOK
  <2>4. CASE NeedsUpdate(k, o) /\ o \in obj[k]
    <3>1. UpdateObj(k, o) /\ Proceed(k, Desired(k))
      BY <2>1, <2>4
    <3>2. (obj[k] \ {o}) \cup {Bumped([o EXCEPT !.spec = Desired(k)])}
            \in SUBSET ObjType(k)
      BY <2>2, DesiredType, Zenon DEF ObjOK
    <3>3. nextId' \in [Kinds -> Nat] /\ queue' \in BOOLEAN
      BY <3>1 DEF UpdateObj, ObjOK, PassOK
    <3>4. ObjOK'
      BY <3>1, <3>2, <3>3, StoreObjType DEF UpdateObj
    <3> QED BY <3>1, <3>3, <3>4, <1>1, <1>3 DEF PassOK
  <2>5. CASE NeedsUpdate(k, o) /\ o \notin obj[k]
    BY <2>1, <2>5, <1>2
  <2> QED BY <2>3, <2>4, <2>5
<1>7. CASE EnsureMany(k)
  BY <1>7, EndInStateType DEF EnsureMany, States
<1> QED BY <1>4, <1>5, <1>6, <1>7 DEF Ensure

\* The steps of a pass that write no resource.
LEMMA PassStepType ==
  ASSUME WsOK, ObjOK, EnvOK, PassOK,
         \/ Start \/ Resolve \/ GetServiceAccount \/ ResolveTLS \/ AddFinalizer
         \/ Status \/ RemoveFinalizer
  PROVE  WsOK' /\ ObjOK' /\ EnvOK' /\ PassOK'
<1> USE DEF wsVars, objVars, envVars
<1>1. CASE Start
  <2>1. [NoLoc EXCEPT !.ws = wsCache] \in LocType
    BY NoneType DEF WsOK, LocType
  <2>2. PassOK'
    BY <1>1, <2>1, NoneType, Zenon DEF Start, Goto, PassOK, Steps
  <2> QED BY <1>1, <2>2, Zenon DEF Start, WsOK, ObjOK, EnvOK
<1>2. CASE Resolve
  <2>1. CASE loc.ws.image \notin ValidImages
    BY <1>2, <2>1, EndInStateType DEF Resolve, States
  <2>2. CASE loc.ws.image \in ValidImages
    <3>1. loc' \in LocType
      <4>1. [tmpl |-> [image |-> loc.ws.image, tls |-> "none"],
             replicas |-> IF loc.ws.paused THEN 0 ELSE 1] \in StsType
        BY DEF PassOK, LocType, WsType, StsType
      <4> QED BY <1>2, <2>2, <4>1 DEF Resolve, PassOK, LocType, GenerateStatefulSet
    <3>2. pc' \in Steps
      BY <1>2, <2>2, AfterStep DEF Resolve, Goto, PassOK
    <3> QED BY <1>2, <2>2, <3>1, <3>2, Zenon DEF Resolve, WsOK, ObjOK, EnvOK, PassOK
  <2> QED BY <2>1, <2>2
<1>3. CASE GetServiceAccount
  <2>1. CASE \E o \in cache["sa"] : o.owner # loc.ws.uid
    BY <1>3, <2>1, EndInStateType, Zenon DEF GetServiceAccount, States
  <2>2. CASE ~\E o \in cache["sa"] : o.owner # loc.ws.uid
    BY <1>3, <2>2, NoneType, Zenon
       DEF GetServiceAccount, End, WsOK, ObjOK, EnvOK, PassOK, Steps
  <2> QED BY <2>1, <2>2
<1>4. CASE ResolveTLS
  <2>1. loc' \in LocType
    <3>1. profile # Unusable => [loc EXCEPT !.sts.tmpl.tls = profile] \in LocType
      BY DEF PassOK, EnvOK, LocType, StsType
    <3>2. ASSUME cache["sts"] # {}
          PROVE  [loc EXCEPT !.tlsErr = TRUE,
                    !.sts.tmpl = (CHOOSE o \in cache["sts"] : TRUE).spec.tmpl] \in LocType
      <4> DEFINE o == CHOOSE x \in cache["sts"] : TRUE
      <4>1. o \in ObjType("sts")
        BY <3>2 DEF ObjOK, Kinds
      <4>2. o.spec.tmpl \in [image : Images, tls : Profiles \cup {"none"}]
        BY <4>1 DEF ObjType, StsType
      <4> HIDE DEF o
      <4>3. [loc EXCEPT !.sts.tmpl = o.spec.tmpl] \in LocType
        BY <4>2 DEF PassOK, LocType, StsType
      <4>4. [loc EXCEPT !.tlsErr = TRUE, !.sts.tmpl = o.spec.tmpl] \in LocType
        BY <4>2, Zenon DEF PassOK, LocType, StsType
      <4> QED BY <4>4 DEF o
    <3>3. [loc EXCEPT !.tlsErr = TRUE, !.write = FALSE] \in LocType
      BY Zenon DEF PassOK, LocType
    <3>4. [loc EXCEPT !.tlsErr = TRUE] \in LocType
      BY Zenon DEF PassOK, LocType
    <3> QED BY <1>4, <3>1, <3>2, <3>3, <3>4 DEF ResolveTLS, PassOK, WithSidecar
  <2>2. pc' \in Steps
    BY <1>4, AfterStep DEF ResolveTLS, Goto, PassOK
  <2> QED BY <1>4, <2>1, <2>2, Zenon DEF ResolveTLS, WsOK, ObjOK, EnvOK, PassOK
<1>5. CASE AddFinalizer
  <2>1. Bumped([ws EXCEPT !.finalizer = TRUE]) \in WsType
    <3>1. [ws EXCEPT !.finalizer = TRUE] \in WsType
      BY Zenon DEF WsOK, WsType
    <3> QED BY <3>1, BumpedType
  <2>2. WsOK'
    BY <1>5, <2>1, StoreWsType, Zenon DEF AddFinalizer, WsOK
  <2>3. pc' \in Steps /\ loc' \in LocType /\ queue' \in BOOLEAN
    BY <1>5, <2>2, NoneType, AfterStep, Zenon
       DEF AddFinalizer, Goto, End, PassOK, LocType, WsOK, WsEvent, Steps
  <2> QED BY <1>5, <2>2, <2>3, Zenon DEF AddFinalizer, ObjOK, EnvOK, PassOK
<1>6. CASE Status
  <2>1. \A s \in States : Bumped([ws EXCEPT !.state = s]) \in WsType
    <3>1. \A s \in States : [ws EXCEPT !.state = s] \in WsType
      BY Zenon DEF WsOK, WsType
    <3> QED BY <3>1, BumpedType
  <2>2. WsOK'
    BY <1>6, <2>1, StoreWsType, Zenon DEF Status, WsOK, States
  <2>3. PassOK'
    BY <1>6, NoneType, Zenon DEF Status, End, PassOK, WsEvent, Steps, LocType
  <2> QED BY <1>6, <2>2, <2>3, Zenon DEF Status, ObjOK, EnvOK
<1>7. CASE RemoveFinalizer
  <2>1. WsOK'
    BY <1>7, NoneType, StoreWsType, Zenon DEF RemoveFinalizer, WsOK
  <2>2. PassOK'
    BY <1>7, NoneType, Zenon DEF RemoveFinalizer, End, PassOK, WsEvent, Steps
  <2> QED BY <1>7, <2>1, <2>2, Zenon DEF RemoveFinalizer, ObjOK, EnvOK
<1> QED BY <1>1, <1>2, <1>3, <1>4, <1>5, <1>6, <1>7

\* The deletion of one resource the collector cannot reach.
LEMMA CleanUpType ==
  ASSUME WsOK, ObjOK, EnvOK, PassOK, DeleteCRB \/ DeleteRoute
  PROVE  WsOK' /\ ObjOK' /\ EnvOK' /\ PassOK'
<1>1. ASSUME NEW k \in Kinds, NEW s, NEW next \in Steps, CleanUp(k, s, next)
      PROVE  WsOK' /\ ObjOK' /\ EnvOK' /\ PassOK'
  <2>1. nextId' \in [Kinds -> Nat]
    BY <1>1 DEF CleanUp, ObjOK, objVars
  <2>2. {} \in SUBSET ObjType(k)
    OBVIOUS
  <2>3. ObjOK'
    BY <1>1, <2>1, <2>2, StoreObjType, Zenon DEF CleanUp, ObjOK, objVars
  <2> QED BY <1>1, <2>3 DEF CleanUp, Goto, WsOK, EnvOK, PassOK, wsVars, envVars
<1> QED BY <1>1 DEF DeleteCRB, DeleteRoute, Kinds, Steps

\* What an informer takes from a stream, and what it leaves.
LEMMA HeadTail ==
  ASSUME NEW S, NEW q \in Seq(S), q # <<>>
  PROVE  Head(q) \in S /\ Tail(q) \in Seq(S)
  OBVIOUS

\* The informers and the garbage collector.
LEMMA ClusterType ==
  ASSUME WsOK, ObjOK, EnvOK, PassOK, Cluster
  PROVE  WsOK' /\ ObjOK' /\ EnvOK' /\ PassOK'
<1> USE DEF wsVars, objVars, envVars
<1>1. CASE DeliverWs
  <2>1. Head(wsStream) \in WsType /\ Tail(wsStream) \in Seq(WsType)
    BY <1>1, HeadTail DEF DeliverWs, WsOK
  <2> QED BY <1>1, <2>1, Zenon DEF DeliverWs, WsOK, ObjOK, EnvOK, PassOK
<1>2. ASSUME NEW k \in Kinds, Deliver(k)
      PROVE  WsOK' /\ ObjOK' /\ EnvOK' /\ PassOK'
  <2>1. /\ Head(stream[k]) \in SUBSET ObjType(k)
        /\ Tail(stream[k]) \in Seq(SUBSET ObjType(k))
    BY <1>2, HeadTail, Zenon DEF Deliver, ObjOK
  <2>2. DOMAIN cache' = Kinds /\ DOMAIN stream' = Kinds
    BY <1>2 DEF Deliver, ObjOK
  <2>3. \A j \in Kinds : /\ cache'[j] = IF j = k THEN Head(stream[k]) ELSE cache[j]
                         /\ stream'[j] = IF j = k THEN Tail(stream[k]) ELSE stream[j]
    BY <1>2 DEF Deliver, ObjOK
  <2>4. \A j \in Kinds : /\ cache'[j] \in SUBSET ObjType(j)
                         /\ stream'[j] \in Seq(SUBSET ObjType(j))
    BY <2>1, <2>3, Zenon DEF ObjOK
  <2>5. ObjOK'
    BY <1>2, <2>2, <2>4, Zenon DEF Deliver, ObjOK
  <2>6. queue' \in BOOLEAN
    BY <1>2 DEF Deliver, PassOK
  <2> QED BY <1>2, <2>5, <2>6 DEF Deliver, WsOK, EnvOK, PassOK
<1>3. ASSUME NEW k \in Kinds, CollectGarbage(k)
      PROVE  WsOK' /\ ObjOK' /\ EnvOK' /\ PassOK'
  <2>1. PICK o \in Garbage(k) : StoreObj(k, obj[k] \ {o})
    BY <1>3 DEF CollectGarbage
  <2>2. obj[k] \ {o} \in SUBSET ObjType(k)
    BY Zenon DEF ObjOK
  <2>3. ObjOK'
    BY <1>3, <2>1, <2>2, StoreObjType, Zenon DEF CollectGarbage, ObjOK
  <2>4. queue' \in BOOLEAN
    BY <1>3 DEF CollectGarbage, PassOK
  <2> QED BY <1>3, <2>3, <2>4 DEF CollectGarbage, WsOK, EnvOK, PassOK
<1> QED BY <1>1, <1>2, <1>3 DEF Cluster

\* Users, administrators, failures and restarts.
LEMMA EnvironmentType ==
  ASSUME WsOK, ObjOK, EnvOK, PassOK, Environment
  PROVE  WsOK' /\ ObjOK' /\ EnvOK' /\ PassOK'
<1> USE DEF wsVars, objVars, envVars
<1>1. CASE CreateWs
  <2>1. nextUid' \in 0..MaxUid
    BY <1>1, ConstantsAssumption DEF CreateWs, EnvOK
  <2>2. \A i \in Images : [NoWs(i) EXCEPT !.uid = nextUid', !.rv = 1] \in WsType
    BY <2>1, Zenon DEF NoWs, WsType, States
  <2>3. WsOK'
    BY <1>1, <2>2, StoreWsType, Zenon DEF CreateWs
  <2> QED BY <1>1, <2>1, <2>3, Zenon DEF CreateWs, ObjOK, EnvOK, PassOK, WsEvent
<1>2. CASE EditWs
  <2>1. ASSUME NEW i \in Images, NEW p \in BOOLEAN
        PROVE  Bumped([ws EXCEPT !.image = i, !.paused = p]) \in WsType
    <3>1. [ws EXCEPT !.image = i, !.paused = p] \in WsType
      BY Zenon DEF WsOK, WsType
    <3> QED BY <3>1, BumpedType
  <2>2. WsOK'
    BY <1>2, <2>1, StoreWsType, Zenon DEF EditWs
  <2>3. used' \in [edits : Nat, profiles : Nat, aborts : Nat, restarts : Nat]
    BY <1>2 DEF EditWs, EnvOK
  <2> QED BY <1>2, <2>2, <2>3, Zenon DEF EditWs, ObjOK, EnvOK, PassOK, WsEvent
<1>3. CASE DeleteWs
  <2>1. Bumped([ws EXCEPT !.deleting = TRUE]) \in WsType
    <3>1. [ws EXCEPT !.deleting = TRUE] \in WsType
      BY Zenon DEF WsOK, WsType
    <3> QED BY <3>1, BumpedType
  <2>2. WsOK'
    BY <1>3, <2>1, NoneType, StoreWsType DEF DeleteWs
  <2> QED BY <1>3, <2>2, Zenon DEF DeleteWs, ObjOK, EnvOK, PassOK, WsEvent
<1>4. CASE ChangeProfile
  <2>1. used' \in [edits : Nat, profiles : Nat, aborts : Nat, restarts : Nat]
    BY <1>4 DEF ChangeProfile, EnvOK
  <2> QED BY <1>4, <2>1, Zenon DEF ChangeProfile, WsOK, ObjOK, EnvOK, PassOK
<1>5. CASE Abort
  <2>1. used' \in [edits : Nat, profiles : Nat, aborts : Nat, restarts : Nat]
    BY <1>5 DEF Abort, EnvOK
  <2> QED BY <1>5, <2>1, NoneType, Zenon DEF Abort, WsOK, ObjOK, EnvOK, PassOK, Steps
<1>6. CASE Restart
  <2>1. used' \in [edits : Nat, profiles : Nat, aborts : Nat, restarts : Nat]
    BY <1>6 DEF Restart, EnvOK
  <2>2. ObjOK'
    <3>1. \A k \in Kinds : stream'[k] = <<>>
      BY <1>6 DEF Restart
    <3>2. \A T : <<>> \in Seq(T)
      OBVIOUS
    <3>3. \A k \in Kinds : stream'[k] \in Seq(SUBSET ObjType(k))
      BY <3>1, <3>2, Zenon
    <3> QED BY <1>6, <3>3, Zenon DEF Restart, ObjOK
  <2>3. WsOK'
    BY <1>6 DEF Restart, WsOK
  <2> QED BY <1>6, <2>1, <2>2, <2>3, NoneType DEF Restart, EnvOK, PassOK, Steps
<1> QED BY <1>1, <1>2, <1>3, <1>4, <1>5, <1>6 DEF Environment

\* The steps of a pass, with those that are a Resource(k) together.
LEMMA PassCases ==
  Pass => \/ Start \/ Resolve \/ GetServiceAccount
          \/ EarlyStatefulSet \/ ResolveTLS \/ StatefulSet
          \/ \E k \in Kinds : Resource(k)
          \/ AddFinalizer \/ Route \/ Status
          \/ DeleteCRB \/ DeleteRoute \/ RemoveFinalizer
  BY DEF Pass, Kinds, ServiceAccount, Service, VirtualService, ClusterRoleBinding,
         ConfigMap, ProxyService, ReferenceGrant, RoleBindings

(* Type correctness: server, caches, streams and the local variables of a    *)
(* pass hold well-typed values in every reachable state.                     *)
THEOREM TypeCorrect == Spec => []TypeOK
<1>1. Init => TypeOK
  <2> SUFFICES ASSUME Init PROVE TypeOK
    OBVIOUS
  <2>1. WsOK
    BY NoneType DEF Init, WsOK
  <2>2. ObjOK
    BY DEF Init, ObjOK
  <2>3. EnvOK
    BY ConstantsAssumption DEF Init, EnvOK
  <2>4. PassOK
    BY NoneType, Zenon DEF Init, PassOK, Steps
  <2> QED BY <2>1, <2>2, <2>3, <2>4, TypeParts
<1>2. TypeOK /\ [Next]_vars => TypeOK'
  <2> SUFFICES ASSUME WsOK, ObjOK, EnvOK, PassOK, [Next]_vars
               PROVE  WsOK' /\ ObjOK' /\ EnvOK' /\ PassOK'
    BY TypeParts, Zenon DEF TypeOK, WsOK, ObjOK, EnvOK, PassOK
  <2>1. CASE Start \/ Resolve \/ GetServiceAccount \/ ResolveTLS \/ AddFinalizer
             \/ Status \/ RemoveFinalizer
    BY <2>1, PassStepType
  <2>2. CASE EarlyStatefulSet
    BY <2>2, EnsureType DEF EarlyStatefulSet, Kinds
  <2>3. CASE StatefulSet
    <3>1. CASE Ensure("sts")
      BY <3>1, EnsureType DEF Kinds
    <3>2. CASE Skip("sts")
      BY <3>2, AfterStep, Zenon DEF Skip, Goto, WsOK, ObjOK, EnvOK, PassOK, wsVars, objVars, envVars
    <3> QED BY <2>3, <3>1, <3>2 DEF StatefulSet
  <2>4. ASSUME NEW k \in Kinds, Resource(k)
        PROVE  WsOK' /\ ObjOK' /\ EnvOK' /\ PassOK'
    BY <2>4, EnsureType DEF Resource
  <2>5. CASE Route
    BY <2>5, EnsureType, EndInStateType DEF Route, Kinds, States
  <2>6. CASE DeleteCRB \/ DeleteRoute
    BY <2>6, CleanUpType
  <2>7. CASE Cluster
    BY <2>7, ClusterType
  <2>8. CASE Environment
    BY <2>8, EnvironmentType
  <2>9. CASE UNCHANGED vars
    BY <2>9, Zenon DEF vars, WsOK, ObjOK, EnvOK, PassOK
  <2> QED BY <2>1, <2>2, <2>3, <2>4, <2>5, <2>6, <2>7, <2>8, <2>9,
             PassCases DEF Next
<1> QED BY <1>1, <1>2, PTL DEF Spec

-----------------------------------------------------------------------------
(* The finalizer guards what it is there to clean up. *)

\* What the informer and the pass hold of the Workspace.
Snapshots == {wsCache, loc.ws} \cup {wsStream[i] : i \in 1..Len(wsStream)}

\* The steps after the finalizer was ensured, in gateway mode.
GatewaySteps == {"crb", "cm", "psvc", "rg", "route"}

\* A snapshot of the present object that shows the finalizer is right.
Truthful(v) ==
  /\ v.uid <= nextUid
  /\ (v.uid = ws.uid /\ Exists(v) /\ v.finalizer) => ws.finalizer

Guarded(o) ==
  /\ o.owner <= nextUid
  /\ (Exists(ws) /\ o.owner = ws.uid) => ws.finalizer

(* The inductive invariant.  FinalizerGuardsExternal is not inductive: a     *)
(* pass trusts the finalizer it saw in a snapshot, so the snapshots must be  *)
(* truthful, and UIDs must be fresh for a new Workspace to own nothing.      *)
FInv ==
  /\ ws.uid <= nextUid
  /\ \A v \in Snapshots : Truthful(v)
  /\ pc \in GatewaySteps => loc.ws.finalizer
  /\ \A k \in External : \A o \in obj[k] : Guarded(o)

\* The snapshots are Workspaces.
LEMMA SnapshotTypes ==
  ASSUME TypeOK
  PROVE  \A v \in Snapshots : v \in WsType
<1>1. wsCache \in WsType /\ loc.ws \in WsType
  BY DEF TypeOK, LocType
<1>2. \A i \in 1..Len(wsStream) : wsStream[i] \in WsType
  BY DEF TypeOK
<1> QED BY <1>1, <1>2 DEF Snapshots

\* The order of the steps: the gateway's resources come after the finalizer.
LEMMA AfterGateway ==
  \A s \in Steps : After(s) \in GatewaySteps => s = "fin" \/ s \in GatewaySteps
  BY DEF After, Steps, Kinds, GatewaySteps

\* The snapshots after a write of the Workspace are those before it and the
\* object written, but for the local one.
LEMMA StoreWsSnapshots ==
  ASSUME TypeOK, NEW w \in WsType, StoreWs(w)
  PROVE  /\ ws' = w
         /\ \A v \in Snapshots' : v \in Snapshots \/ v = w \/ v = loc'.ws
<1>1. wsCache' = wsCache \/ wsCache' = w
  BY DEF StoreWs
<1>2. \A i \in 1..Len(wsStream') :
         wsStream'[i] = w \/ \E j \in 1..Len(wsStream) : wsStream'[i] = wsStream[j]
  <2>1. CASE wsStream' = wsStream
    BY <2>1
  <2>2. CASE wsStream' = Append(wsStream, w)
    <3>1. /\ Len(wsStream') = Len(wsStream) + 1 /\ Len(wsStream) \in Nat
          /\ wsStream'[Len(wsStream) + 1] = w
          /\ \A j \in 1..Len(wsStream) : wsStream'[j] = wsStream[j]
      BY <2>2 DEF TypeOK
    <3> QED BY <3>1
  <2> QED BY <2>1, <2>2 DEF StoreWs
<1>3. ws' = w
  BY DEF StoreWs
<1> QED BY <1>1, <1>2, <1>3 DEF Snapshots

\* A write that keeps the object's identity and its finalizer keeps FInv, if it
\* is no step into the gateway's resources and makes none.
LEMMA KeepFInv ==
  ASSUME TypeOK, FInv, NEW w \in WsType, StoreWs(w),
         w.uid = ws.uid, ws.finalizer => w.finalizer,
         nextUid' = nextUid, loc'.ws \in Snapshots \cup {w} \/ loc'.ws.uid = 0,
         \A k \in External : obj'[k] = obj[k],
         pc' \in GatewaySteps => loc'.ws.finalizer
  PROVE  FInv'
<1> USE DEF Exists
<1>1. ws' = w /\ \A v \in Snapshots' : v \in Snapshots \/ v = w \/ v = loc'.ws
  BY StoreWsSnapshots
<1>2. \A v \in Snapshots : Truthful(v)'
  BY <1>1 DEF FInv, Truthful
<1>3. Truthful(w)'
  BY <1>1 DEF FInv, Truthful
<1>4. loc'.ws.uid = 0 => Truthful(loc.ws)'
  BY DEF Truthful, TypeOK
<1>5. \A v \in Snapshots' : Truthful(v)'
  BY <1>1, <1>2, <1>3, <1>4
<1>6. \A k \in External : \A o \in obj'[k] : Guarded(o)'
  BY <1>1 DEF FInv, Guarded
<1> QED BY <1>1, <1>5, <1>6 DEF FInv

\* A step that leaves the Workspace alone keeps FInv, under the same conditions.
LEMMA LeaveFInv ==
  ASSUME TypeOK, FInv, UNCHANGED wsVars,
         nextUid' = nextUid, loc'.ws \in Snapshots \/ loc'.ws.uid = 0,
         \A k \in External : \A o \in obj'[k] : Guarded(o),
         pc' \in GatewaySteps => loc'.ws.finalizer
  PROVE  FInv'
<1> USE DEF Exists
<1>1. \A v \in Snapshots' : v \in Snapshots \/ v = loc'.ws
  BY DEF Snapshots, wsVars
<1>2. \A v \in Snapshots : Truthful(v)'
  BY DEF FInv, Truthful, wsVars
<1>3. loc'.ws.uid = 0 => Truthful(loc.ws)'
  BY DEF Truthful, TypeOK
<1>4. \A v \in Snapshots' : Truthful(v)'
  BY <1>1, <1>2, <1>3
<1>5. \A k \in External : \A o \in obj'[k] : Guarded(o)'
  BY DEF Guarded, wsVars
<1> QED BY <1>4, <1>5 DEF FInv, wsVars

\* What a record keeps when its version, or another field, changes.
LEMMA BumpedFields ==
  /\ \A w \in WsType : /\ Bumped(w).uid = w.uid
                        /\ Bumped(w).finalizer = w.finalizer
                        /\ Bumped(w).deleting = w.deleting
  /\ \A k \in Kinds : \A o \in ObjType(k) : Bumped(o).owner = o.owner
<1>1. \A w \in WsType : /\ Bumped(w).uid = w.uid
                        /\ Bumped(w).finalizer = w.finalizer
                        /\ Bumped(w).deleting = w.deleting
  BY DEF Bumped, WsType
<1>2. \A k \in Kinds : \A o \in ObjType(k) : Bumped(o).owner = o.owner
  BY DEF Bumped, ObjType
<1> QED BY <1>1, <1>2

\* A status written by the controller keeps identity, finalizer and deletion.
LEMMA StatusWrite ==
  ASSUME TypeOK, NEW s \in States
  PROVE  LET w == Bumped([ws EXCEPT !.state = s])
         IN  /\ w \in WsType
             /\ w.uid = ws.uid /\ w.finalizer = ws.finalizer /\ w.deleting = ws.deleting
<1>1. /\ [ws EXCEPT !.state = s] \in WsType
      /\ [ws EXCEPT !.state = s].uid = ws.uid
      /\ [ws EXCEPT !.state = s].finalizer = ws.finalizer
      /\ [ws EXCEPT !.state = s].deleting = ws.deleting
  BY Zenon DEF TypeOK, WsType
<1> QED BY <1>1, BumpedType, BumpedFields, Zenon

\* The local Workspace of an idle controller is no Workspace.
LEMMA NoLocUid == NoLoc.ws.uid = 0 /\ "idle" \notin GatewaySteps
  BY DEF NoLoc, NoWs, GatewaySteps

\* When the Workspace goes there is no present object left to speak of.
LEMMA GoneFInv ==
  ASSUME TypeOK, FInv, NEW w \in WsType, StoreWs(w), w.uid = 0,
         nextUid' = nextUid, obj' = obj, loc' \in {loc, NoLoc},
         pc' \in GatewaySteps => loc'.ws.finalizer
  PROVE  FInv'
<1> USE DEF Exists
<1>1. ws' = w /\ \A v \in Snapshots' : v \in Snapshots \/ v = w \/ v = loc'.ws
  BY StoreWsSnapshots
<1>2. \A v \in Snapshots \cup {w} : Truthful(v)'
  BY <1>1 DEF FInv, Truthful, TypeOK
<1>3. loc'.ws \in Snapshots \/ loc'.ws.uid = 0
  BY NoLocUid DEF Snapshots
<1>4. loc'.ws.uid = 0 => Truthful(loc.ws)'
  BY DEF Truthful, TypeOK
<1>5. \A v \in Snapshots' : Truthful(v)'
  BY <1>1, <1>2, <1>3, <1>4
<1>6. \A k \in External : \A o \in obj'[k] : Guarded(o)'
  BY <1>1 DEF FInv, Guarded
<1> QED BY <1>1, <1>5, <1>6, SMTT(30) DEF FInv, TypeOK

\* A pass that ends in a state keeps FInv.
LEMMA EndInStateFInv ==
  ASSUME TypeOK, FInv, NEW s \in States, EndInState(s)
  PROVE  FInv'
<1>1. /\ pc' = "idle" /\ loc' = NoLoc /\ nextUid' = nextUid /\ obj' = obj
      /\ UNCHANGED wsVars \/ StoreWs(Bumped([ws EXCEPT !.state = s]))
  BY DEF EndInState, objVars, envVars
<1>2. CASE UNCHANGED wsVars
  BY <1>1, <1>2, LeaveFInv, NoLocUid DEF FInv
<1>3. CASE StoreWs(Bumped([ws EXCEPT !.state = s]))
  BY <1>1, <1>3, StatusWrite, KeepFInv, NoLocUid
<1> QED BY <1>1, <1>2, <1>3

(* What creating or updating a resource of kind k does: the pass goes on,    *)
(* asks for the account, or ends; other kinds are left alone; the objects    *)
(* are those there were, with their owners, and perhaps one for loc.ws.      *)
LEMMA EnsureEffect ==
  ASSUME TypeOK, NEW k \in Kinds, Ensure(k), ~EnsureMany(k)
  PROVE  /\ UNCHANGED <<wsVars, envVars>>
         /\ \/ pc' = After(pc) /\ loc'.ws = loc.ws
            \/ pc' = "saget" /\ k = "sa" /\ loc' = loc
            \/ pc' = "idle" /\ loc' = NoLoc
         /\ \A j \in Kinds : j # k => /\ obj'[j] = obj[j]
                                      /\ cache'[j] = cache[j]
                                      /\ stream'[j] = stream[j]
         /\ \A o \in obj'[k] : \/ o.owner = loc.ws.uid /\ pc' = After(pc)
                               \/ \E p \in obj[k] : p.owner = o.owner
         /\ \/ obj' = obj /\ cache' = cache /\ stream' = stream
            \/ k \notin Lagging => cache'[k] = obj'[k] /\ stream'[k] = stream[k]
<1> USE DEF wsVars, objVars, envVars
<1>1. ASSUME NEW S, StoreObj(k, S)
      PROVE  /\ obj'[k] = S
             /\ \A j \in Kinds : j # k => /\ obj'[j] = obj[j]
                                           /\ cache'[j] = cache[j]
                                           /\ stream'[j] = stream[j]
             /\ k \notin Lagging => cache'[k] = obj'[k] /\ stream'[k] = stream[k]
  BY <1>1, SMTT(30) DEF StoreObj, TypeOK
<1>2. ASSUME NEW spec, Proceed(k, spec)
      PROVE  UNCHANGED <<wsVars, envVars>> /\ pc' = After(pc) /\ loc'.ws = loc.ws
  BY <1>2 DEF Proceed, Goto, TypeOK, LocType
<1>3. ASSUME End(TRUE), UNCHANGED <<wsVars, objVars, envVars>>
      PROVE  /\ UNCHANGED <<wsVars, objVars, envVars>>
             /\ pc' = "idle" /\ loc' = NoLoc
  BY <1>3 DEF End
<1>4. CASE Skip(k)
  BY <1>4 DEF Skip, Goto
<1>5. CASE EnsureNone(k)
  <2>1. \/ Proceed(k, Desired(k)) /\ UNCHANGED objVars
        \/ pc' = "saget" /\ k = "sa" /\ loc' = loc /\ UNCHANGED <<wsVars, objVars, envVars>>
        \/ End(TRUE) /\ UNCHANGED <<wsVars, objVars, envVars>>
        \/ CreateObj(k) /\ Proceed(k, Desired(k))
    BY <1>5, Zenon DEF EnsureNone, Goto
  <2>2. CASE CreateObj(k) /\ Proceed(k, Desired(k))
    <3>1. NewObject(k).owner = loc.ws.uid
      BY DEF NewObject
    <3>2. StoreObj(k, obj[k] \cup {NewObject(k)})
      BY <2>2 DEF CreateObj
    <3>3. obj'[k] = obj[k] \cup {NewObject(k)}
      BY <3>2, <1>1
    <3> QED BY <2>2, <3>1, <3>2, <3>3, <1>1, <1>2, Zenon
  <2> QED BY <2>1, <2>2, <1>2, <1>3, Zenon
<1>6. CASE EnsureOne(k)
  <2>1. PICK o \in Found(k) :
          \/ Proceed(k, o.spec) /\ UNCHANGED objVars
          \/ End(TRUE) /\ UNCHANGED <<wsVars, objVars, envVars>>
          \/ o \in obj[k] /\ UpdateObj(k, o) /\ Proceed(k, Desired(k))
    BY <1>6, Zenon DEF EnsureOne
  <2>2. CASE o \in obj[k] /\ UpdateObj(k, o) /\ Proceed(k, Desired(k))
    <3> DEFINE u == Bumped([o EXCEPT !.spec = Desired(k)])
    <3>1. u.owner = o.owner
      <4>1. o \in ObjType(k) /\ PassOK /\ ObjOK
        BY <2>2, TypeParts, Zenon DEF TypeOK
      <4>2. Desired(k) \in IF k = "sts" THEN StsType ELSE Images \cup {"fixed"}
        BY <4>1 DEF Desired, PassOK, LocType, WsType,
        GenerateService, GenerateVirtualService, GenerateHTTPRoute
      <4>3. /\ [o EXCEPT !.spec = Desired(k)] \in ObjType(k)
            /\ [o EXCEPT !.spec = Desired(k)].owner = o.owner
        BY <4>1, <4>2 DEF ObjType
      <4> QED BY <4>3, BumpedFields, Zenon
    <3>2. StoreObj(k, (obj[k] \ {o}) \cup {u})
      BY <2>2 DEF UpdateObj
    <3> HIDE DEF u
    <3>3. obj'[k] = (obj[k] \ {o}) \cup {u}
      BY <3>2, <1>1
    <3> QED BY <2>2, <3>1, <3>2, <3>3, <1>1, <1>2
  <2> QED BY <2>1, <2>2, <1>2, <1>3, Zenon
<1> QED BY <1>4, <1>5, <1>6, Zenon DEF Ensure

\* Creating or updating a resource keeps FInv: the two kinds that need the
\* finalizer are only written after it was ensured.
LEMMA EnsureFInv ==
  ASSUME TypeOK, FInv, NEW k \in Kinds, Ensure(k), pc # "fin",
         k \in External => pc = k
  PROVE  FInv'
<1>1. CASE EnsureMany(k)
  BY <1>1, EndInStateFInv DEF EnsureMany, States
<1>2. CASE ~EnsureMany(k)
  <2> USE <1>2, EnsureEffect
  <2>1. UNCHANGED wsVars /\ nextUid' = nextUid
    BY DEF envVars
  <2>2. loc'.ws \in Snapshots \/ loc'.ws.uid = 0
    BY NoLocUid DEF Snapshots
  <2>3. pc' \in GatewaySteps => loc'.ws.finalizer
    BY AfterGateway, NoLocUid, Zenon DEF FInv, TypeOK, GatewaySteps
  <2>4. ASSUME NEW j \in External, NEW o \in obj'[j]
        PROVE  Guarded(o)
    <3>1. CASE j # k
      BY <3>1, <2>4 DEF FInv, External, Kinds
    <3>2. CASE j = k /\ \E p \in obj[k] : p.owner = o.owner
      BY <3>2, <2>4 DEF FInv, Guarded
    <3>3. CASE j = k /\ o.owner = loc.ws.uid
      <4>1. loc.ws.finalizer
        BY <3>3 DEF FInv, External, GatewaySteps
      <4>2. Truthful(loc.ws)
        BY DEF FInv, Snapshots
      <4> QED BY <3>3, <4>1, <4>2 DEF Guarded, Truthful, Exists
    <3> QED BY <3>1, <3>2, <3>3
  <2> QED BY <2>1, <2>2, <2>3, <2>4, LeaveFInv, Zenon
<1> QED BY <1>1, <1>2

\* The other steps of a pass keep FInv.
LEMMA PassFInv ==
  ASSUME TypeOK, FInv, Pass
  PROVE  FInv'
<1> USE DEF objVars, envVars
<1>1. CASE Start
  <2>1. loc'.ws \in Snapshots \/ loc'.ws.uid = 0
    BY <1>1, NoLocUid DEF Start, Snapshots, NoLoc
  <2> QED BY <1>1, <2>1, LeaveFInv DEF Start, Goto, FInv, GatewaySteps
<1>2. CASE Resolve
  <2>1. CASE loc.ws.image \notin ValidImages
    BY <1>2, <2>1, EndInStateFInv DEF Resolve, States
  <2>2. CASE loc.ws.image \in ValidImages
    <3>1. loc'.ws = loc.ws /\ pc' = "sa"
      BY <1>2, <2>2 DEF Resolve, Goto, After, TypeOK, LocType
    <3> QED BY <1>2, <2>2, <3>1, LeaveFInv DEF Resolve, FInv, Snapshots, GatewaySteps
  <2> QED BY <2>1, <2>2
<1>3. CASE GetServiceAccount
  <2>1. CASE \E o \in cache["sa"] : o.owner # loc.ws.uid
    BY <1>3, <2>1, EndInStateFInv, Zenon DEF GetServiceAccount, States
  <2>2. CASE ~\E o \in cache["sa"] : o.owner # loc.ws.uid
    BY <1>3, <2>2, LeaveFInv, NoLocUid DEF GetServiceAccount, End, FInv
  <2> QED BY <2>1, <2>2
<1>4. CASE EarlyStatefulSet
  BY <1>4, EnsureFInv DEF EarlyStatefulSet, Kinds, External
<1>5. CASE ResolveTLS
  <2>1. loc'.ws = loc.ws /\ pc' = "sts"
    BY <1>5 DEF ResolveTLS, Goto, After, TypeOK, LocType
  <2> QED BY <1>5, <2>1, LeaveFInv DEF ResolveTLS, FInv, Snapshots, GatewaySteps
<1>6. CASE StatefulSet
  <2>1. CASE Ensure("sts")
    BY <1>6, <2>1, EnsureFInv DEF StatefulSet, Kinds, External
  <2>2. CASE Skip("sts")
    <3>1. pc' \notin GatewaySteps
      BY <1>6, <2>2, AfterGateway DEF StatefulSet, Skip, Goto, GatewaySteps, Steps, Kinds
    <3> QED BY <2>2, <3>1, LeaveFInv DEF Skip, FInv, Snapshots
  <2> QED BY <1>6, <2>1, <2>2 DEF StatefulSet
<1>7. ASSUME NEW k \in Kinds, Resource(k)
      PROVE  FInv'
  BY <1>7, EnsureFInv DEF Resource, Kinds
<1>8. CASE AddFinalizer
  <2>1. CASE loc.ws.finalizer
    BY <1>8, <2>1, LeaveFInv DEF AddFinalizer, FInv, Snapshots
  <2>2. CASE ~loc.ws.finalizer /\ Current(loc.ws)
    <3> DEFINE w == Bumped([ws EXCEPT !.finalizer = TRUE])
    <3>1. w \in WsType /\ w.uid = ws.uid /\ w.finalizer
      <4>1. /\ [ws EXCEPT !.finalizer = TRUE] \in WsType
            /\ [ws EXCEPT !.finalizer = TRUE].uid = ws.uid
            /\ [ws EXCEPT !.finalizer = TRUE].finalizer
        BY Zenon DEF TypeOK, WsType
      <4> QED BY <4>1, BumpedType, BumpedFields, Zenon
    <3>2. StoreWs(w) /\ loc' = [loc EXCEPT !.ws = ws']
      BY <1>8, <2>2 DEF AddFinalizer
    <3> HIDE DEF w
    <3>3. loc'.ws = w
      BY <3>2 DEF StoreWs, TypeOK, LocType
    <3> QED BY <1>8, <3>1, <3>2, <3>3, KeepFInv DEF AddFinalizer
  <2>3. CASE ~loc.ws.finalizer /\ ~Current(loc.ws)
    BY <1>8, <2>3, LeaveFInv, NoLocUid DEF AddFinalizer, End, FInv
  <2> QED BY <2>1, <2>2, <2>3
<1>9. CASE Route
  BY <1>9, EnsureFInv, EndInStateFInv DEF Route, Kinds, States
<1>10. CASE Status
  <2>1. PICK s \in States : UNCHANGED wsVars \/ StoreWs(Bumped([ws EXCEPT !.state = s]))
    BY <1>10, Zenon DEF Status, States
  <2>2. CASE UNCHANGED wsVars
    BY <1>10, <2>2, LeaveFInv, NoLocUid DEF Status, End, FInv
  <2>3. CASE StoreWs(Bumped([ws EXCEPT !.state = s]))
    BY <1>10, <2>3, StatusWrite, KeepFInv, NoLocUid DEF Status, End
  <2> QED BY <2>1, <2>2, <2>3
<1>11. CASE DeleteCRB \/ DeleteRoute
  <2>1. PICK k \in External : CleanUp(k, "delcrb", "delroute") \/ CleanUp(k, "delroute", "delfin")
    BY <1>11 DEF DeleteCRB, DeleteRoute, External
  <2>2. \A j \in External : obj'[j] \subseteq obj[j]
    BY <2>1, Zenon DEF CleanUp, StoreObj, TypeOK, External, Kinds
  <2> QED BY <2>1, <2>2, LeaveFInv, SMTT(30) DEF CleanUp, Goto, FInv, Snapshots, GatewaySteps
<1>12. CASE RemoveFinalizer
  <2>1. CASE Current(loc.ws)
    <3>1. /\ StoreWs(NoWs(AnyImage)) /\ NoWs(AnyImage).uid = 0 /\ NoWs(AnyImage) \in WsType
          /\ pc' = "idle" /\ loc' = NoLoc /\ nextUid' = nextUid /\ obj' = obj
      BY <1>12, <2>1, NoneType DEF RemoveFinalizer, End, NoWs
    <3> QED BY <3>1, GoneFInv, NoLocUid
  <2>2. CASE ~Current(loc.ws)
    BY <1>12, <2>2, LeaveFInv, NoLocUid, SMTT(30) DEF RemoveFinalizer, End, FInv
  <2> QED BY <2>1, <2>2
<1> QED BY <1>1, <1>2, <1>3, <1>4, <1>5, <1>6, <1>7, <1>8, <1>9, <1>10, <1>11, <1>12,
           PassCases

\* So do the informers and the collector, which never add a snapshot or object.
LEMMA ClusterFInv ==
  ASSUME TypeOK, FInv, Cluster
  PROVE  FInv'
<1> USE DEF envVars
<1>1. CASE DeliverWs
  <2>1. /\ wsCache' = wsStream[1] /\ 1 \in 1..Len(wsStream)
        /\ \A i \in 1..Len(wsStream') :
             i + 1 \in 1..Len(wsStream) /\ wsStream'[i] = wsStream[i + 1]
    BY <1>1 DEF DeliverWs, TypeOK
  <2>2. ws' = ws /\ nextUid' = nextUid /\ loc' = loc /\ pc' = pc /\ obj' = obj
    BY <1>1 DEF DeliverWs, objVars
  <2>3. Snapshots' \subseteq Snapshots
    BY <2>1, <2>2 DEF Snapshots
  <2> QED BY <2>2, <2>3 DEF FInv, Truthful, Guarded, Exists
<1>2. ASSUME NEW k \in Kinds, Deliver(k)
      PROVE  FInv'
  BY <1>2, LeaveFInv, SMTT(30) DEF Deliver, FInv, Snapshots
<1>3. ASSUME NEW k \in Kinds, CollectGarbage(k)
      PROVE  FInv'
  <2>1. \A j \in Kinds : obj'[j] \subseteq obj[j]
    BY <1>3 DEF CollectGarbage, StoreObj, TypeOK
  <2> QED BY <1>3, <2>1, LeaveFInv, SMTT(30)
          DEF CollectGarbage, FInv, Snapshots, External, Kinds
<1> QED BY <1>1, <1>2, <1>3 DEF Cluster

\* A new UID is larger than every one seen; an edit keeps the finalizer; a
\* Workspace with a finalizer is only marked when it is deleted.
LEMMA EnvironmentFInv ==
  ASSUME TypeOK, FInv, Environment
  PROVE  FInv'
<1> USE DEF objVars, envVars
<1>1. CASE CreateWs
  <2>1. PICK i \in Images : StoreWs([NoWs(i) EXCEPT !.uid = nextUid', !.rv = 1])
    BY <1>1, Zenon DEF CreateWs
  <2> DEFINE w == [NoWs(i) EXCEPT !.uid = nextUid', !.rv = 1]
  <2>2. /\ nextUid \in Nat /\ nextUid' = nextUid + 1 /\ nextUid' \in 0..MaxUid
        /\ loc' = loc /\ pc' = pc /\ obj' = obj
    BY <1>1, ConstantsAssumption DEF CreateWs, TypeOK
  <2>3. w \in WsType /\ w.uid = nextUid + 1
    BY <2>2, Zenon DEF NoWs, WsType, States
  <2> HIDE DEF w
  <2>4. ws' = w /\ \A v \in Snapshots' : v \in Snapshots \/ v = w
    BY <2>1, <2>2, <2>3, StoreWsSnapshots DEF w, Snapshots
  <2>5. \A v \in Snapshots : v.uid \in Nat /\ v.uid <= nextUid
    BY SnapshotTypes, SMTT(30) DEF FInv, Truthful, WsType
  <2>6. \A v \in Snapshots' : Truthful(v)'
    BY <2>2, <2>3, <2>4, <2>5 DEF Truthful, Exists
  <2>7. \A k \in External : \A o \in obj[k] : o.owner \in Nat /\ o.owner <= nextUid
    <3>1. \A k \in External : \A o \in obj[k] : o \in ObjType(k)
      BY Zenon DEF TypeOK, External, Kinds
    <3>2. \A k \in External : \A o \in obj[k] : o.owner \in Nat
      BY <3>1 DEF ObjType
    <3> QED BY <3>2 DEF FInv, Guarded
  <2>8. \A k \in External : \A o \in obj'[k] : Guarded(o)'
    BY <2>2, <2>3, <2>4, <2>7 DEF Guarded
  <2>9. ws'.uid <= nextUid'
    BY <2>2, <2>3, <2>4
  <2>10. pc' \in GatewaySteps => loc'.ws.finalizer
    BY <2>2 DEF FInv
  <2> QED BY <2>6, <2>8, <2>9, <2>10, Zenon DEF FInv
<1>2. CASE EditWs
  <2>1. PICK i \in Images, p \in BOOLEAN :
          StoreWs(Bumped([ws EXCEPT !.image = i, !.paused = p]))
    BY <1>2, Zenon DEF EditWs
  <2> DEFINE w == Bumped([ws EXCEPT !.image = i, !.paused = p])
  <2>2. w \in WsType /\ w.uid = ws.uid /\ w.finalizer = ws.finalizer
    <3> DEFINE x == [ws EXCEPT !.image = i, !.paused = p]
    <3>1. x \in WsType /\ x.uid = ws.uid /\ x.finalizer = ws.finalizer
      BY Zenon DEF TypeOK, WsType
    <3> HIDE DEF x
    <3>2. Bumped(x) \in WsType /\ Bumped(x).uid = ws.uid /\ Bumped(x).finalizer = ws.finalizer
      BY <3>1, BumpedType, BumpedFields
    <3> QED BY <3>2 DEF x
  <2> HIDE DEF w
  <2> QED BY <1>2, <2>1, <2>2, KeepFInv DEF EditWs, w, Snapshots, FInv
<1>3. CASE DeleteWs
  <2>1. CASE ws.finalizer
    <3> DEFINE w == Bumped([ws EXCEPT !.deleting = TRUE])
    <3>1. w \in WsType /\ w.uid = ws.uid /\ w.finalizer = ws.finalizer
      <4>1. /\ [ws EXCEPT !.deleting = TRUE] \in WsType
            /\ [ws EXCEPT !.deleting = TRUE].uid = ws.uid
            /\ [ws EXCEPT !.deleting = TRUE].finalizer = ws.finalizer
        BY Zenon DEF TypeOK, WsType
      <4> QED BY <4>1, BumpedType, BumpedFields, Zenon
    <3>2. StoreWs(w)
      BY <1>3, <2>1 DEF DeleteWs
    <3> HIDE DEF w
    <3> QED BY <1>3, <3>1, <3>2, KeepFInv DEF DeleteWs, Snapshots, FInv
  <2>2. CASE ~ws.finalizer
    <3>1. NoWs(AnyImage) \in WsType /\ NoWs(AnyImage).uid = 0
      BY NoneType DEF NoWs
    <3> QED BY <1>3, <2>2, <3>1, GoneFInv DEF DeleteWs, FInv
  <2> QED BY <2>1, <2>2
<1>4. CASE ChangeProfile
  BY <1>4, LeaveFInv DEF ChangeProfile, FInv, Snapshots
<1>5. CASE Abort
  BY <1>5, LeaveFInv, NoLocUid DEF Abort, FInv
<1>6. CASE Restart
  <2>1. /\ ws' = ws /\ wsCache' = ws /\ wsStream' = <<>> /\ loc' = NoLoc
        /\ pc' = "idle" /\ nextUid' = nextUid /\ obj' = obj
    BY <1>6 DEF Restart
  <2>2. \A v \in Snapshots' : v = ws \/ v.uid = 0
    BY <2>1, NoLocUid DEF Snapshots
  <2>3. \A v \in Snapshots' : Truthful(v)'
    BY <2>1, <2>2 DEF Truthful, FInv, TypeOK, Exists
  <2> QED BY <2>1, <2>3, NoLocUid DEF FInv, Guarded, Exists
<1> QED BY <1>1, <1>2, <1>3, <1>4, <1>5, <1>6 DEF Environment

(* The cleanup finalizer guards the ClusterRoleBinding and the HTTPRoute:    *)
(* whichever informers lag, whatever fails and in whichever modes the        *)
(* controller is restarted, one made for the present Workspace object exists *)
(* only while that object carries the finalizer.                             *)
THEOREM FinalizerGuards == Spec => []FinalizerGuardsExternal
<1>1. Init => FInv
  <2> SUFFICES ASSUME Init PROVE FInv
    OBVIOUS
  <2>1. \A v \in Snapshots : v.uid = 0
    BY NoLocUid, SMTT(30) DEF Init, Snapshots, NoWs
  <2>2. \A v \in Snapshots : Truthful(v)
    BY <2>1 DEF Truthful, Exists, Init
  <2> QED BY <2>2 DEF Init, FInv, NoWs, GatewaySteps, External, Kinds
<1>2. TypeOK /\ FInv /\ [Next]_vars => FInv'
  <2> SUFFICES ASSUME TypeOK, FInv, [Next]_vars PROVE FInv'
    OBVIOUS
  <2>1. CASE UNCHANGED vars
    BY <2>1, LeaveFInv, SMTT(30) DEF vars, wsVars, FInv, Snapshots
  <2> QED BY <2>1, PassFInv, ClusterFInv, EnvironmentFInv DEF Next
<1>3. FInv => FinalizerGuardsExternal
  BY DEF FInv, Guarded, FinalizerGuardsExternal
<1> QED BY <1>1, <1>2, <1>3, TypeCorrect, PTL DEF Spec

-----------------------------------------------------------------------------
(* Nothing is orphaned, if the informers of the two kinds keep up. *)

\* The steps before the finalizer was ensured, and those of a deletion.
EarlySteps == {"resolve", "sa", "saget", "sts1", "svc", "tls", "sts", "fin"}
DeletionSteps == {"delcrb", "delroute", "delfin"}

\* What the informer holds of the Workspace, as a set and oldest first.
Held == {wsCache} \cup {wsStream[i] : i \in 1..Len(wsStream)}
History == <<wsCache>> \o wsStream

\* The two kinds are read fresh.
Fresh ==
  /\ \A k \in External : cache[k] = obj[k] /\ stream[k] = <<>>
  /\ "ws" \notin Lagging => wsStream = <<>>

\* A snapshot that would let a pass create is of the object that is there; one
\* that shows its deletion is right.
Sound(v) ==
  /\ (Exists(v) /\ v.finalizer /\ ~v.deleting) => v.uid = ws.uid
  /\ (v.uid = ws.uid /\ v.deleting) => ws.deleting
  /\ ~Exists(v) => ~v.deleting

\* A deletion that was shown is not taken back.
Ordered ==
  \A i, j \in 1..Len(History) :
    (i < j /\ History[i].uid = History[j].uid /\ History[i].deleting)
      => History[j].deleting

\* What the pass has established at each of its steps.
PassInv ==
  /\ pc # "idle" => Exists(loc.ws)
  /\ pc \in EarlySteps => ~loc.ws.deleting
  /\ pc \in GatewaySteps => loc.ws.uid = ws.uid
  /\ pc \in DeletionSteps =>
       /\ loc.ws.deleting
       /\ \A v \in Held : v.uid = loc.ws.uid => v.deleting

CleanedUp ==
  /\ pc \in {"delroute", "delfin"} => obj["crb"] = {}
  /\ pc = "delfin" => obj["route"] = {}

(* The inductive invariant.  A pass creates one of the two resources on the  *)
(* strength of a snapshot with the finalizer that is not being deleted: such *)
(* a snapshot can only be of the object that is still there, because the     *)
(* object goes only after the cache has shown its deletion, and a cache does *)
(* not go back.                                                              *)
OInv ==
  /\ Fresh /\ NoOrphan
  /\ \A v \in Snapshots \cup {ws} : Sound(v)
  /\ Ordered /\ PassInv /\ CleanedUp

\* The history of the cache after a write: what is kept of it, and the write.
LEMMA StoreWsHistory ==
  ASSUME TypeOK, Fresh, NEW w \in WsType, StoreWs(w)
  PROVE  /\ "ws" \notin Lagging => wsStream' = <<>>
         /\ \A v \in Held' : v \in Held \/ v = w
         /\ \E n \in Nat : /\ Len(History') = n + 1 /\ History'[n + 1] = w
                           /\ \A i \in 1..n : /\ i \in 1..Len(History)
                                              /\ History'[i] = History[i]
<1>1. CASE "ws" \in Lagging
  <2>1. wsStream' = Append(wsStream, w) /\ wsCache' = wsCache
    BY <1>1 DEF StoreWs
  <2>2. /\ Len(wsStream) \in Nat /\ Len(wsStream') = Len(wsStream) + 1
        /\ wsStream'[Len(wsStream) + 1] = w
        /\ \A j \in 1..Len(wsStream) : wsStream'[j] = wsStream[j]
    BY <2>1 DEF TypeOK
  <2>3. \A v \in Held' : v \in Held \/ v = w
    BY <2>1, <2>2 DEF Held
  <2>4. /\ Len(History) = Len(wsStream) + 1
        /\ Len(History') = Len(wsStream) + 2
        /\ History[1] = wsCache /\ History'[1] = wsCache
        /\ \A j \in 1..Len(wsStream) : History[j + 1] = wsStream[j]
        /\ \A j \in 1..Len(wsStream) + 1 : History'[j + 1] = wsStream'[j]
    BY <2>1, <2>2, SMTT(30) DEF History, TypeOK
  <2>5. \A i \in 1..Len(wsStream) + 1 : /\ i \in 1..Len(History)
                                        /\ History'[i] = History[i]
    <3> TAKE i \in 1..Len(wsStream) + 1
    <3>1. CASE i = 1
      BY <3>1, <2>2, <2>4
    <3>2. CASE i # 1
      <4>0. i - 1 \in 1..Len(wsStream) /\ i = (i - 1) + 1
        BY <3>2, <2>2
      <4>1. PICK j \in 1..Len(wsStream) : i = j + 1
        BY <4>0
      <4>2. History[j + 1] = wsStream[j] /\ wsStream'[j] = wsStream[j]
        BY <2>2, <2>4
      <4>3. j \in 1..Len(wsStream) + 1 /\ i \in 1..Len(History)
        BY <2>2, <2>4
      <4>4. History'[j + 1] = wsStream'[j]
        BY <2>4, <4>3
      <4> QED BY <4>1, <4>2, <4>3, <4>4
    <3> QED BY <3>1, <3>2
  <2>6. History'[Len(wsStream) + 2] = w
    BY <2>2, <2>4
  <2> DEFINE n == Len(wsStream) + 1
  <2>7. n \in Nat /\ n + 1 = Len(wsStream) + 2
    BY <2>2
  <2>8. /\ Len(History') = n + 1 /\ History'[n + 1] = w
        /\ \A i \in 1..n : i \in 1..Len(History) /\ History'[i] = History[i]
    BY <2>4, <2>5, <2>6, <2>7
  <2> HIDE DEF n
  <2> QED BY <1>1, <2>3, <2>7, <2>8
<1>2. CASE "ws" \notin Lagging
  <2>1. wsCache' = w /\ wsStream' = <<>>
    BY <1>2 DEF StoreWs, Fresh
  <2>2. \A v \in Held' : v = w
    BY <2>1 DEF Held
  <2>3. Len(History') = 1 /\ History'[1] = w
    BY <2>1 DEF History
  <2>4. 0 \in Nat /\ Len(History') = 0 + 1 /\ History'[0 + 1] = w /\ 1..0 = {}
    BY <2>3
  <2> QED BY <2>1, <2>2, <2>4
<1> QED BY <1>1, <1>2

\* The entries of the history are what the informer holds.
LEMMA HistoryHeld ==
  ASSUME TypeOK
  PROVE  /\ Len(History) \in Nat
         /\ \A i \in 1..Len(History) : History[i] \in Held /\ History[i] \in WsType
         /\ Held \subseteq Snapshots
<1>1. /\ Len(wsStream) \in Nat /\ Len(History) = Len(wsStream) + 1
      /\ History[1] = wsCache
      /\ \A j \in 1..Len(wsStream) : History[j + 1] = wsStream[j]
  BY DEF History, TypeOK
<1>2. ASSUME NEW i \in 1..Len(History) PROVE History[i] \in Held /\ History[i] \in WsType
  <2>1. CASE i = 1
    BY <2>1, <1>1 DEF Held, TypeOK
  <2>2. CASE i # 1
    <3>1. i - 1 \in 1..Len(wsStream) /\ History[i] = wsStream[i - 1]
      BY <2>2, <1>1
    <3> QED BY <3>1 DEF Held, TypeOK
  <2> QED BY <2>1, <2>2
<1> QED BY <1>1, <1>2 DEF Held, Snapshots

\* A write of the Workspace leaves the snapshots sound and in order, if what was
\* shown before agrees with what is written.
LEMMA StoreWsSound ==
  ASSUME TypeOK, OInv, NEW w \in WsType, StoreWs(w),
         \A v \in Snapshots : (Exists(v) /\ v.finalizer /\ ~v.deleting) => v.uid = w.uid,
         \A v \in Snapshots : (v.uid = w.uid /\ v.deleting) => w.deleting,
         ~Exists(w) => ~w.deleting,
         loc'.ws \in Snapshots \cup {w} \/ loc' = NoLoc
  PROVE  /\ ws' = w /\ \A v \in Held' : v \in Held \/ v = w
         /\ "ws" \notin Lagging => wsStream' = <<>>
         /\ \A v \in (Snapshots \cup {ws})' : Sound(v)'
         /\ Ordered'
<1> USE DEF Exists
<1>1. ws' = w /\ \A v \in Snapshots' : v \in Snapshots \/ v = w \/ v = loc'.ws
  BY StoreWsSnapshots
<1>2. /\ "ws" \notin Lagging => wsStream' = <<>>
      /\ \A v \in Held' : v \in Held \/ v = w
  BY StoreWsHistory DEF OInv
<1>3. PICK n \in Nat : /\ Len(History') = n + 1 /\ History'[n + 1] = w
                      /\ \A i \in 1..n : i \in 1..Len(History) /\ History'[i] = History[i]
  BY StoreWsHistory DEF OInv
<1>4. \A v \in Snapshots \cup {w} : Sound(v)'
  BY <1>1 DEF OInv, Sound
<1>5. loc' = NoLoc => Sound(loc.ws)'
  BY SMTT(30) DEF Sound, NoLoc, NoWs
<1>6. \A v \in (Snapshots \cup {ws})' : Sound(v)'
  BY <1>1, <1>4, <1>5
<1>7. Ordered'
  <2> SUFFICES ASSUME NEW i \in 1..(n + 1), NEW j \in 1..(n + 1), i < j,
                      History'[i].uid = History'[j].uid, History'[i].deleting
               PROVE  History'[j].deleting
    BY <1>3 DEF Ordered
  <2>1. i \in 1..n /\ i \in 1..Len(History) /\ History'[i] = History[i]
    BY <1>3
  <2>2. CASE j \in 1..n
    BY <2>1, <2>2, <1>3 DEF OInv, Ordered
  <2>3. CASE j = n + 1
    BY <2>1, <2>3, <1>3, HistoryHeld
  <2> QED BY <2>2, <2>3
<1> QED BY <1>1, <1>2, <1>6, <1>7

\* A step that leaves the Workspace alone leaves the snapshots sound.
LEMMA LeaveSound ==
  ASSUME TypeOK, OInv, UNCHANGED wsVars, loc'.ws \in Snapshots \/ loc' = NoLoc
  PROVE  /\ ws' = ws /\ Held' = Held
         /\ "ws" \notin Lagging => wsStream' = <<>>
         /\ \A v \in (Snapshots \cup {ws})' : Sound(v)'
         /\ Ordered'
<1> USE DEF Exists
<1>1. ws' = ws /\ wsCache' = wsCache /\ wsStream' = wsStream
  BY DEF wsVars
<1>2. loc' = NoLoc => Sound(loc.ws)'
  BY DEF Sound, NoLoc, NoWs
<1>3. \A v \in Snapshots \cup {ws} : Sound(v)'
  BY <1>1 DEF OInv, Sound
<1>4. \A v \in (Snapshots \cup {ws})' : v \in Snapshots \cup {ws} \/ v = loc'.ws
  BY <1>1 DEF Snapshots
<1>5. \A v \in (Snapshots \cup {ws})' : Sound(v)'
  BY <1>2, <1>3, <1>4
<1> QED BY <1>1, <1>5 DEF OInv, Fresh, Held, History, Ordered

\* Idle, the pass has nothing to answer for.
LEMMA IdlePass == pc' = "idle" => PassInv' /\ CleanedUp'
  BY DEF PassInv, CleanedUp, EarlySteps, GatewaySteps, DeletionSteps

\* Leaving the two kinds alone.
LEMMA LeaveExternal ==
  ASSUME TypeOK, OInv, ws'.uid = ws.uid,
         \A k \in External : obj'[k] = obj[k] /\ cache'[k] = cache[k] /\ stream'[k] = stream[k],
         "ws" \notin Lagging => wsStream' = <<>>
  PROVE  Fresh' /\ NoOrphan'
  BY DEF OInv, Fresh, NoOrphan, Exists

\* A write of the status, and the end of the pass.
LEMMA StatusOInv ==
  ASSUME TypeOK, OInv, NEW s \in States,
         UNCHANGED wsVars \/ StoreWs(Bumped([ws EXCEPT !.state = s])),
         UNCHANGED objVars, pc' = "idle", loc' = NoLoc
  PROVE  OInv'
<1>1. CASE UNCHANGED wsVars
  BY <1>1, LeaveSound, IdlePass, LeaveExternal DEF OInv, objVars
<1>2. CASE StoreWs(Bumped([ws EXCEPT !.state = s]))
  <2> DEFINE w == Bumped([ws EXCEPT !.state = s])
  <2>1. w \in WsType /\ w.uid = ws.uid /\ w.deleting = ws.deleting
    BY StatusWrite
  <2> HIDE DEF w
  <2>2. /\ \A v \in Snapshots : (Exists(v) /\ v.finalizer /\ ~v.deleting) => v.uid = w.uid
        /\ \A v \in Snapshots : (v.uid = w.uid /\ v.deleting) => w.deleting
        /\ ~Exists(w) => ~w.deleting
    BY <2>1 DEF OInv, Sound, Exists
  <2>3. /\ ws' = w
        /\ "ws" \notin Lagging => wsStream' = <<>>
        /\ \A v \in (Snapshots \cup {ws})' : Sound(v)'
        /\ Ordered'
    BY <1>2, <2>1, <2>2, StoreWsSound DEF w
  <2> QED BY <2>1, <2>3, IdlePass, LeaveExternal DEF OInv, objVars
<1> QED BY <1>1, <1>2

\* A pass that ends in a state.
LEMMA EndInStateOInv ==
  ASSUME TypeOK, OInv, NEW s \in States, EndInState(s)
  PROVE  OInv'
<1>1. /\ UNCHANGED wsVars \/ StoreWs(Bumped([ws EXCEPT !.state = s]))
      /\ UNCHANGED objVars /\ pc' = "idle" /\ loc' = NoLoc
  BY DEF EndInState
<1> QED BY <1>1, StatusOInv

\* The order of the steps again: a pass does not turn back, nor to a deletion.
LEMMA AfterEarly ==
  \A s \in Steps : /\ After(s) \in EarlySteps => s \in EarlySteps
                   /\ After(s) \notin DeletionSteps
                   /\ After(s) \in GatewaySteps => s = "fin" \/ s \in GatewaySteps
  BY DEF After, Steps, Kinds, EarlySteps, DeletionSteps, GatewaySteps

\* The pass goes on with the Workspace it has, and no resource is deleted.
LEMMA OnwardPass ==
  ASSUME OInv, ws'.uid = ws.uid, loc'.ws = loc.ws, pc # "idle",
         pc' \in EarlySteps => pc \in EarlySteps,
         pc' \in GatewaySteps => pc \in GatewaySteps,
         pc' \notin DeletionSteps
  PROVE  PassInv' /\ CleanedUp'
  BY DEF OInv, PassInv, CleanedUp, DeletionSteps, Exists

\* Creating or updating a resource: what is made belongs to the present object.
LEMMA EnsureOInv ==
  ASSUME External \cap Lagging = {}, TypeOK, OInv, NEW k \in Kinds, Ensure(k),
         pc \notin {"fin", "idle"}, k \in External \cup {"sa"} => pc = k
  PROVE  OInv'
<1>1. CASE EnsureMany(k)
  BY <1>1, EndInStateOInv DEF EnsureMany, States
<1>2. CASE ~EnsureMany(k)
  <2> USE <1>2, EnsureEffect
  <2>1. UNCHANGED wsVars
    BY SMTT(30)
  <2>2. loc'.ws \in Snapshots \/ loc' = NoLoc
    BY DEF Snapshots
  <2>3. /\ ws' = ws
        /\ "ws" \notin Lagging => wsStream' = <<>>
        /\ \A v \in (Snapshots \cup {ws})' : Sound(v)'
        /\ Ordered'
    BY <2>1, <2>2, LeaveSound
  <2>4. PassInv' /\ CleanedUp'
    <3>1. CASE pc' = "idle"
      BY <3>1, IdlePass
    <3>2. CASE pc' = After(pc) /\ loc'.ws = loc.ws
      BY <3>2, <2>3, AfterEarly, OnwardPass, Zenon DEF TypeOK
    <3>3. CASE pc' = "saget" /\ k = "sa" /\ loc' = loc
      BY <3>3, <2>3, OnwardPass DEF EarlySteps, GatewaySteps, DeletionSteps
    <3> QED BY <3>1, <3>2, <3>3
  <2>5. ASSUME NEW j \in External
        PROVE  /\ cache'[j] = obj'[j] /\ stream'[j] = <<>>
               /\ \A o \in obj'[j] : Exists(ws) /\ o.owner = ws.uid
    <3>1. j \in Kinds /\ j \notin Lagging
      BY SMTT(30) DEF External, Kinds
    <3>2. CASE j # k
      BY <3>1, <3>2 DEF OInv, Fresh, NoOrphan
    <3>3. CASE j = k
      <4>1. Exists(ws) /\ loc.ws.uid = ws.uid
        BY <3>3, SMTT(30) DEF OInv, PassInv, External, GatewaySteps, Exists
      <4> QED BY <3>1, <3>3, <4>1, SMTT(30) DEF OInv, Fresh, NoOrphan
    <3> QED BY <3>2, <3>3, Zenon
  <2>6. Fresh' /\ NoOrphan'
    BY <2>3, <2>5, Zenon DEF Fresh, NoOrphan, Exists
  <2> QED BY <2>3, <2>4, <2>6, SMTT(30) DEF OInv
<1> QED BY <1>1, <1>2

\* A step of the pass that changes neither the Workspace nor a resource.
LEMMA QuietOInv ==
  ASSUME TypeOK, OInv, UNCHANGED <<wsVars, objVars>>,
         loc'.ws \in Snapshots \/ loc' = NoLoc, PassInv' /\ CleanedUp'
  PROVE  OInv'
  BY LeaveSound, LeaveExternal, Zenon DEF OInv, objVars

\* The deletion pass: it empties the two kinds before the finalizer goes.
LEMMA CleanUpOInv ==
  ASSUME External \cap Lagging = {}, TypeOK, OInv,
         NEW k \in External, NEW s, NEW next,
         CleanUp(k, s, next), s \in DeletionSteps, next \in {"delroute", "delfin"},
         next = "delroute" => k = "crb",
         next = "delfin" => k = "route" /\ s = "delroute"
  PROVE  OInv'
<1>1. /\ UNCHANGED wsVars /\ loc' = loc /\ pc = s /\ pc' = next
      /\ \/ cache[k] # {} /\ obj[k] # {} /\ StoreObj(k, {})
         \/ (cache[k] = {} \/ obj[k] = {}) /\ UNCHANGED objVars
  BY Zenon DEF CleanUp, Goto
<1>2. k \in Kinds /\ k \notin Lagging
  BY DEF External, Kinds
<1>3. /\ obj'[k] = {} /\ cache'[k] = {} /\ stream'[k] = <<>>
      /\ \A j \in External : j # k => /\ obj'[j] = obj[j] /\ cache'[j] = cache[j]
                                      /\ stream'[j] = stream[j]
  BY <1>1, <1>2, Zenon DEF StoreObj, TypeOK, OInv, Fresh, External, Kinds, objVars
<1>4. loc'.ws \in Snapshots
  BY <1>1, Zenon DEF Snapshots
<1>5. /\ ws' = ws /\ Held' = Held
      /\ "ws" \notin Lagging => wsStream' = <<>>
      /\ \A v \in (Snapshots \cup {ws})' : Sound(v)'
      /\ Ordered'
  BY <1>1, <1>4, LeaveSound, Zenon
<1>6. Fresh' /\ NoOrphan'
  BY <1>3, <1>5, Zenon DEF OInv, Fresh, NoOrphan, Exists
<1>7. PassInv'
  BY <1>1, <1>5, Zenon DEF OInv, PassInv, EarlySteps, GatewaySteps, DeletionSteps, Exists
<1>8. CleanedUp'
  BY <1>1, <1>3, Zenon DEF OInv, CleanedUp, External
<1> QED BY <1>5, <1>6, <1>7, <1>8 DEF OInv

\* Every step of a pass keeps OInv.
LEMMA PassOInv ==
  ASSUME External \cap Lagging = {}, TypeOK, FInv, OInv, Pass
  PROVE  OInv'
<1>1. CASE Start
  <2>1. CASE pc' = "idle"
    BY <1>1, <2>1, QuietOInv, IdlePass DEF Start, Snapshots, NoLoc, Goto
  <2>2. CASE pc' # "idle"
    <3>1. /\ loc'.ws = wsCache /\ Exists(wsCache) /\ wsCache \in Held
          /\ pc' \in {"resolve", "delcrb"}
          /\ pc' = "resolve" => ~wsCache.deleting
          /\ pc' = "delcrb" => wsCache.deleting
      BY <1>1, <2>2 DEF Start, Goto, NoLoc, Held
    <3>2. UNCHANGED <<wsVars, objVars>> /\ Held' = Held
      BY <1>1 DEF Start, Held, wsVars
    <3>3. wsCache.deleting => \A v \in Held : v.uid = wsCache.uid => v.deleting
      <4>1. /\ Len(wsStream) \in Nat /\ Len(History) = Len(wsStream) + 1
            /\ History[1] = wsCache
            /\ \A j \in 1..Len(wsStream) : History[j + 1] = wsStream[j]
        BY DEF History, TypeOK
      <4>2. \A j \in 1..Len(wsStream) :
              j + 1 \in 1..Len(History) /\ 1 < j + 1 /\ 1 \in 1..Len(History)
        BY <4>1
      <4>3. \A j \in 1..Len(wsStream) :
              (wsStream[j].uid = wsCache.uid /\ wsCache.deleting) => wsStream[j].deleting
        BY <4>1, <4>2 DEF OInv, Ordered
      <4> QED BY <4>3 DEF Held
    <3>4. PassInv' /\ CleanedUp'
      BY <3>1, <3>2, <3>3, SMTT(30)
         DEF PassInv, CleanedUp, EarlySteps, GatewaySteps, DeletionSteps, Exists
    <3> QED BY <3>1, <3>2, <3>4, QuietOInv DEF Snapshots
  <2> QED BY <2>1, <2>2
<1>2. CASE Resolve
  <2>1. CASE loc.ws.image \notin ValidImages
    BY <1>2, <2>1, EndInStateOInv DEF Resolve, States
  <2>2. CASE loc.ws.image \in ValidImages
    <3>1. loc'.ws = loc.ws /\ pc' = "sa" /\ UNCHANGED <<wsVars, objVars>> /\ pc = "resolve"
      BY <1>2, <2>2 DEF Resolve, Goto, After, TypeOK, LocType
    <3>2. PassInv' /\ CleanedUp'
      BY <3>1, OnwardPass DEF EarlySteps, GatewaySteps, DeletionSteps, wsVars
    <3> QED BY <3>1, <3>2, QuietOInv DEF Snapshots
  <2> QED BY <2>1, <2>2
<1>3. CASE GetServiceAccount
  <2>1. CASE \E o \in cache["sa"] : o.owner # loc.ws.uid
    BY <1>3, <2>1, EndInStateOInv, Zenon DEF GetServiceAccount, States
  <2>2. CASE ~\E o \in cache["sa"] : o.owner # loc.ws.uid
    BY <1>3, <2>2, QuietOInv, IdlePass DEF GetServiceAccount, End
  <2> QED BY <2>1, <2>2
<1>4. CASE EarlyStatefulSet
  BY <1>4, EnsureOInv DEF EarlyStatefulSet, Kinds, External
<1>5. CASE ResolveTLS
  <2>1. loc'.ws = loc.ws /\ pc' = "sts" /\ UNCHANGED <<wsVars, objVars>> /\ pc = "tls"
    BY <1>5 DEF ResolveTLS, Goto, After, TypeOK, LocType
  <2>2. PassInv' /\ CleanedUp'
    BY <2>1, OnwardPass DEF EarlySteps, GatewaySteps, DeletionSteps, wsVars
  <2> QED BY <2>1, <2>2, QuietOInv DEF Snapshots
<1>6. CASE StatefulSet
  <2>1. CASE Ensure("sts")
    BY <1>6, <2>1, EnsureOInv DEF StatefulSet, Kinds, External
  <2>2. CASE Skip("sts")
    <3>1. loc' = loc /\ pc = "sts" /\ pc' = After(pc) /\ UNCHANGED <<wsVars, objVars>>
      BY <1>6, <2>2 DEF StatefulSet, Skip, Goto
    <3>2. PassInv' /\ CleanedUp'
      BY <3>1, AfterEarly, OnwardPass DEF Steps, Kinds, wsVars
    <3> QED BY <3>1, <3>2, QuietOInv DEF Snapshots
  <2> QED BY <1>6, <2>1, <2>2 DEF StatefulSet
<1>7. ASSUME NEW k \in Kinds, Resource(k)
      PROVE  OInv'
  BY <1>7, EnsureOInv DEF Resource, Kinds
<1>8. CASE AddFinalizer
  <2>1. CASE loc.ws.finalizer
    <3>1. loc' = loc /\ pc = "fin" /\ pc' = "crb" /\ UNCHANGED <<wsVars, objVars>>
      BY <1>8, <2>1 DEF AddFinalizer, Goto, After
    <3>2. Exists(loc.ws) /\ ~loc.ws.deleting /\ Sound(loc.ws)
      BY <3>1 DEF OInv, PassInv, EarlySteps, Snapshots
    <3>3. loc.ws.uid = ws.uid
      BY <2>1, <3>2 DEF Sound
    <3>4. PassInv' /\ CleanedUp'
      BY <3>1, <3>2, <3>3
         DEF PassInv, CleanedUp, EarlySteps, GatewaySteps, DeletionSteps, wsVars, Exists
    <3> QED BY <3>1, <3>4, QuietOInv DEF Snapshots
  <2>2. CASE ~loc.ws.finalizer /\ Current(loc.ws)
    <3> DEFINE w == Bumped([ws EXCEPT !.finalizer = TRUE])
    <3>1. w \in WsType /\ w.uid = ws.uid /\ w.deleting = ws.deleting
      <4>1. /\ [ws EXCEPT !.finalizer = TRUE] \in WsType
            /\ [ws EXCEPT !.finalizer = TRUE].uid = ws.uid
            /\ [ws EXCEPT !.finalizer = TRUE].deleting = ws.deleting
        BY Zenon DEF TypeOK, WsType
      <4> QED BY <4>1, BumpedType, BumpedFields, Zenon
    <3>2. /\ StoreWs(w) /\ loc' = [loc EXCEPT !.ws = ws'] /\ UNCHANGED objVars
          /\ pc' = "crb" /\ Exists(ws)
      BY <1>8, <2>2, Zenon DEF AddFinalizer, Goto, After, Current, Exists
    <3> HIDE DEF w
    <3>3. loc'.ws = w /\ ws' = w
      BY <3>2 DEF StoreWs, TypeOK, LocType
    <3>4. /\ \A v \in Snapshots : (Exists(v) /\ v.finalizer /\ ~v.deleting) => v.uid = w.uid
          /\ \A v \in Snapshots : (v.uid = w.uid /\ v.deleting) => w.deleting
          /\ ~Exists(w) => ~w.deleting
      BY <3>1 DEF OInv, Sound, Exists
    <3>5. /\ "ws" \notin Lagging => wsStream' = <<>>
          /\ \A v \in (Snapshots \cup {ws})' : Sound(v)'
          /\ Ordered'
      BY <3>1, <3>2, <3>3, <3>4, StoreWsSound
    <3>6. PassInv' /\ CleanedUp'
      BY <3>1, <3>2, <3>3
         DEF PassInv, CleanedUp, EarlySteps, GatewaySteps, DeletionSteps, Exists
    <3> QED BY <3>1, <3>2, <3>3, <3>5, <3>6, LeaveExternal DEF OInv, objVars
  <2>3. CASE ~loc.ws.finalizer /\ ~Current(loc.ws)
    BY <1>8, <2>3, QuietOInv, IdlePass DEF AddFinalizer, End
  <2> QED BY <2>1, <2>2, <2>3
<1>9. CASE Route
  BY <1>9, EnsureOInv, EndInStateOInv DEF Route, Kinds, States
<1>10. CASE Status
  <2>1. \E s \in States : UNCHANGED wsVars \/ StoreWs(Bumped([ws EXCEPT !.state = s]))
    BY <1>10, Zenon DEF Status, States
  <2>2. UNCHANGED objVars /\ pc' = "idle" /\ loc' = NoLoc
    BY <1>10 DEF Status, End
  <2> QED BY <2>1, <2>2, StatusOInv
<1>11. CASE DeleteCRB
  BY <1>11, CleanUpOInv DEF DeleteCRB, External, DeletionSteps
<1>12. CASE DeleteRoute
  BY <1>12, CleanUpOInv DEF DeleteRoute, External, DeletionSteps
<1>13. CASE RemoveFinalizer
  <2>1. CASE Current(loc.ws)
    <3> DEFINE w == NoWs(AnyImage)
    <3>1. /\ StoreWs(w) /\ UNCHANGED objVars /\ pc = "delfin" /\ pc' = "idle" /\ loc' = NoLoc
          /\ loc.ws.uid = ws.uid
      BY <1>13, <2>1 DEF RemoveFinalizer, End, Current
    <3>2. w \in WsType /\ w.uid = 0 /\ ~w.deleting
      BY NoneType DEF NoWs
    <3> HIDE DEF w
    <3>3. \A v \in Snapshots : v.uid = ws.uid => v.deleting
      <4>1. PassInv
        BY DEF OInv
      <4>2. loc.ws.deleting /\ \A v \in Held : v.uid = ws.uid => v.deleting
        BY <3>1, <4>1, Zenon DEF PassInv, DeletionSteps
      <4>3. \A v \in Snapshots : v = loc.ws \/ v \in Held
        BY Zenon DEF Snapshots, Held
      <4> QED BY <4>2, <4>3, Zenon
    <3>4. /\ \A v \in Snapshots : (Exists(v) /\ v.finalizer /\ ~v.deleting) => v.uid = w.uid
          /\ \A v \in Snapshots : (v.uid = w.uid /\ v.deleting) => w.deleting
          /\ ~Exists(w) => ~w.deleting
      BY <3>2, <3>3 DEF OInv, Sound, Exists
    <3>5. /\ "ws" \notin Lagging => wsStream' = <<>>
          /\ \A v \in (Snapshots \cup {ws})' : Sound(v)'
          /\ Ordered'
      BY <3>1, <3>2, <3>4, StoreWsSound, SMTT(30)
    <3>6. Fresh' /\ NoOrphan'
      BY <3>1, <3>5, Zenon DEF OInv, Fresh, NoOrphan, CleanedUp, objVars, External
    <3> QED BY <3>1, <3>5, <3>6, IdlePass DEF OInv
  <2>2. CASE ~Current(loc.ws)
    BY <1>13, <2>2, QuietOInv, IdlePass DEF RemoveFinalizer, End
  <2> QED BY <2>1, <2>2
<1> QED BY <1>1, <1>2, <1>3, <1>4, <1>5, <1>6, <1>7, <1>8, <1>9, <1>10, <1>11, <1>12,
           <1>13, PassCases

\* The informer moves on by one version; the other two kinds' have none to give.
LEMMA DeliverWsOInv ==
  ASSUME TypeOK, OInv, DeliverWs
  PROVE  OInv'
<1>1. /\ Len(wsStream) \in Nat /\ Len(wsStream) > 0
      /\ Len(wsStream') = Len(wsStream) - 1
      /\ wsCache' = wsStream[1]
      /\ \A i \in 1..Len(wsStream') : wsStream'[i] = wsStream[i + 1]
      /\ wsStream' \in Seq(WsType) /\ wsStream \in Seq(WsType)
  BY HeadTail DEF DeliverWs, TypeOK
<1>2. ws' = ws /\ loc' = loc /\ pc' = pc /\ UNCHANGED objVars
  BY DEF DeliverWs
<1>3. /\ 1 \in 1..Len(wsStream)
      /\ \A i \in 1..Len(wsStream') : i + 1 \in 1..Len(wsStream)
  BY <1>1
<1>4. Held' \subseteq Held /\ Snapshots' \subseteq Snapshots
  BY <1>1, <1>2, <1>3 DEF Held, Snapshots
<1>5. \A v \in (Snapshots \cup {ws})' : Sound(v)'
  BY <1>2, <1>4 DEF OInv, Sound, Exists
<1>6. /\ Len(History') = Len(wsStream) /\ Len(History) = Len(wsStream) + 1
      /\ \A j \in 1..Len(wsStream) : History[j + 1] = wsStream[j]
      /\ History'[1] = wsStream[1]
      /\ \A j \in 1..Len(wsStream') : History'[j + 1] = wsStream'[j]
  BY <1>1 DEF History
<1>7. ASSUME NEW i \in 1..Len(History')
      PROVE  i + 1 \in 1..Len(History) /\ History'[i] = History[i + 1]
  <2>1. CASE i = 1
    BY <2>1, <1>1, <1>3, <1>6
  <2>2. CASE i # 1
    <3>1. i - 1 \in 1..Len(wsStream') /\ i = (i - 1) + 1 /\ i \in 1..Len(wsStream)
      BY <2>2, <1>1, <1>6, SMTT(30)
    <3>2. PICK j \in 1..Len(wsStream') : i = j + 1
      BY <3>1
    <3>3. History'[j + 1] = wsStream'[j] /\ wsStream'[j] = wsStream[j + 1]
      BY <1>1, <1>6
    <3> QED BY <1>1, <1>6, <3>1, <3>2, <3>3
  <2> QED BY <2>1, <2>2
<1>8. Ordered'
  <2> SUFFICES ASSUME NEW i \in 1..Len(History'), NEW j \in 1..Len(History'), i < j,
                      History'[i].uid = History'[j].uid, History'[i].deleting
               PROVE  History'[j].deleting
    BY DEF Ordered
  <2>1. i + 1 < j + 1
    BY <1>1, <1>6
  <2> QED BY <2>1, <1>7, SMTT(30) DEF OInv, Ordered
<1>9. PassInv' /\ CleanedUp'
  BY <1>2, <1>4 DEF OInv, PassInv, CleanedUp, objVars, Exists
<1>10. Fresh' /\ NoOrphan'
  <2>1. "ws" \in Lagging
    BY <1>1 DEF OInv, Fresh
  <2> QED BY <1>2, <2>1, LeaveExternal DEF objVars
<1> QED BY <1>5, <1>8, <1>9, <1>10 DEF OInv

LEMMA ClusterOInv ==
  ASSUME TypeOK, OInv, Cluster
  PROVE  OInv'
<1>1. CASE DeliverWs
  BY <1>1, DeliverWsOInv
<1>2. ASSUME NEW k \in Kinds, Deliver(k) \/ CollectGarbage(k)
      PROVE  OInv'
  <2>1. UNCHANGED wsVars /\ loc' = loc /\ pc' = pc
    BY <1>2, SMTT(30) DEF Deliver, CollectGarbage
  <2>2. k \notin External
    BY <1>2, Zenon DEF Deliver, CollectGarbage, Garbage, OInv, Fresh
  <2>3. \A j \in External : /\ obj'[j] = obj[j] /\ cache'[j] = cache[j]
                            /\ stream'[j] = stream[j]
    BY <1>2, <2>2, Zenon DEF Deliver, CollectGarbage, StoreObj, TypeOK, External, Kinds
  <2>4. /\ ws' = ws /\ Held' = Held
        /\ "ws" \notin Lagging => wsStream' = <<>>
        /\ \A v \in (Snapshots \cup {ws})' : Sound(v)'
        /\ Ordered'
    BY <2>1, LeaveSound, Zenon DEF Snapshots
  <2>5. PassInv' /\ CleanedUp'
    BY <2>1, <2>3, <2>4, Zenon DEF OInv, PassInv, CleanedUp, Exists, External
  <2> QED BY <2>3, <2>4, <2>5, LeaveExternal, Zenon DEF OInv
<1> QED BY <1>1, <1>2 DEF Cluster

\* A write by a user, which does not take back a deletion.
LEMMA UserOInv ==
  ASSUME TypeOK, OInv, NEW w \in WsType, StoreWs(w), w.uid = ws.uid, Exists(ws),
         ws.deleting => w.deleting, UNCHANGED <<objVars, pc, loc>>
  PROVE  OInv'
<1>1. loc'.ws \in Snapshots
  BY DEF Snapshots
<1>2. /\ \A v \in Snapshots : (Exists(v) /\ v.finalizer /\ ~v.deleting) => v.uid = w.uid
      /\ \A v \in Snapshots : (v.uid = w.uid /\ v.deleting) => w.deleting
      /\ ~Exists(w) => ~w.deleting
  BY DEF OInv, Sound, Exists
<1>3. /\ ws' = w /\ \A v \in Held' : v \in Held \/ v = w
      /\ "ws" \notin Lagging => wsStream' = <<>>
      /\ \A v \in (Snapshots \cup {ws})' : Sound(v)'
      /\ Ordered'
  BY <1>1, <1>2, StoreWsSound, Zenon
<1>4. PassInv' /\ CleanedUp'
  BY <1>2, <1>3, Zenon DEF OInv, PassInv, CleanedUp, Exists, Snapshots, objVars
<1> QED BY <1>3, <1>4, LeaveExternal, Zenon DEF OInv, objVars

LEMMA EnvironmentOInv ==
  ASSUME TypeOK, FInv, OInv, Environment
  PROVE  OInv'
<1> USE DEF envVars
<1>1. CASE CreateWs
  <2>1. PICK i \in Images : StoreWs([NoWs(i) EXCEPT !.uid = nextUid', !.rv = 1])
    BY <1>1, Zenon DEF CreateWs
  <2> DEFINE w == [NoWs(i) EXCEPT !.uid = nextUid', !.rv = 1]
  <2>2. /\ nextUid \in Nat /\ nextUid' = nextUid + 1 /\ nextUid' \in 0..MaxUid
        /\ loc' = loc /\ pc' = pc /\ UNCHANGED objVars /\ ~Exists(ws)
    BY <1>1, ConstantsAssumption DEF CreateWs, TypeOK
  <2>3. w \in WsType /\ w.uid = nextUid + 1 /\ ~w.deleting
    BY <2>2, Zenon DEF NoWs, WsType, States
  <2>4. StoreWs(w)
    BY <2>1
  <2> HIDE DEF w
  <2>5. \A v \in Snapshots : v.uid # w.uid
    BY <2>2, <2>3, SnapshotTypes, SMTT(30) DEF FInv, Truthful, WsType
  <2>6. /\ \A v \in Snapshots : (Exists(v) /\ v.finalizer /\ ~v.deleting) => v.uid = w.uid
        /\ \A v \in Snapshots : (v.uid = w.uid /\ v.deleting) => w.deleting
        /\ ~Exists(w) => ~w.deleting
    BY <2>2, <2>3, <2>5 DEF OInv, Sound, Exists
  <2>7. /\ ws' = w /\ \A v \in Held' : v \in Held \/ v = w
        /\ "ws" \notin Lagging => wsStream' = <<>>
        /\ \A v \in (Snapshots \cup {ws})' : Sound(v)'
        /\ Ordered'
    BY <2>2, <2>3, <2>4, <2>6, StoreWsSound, Zenon DEF Snapshots
  <2>8. PassInv' /\ CleanedUp'
    <3>1. loc.ws.uid # w.uid
      BY <2>5 DEF Snapshots
    <3> QED BY <3>1, <2>2, <2>7, SMTT(30)
            DEF OInv, PassInv, CleanedUp, Exists, objVars, GatewaySteps
  <2>9. Fresh' /\ NoOrphan'
    BY <2>2, <2>7, Zenon DEF OInv, Fresh, NoOrphan, objVars
  <2> QED BY <2>7, <2>8, <2>9 DEF OInv
<1>2. CASE EditWs
  <2>1. PICK i \in Images, p \in BOOLEAN :
          StoreWs(Bumped([ws EXCEPT !.image = i, !.paused = p]))
    BY <1>2, Zenon DEF EditWs
  <2> DEFINE x == [ws EXCEPT !.image = i, !.paused = p]
  <2>2. x \in WsType /\ x.uid = ws.uid /\ x.deleting = ws.deleting
    BY Zenon DEF TypeOK, WsType
  <2>3. StoreWs(Bumped(x))
    BY <2>1
  <2> HIDE DEF x
  <2>4. Bumped(x) \in WsType /\ Bumped(x).uid = ws.uid /\ Bumped(x).deleting = ws.deleting
    BY <2>2, BumpedType, BumpedFields
  <2> QED BY <1>2, <2>3, <2>4, UserOInv DEF EditWs
<1>3. CASE DeleteWs
  <2>1. CASE ws.finalizer
    <3> DEFINE x == [ws EXCEPT !.deleting = TRUE]
    <3>1. x \in WsType /\ x.uid = ws.uid /\ x.deleting
      BY Zenon DEF TypeOK, WsType
    <3>2. StoreWs(Bumped(x))
      BY <1>3, <2>1 DEF DeleteWs
    <3> HIDE DEF x
    <3>3. Bumped(x) \in WsType /\ Bumped(x).uid = ws.uid /\ Bumped(x).deleting
      BY <3>1, BumpedType, BumpedFields
    <3> QED BY <1>3, <3>2, <3>3, UserOInv DEF DeleteWs
  <2>2. CASE ~ws.finalizer
    <3> DEFINE w == NoWs(AnyImage)
    <3>1. /\ StoreWs(w) /\ UNCHANGED objVars /\ pc' = pc /\ loc' = loc /\ Exists(ws)
      BY <1>3, <2>2 DEF DeleteWs
    <3>2. w \in WsType /\ w.uid = 0 /\ ~w.deleting
      BY NoneType DEF NoWs
    <3> HIDE DEF w
    <3>3. \A v \in Snapshots : ~(Exists(v) /\ v.finalizer /\ ~v.deleting)
      BY <2>2, Zenon DEF OInv, Sound, FInv, Truthful
    <3>4. /\ \A v \in Snapshots : (Exists(v) /\ v.finalizer /\ ~v.deleting) => v.uid = w.uid
          /\ \A v \in Snapshots : (v.uid = w.uid /\ v.deleting) => w.deleting
          /\ ~Exists(w) => ~w.deleting
      BY <3>2, <3>3 DEF OInv, Sound, Exists
    <3>5. /\ ws' = w /\ \A v \in Held' : v \in Held \/ v = w
          /\ "ws" \notin Lagging => wsStream' = <<>>
          /\ \A v \in (Snapshots \cup {ws})' : Sound(v)'
          /\ Ordered'
      BY <3>1, <3>2, <3>4, StoreWsSound, Zenon DEF Snapshots
    <3>6. pc \notin GatewaySteps
      BY <2>2, Zenon DEF OInv, PassInv, FInv, Truthful, Snapshots, GatewaySteps, Exists
    <3>7. PassInv' /\ CleanedUp'
      BY <3>1, <3>2, <3>5, <3>6, Zenon
         DEF OInv, PassInv, CleanedUp, Exists, objVars, DeletionSteps
    <3>8. Fresh' /\ NoOrphan'
      <4>1. Fresh /\ NoOrphan
        BY DEF OInv
      <4>2. \A k \in External : \A o \in obj[k] : FALSE
        BY <2>2, <3>1, <4>1, Zenon DEF NoOrphan, FInv, Guarded
      <4>3. Fresh'
        BY <3>1, <3>5, <4>1, Zenon DEF Fresh, objVars
      <4>4. NoOrphan'
        BY <3>1, <4>2, Zenon DEF NoOrphan, objVars
      <4> QED BY <4>3, <4>4
    <3> QED BY <3>5, <3>7, <3>8 DEF OInv
  <2> QED BY <2>1, <2>2
<1>4. CASE ChangeProfile
  <2>1. UNCHANGED <<wsVars, objVars>> /\ loc' = loc /\ pc' = pc
    BY <1>4 DEF ChangeProfile
  <2>2. PassInv' /\ CleanedUp'
    BY <2>1, SMTT(30) DEF OInv, PassInv, CleanedUp, Exists, wsVars, objVars, Held
  <2> QED BY <2>1, <2>2, QuietOInv DEF Snapshots
<1>5. CASE Abort
  BY <1>5, QuietOInv, IdlePass DEF Abort
<1>6. CASE Restart
  <2>1. /\ ws' = ws /\ wsCache' = ws /\ wsStream' = <<>> /\ loc' = NoLoc
        /\ pc' = "idle" /\ obj' = obj /\ cache' = obj
        /\ \A k \in External : stream'[k] = <<>>
    BY <1>6 DEF Restart, External, Kinds
  <2>2. \A v \in Snapshots' : v = ws \/ v = NoLoc.ws
    BY <2>1 DEF Snapshots
  <2>3. NoLoc.ws.uid = 0 /\ ~NoLoc.ws.deleting
    BY SMTT(30) DEF NoLoc, NoWs
  <2>4. \A v \in (Snapshots \cup {ws})' : Sound(v)'
    BY <2>1, <2>2, <2>3, Zenon DEF OInv, Sound, Exists
  <2>5. Len(History') = 1
    BY <2>1, SMTT(30) DEF History
  <2>6. Ordered'
    BY <2>5 DEF Ordered
  <2>7. Fresh' /\ NoOrphan'
    BY <2>1 DEF OInv, Fresh, NoOrphan, Exists
  <2> QED BY <2>1, <2>4, <2>6, <2>7, IdlePass DEF OInv
<1> QED BY <1>1, <1>2, <1>3, <1>4, <1>5, <1>6 DEF Environment

(* No ClusterRoleBinding or HTTPRoute outlives its Workspace, as long as the *)
(* informers of these two kinds keep up, however far behind the Workspace's  *)
(* own is: the deletion path empties both before it lets the object go, and  *)
(* a pass that is late does not create them again.  Without the assumption   *)
(* it is false: see the run on a lagging ClusterRoleBinding informer.        *)
THEOREM NothingOrphaned ==
  ASSUME External \cap Lagging = {}
  PROVE  Spec => []NoOrphan
<1>1. Init => FInv /\ OInv
  <2> SUFFICES ASSUME Init PROVE FInv /\ OInv
    OBVIOUS
  <2>1. \A v \in Snapshots \cup {ws} : v.uid = 0 /\ ~v.deleting
    BY NoLocUid, SMTT(30) DEF Init, Snapshots, NoWs, NoLoc
  <2>2. FInv
    BY <2>1, SMTT(30) DEF Init, FInv, Truthful, Exists, NoWs, GatewaySteps, External, Kinds
  <2>3. \A v \in Snapshots \cup {ws} : Sound(v)
    BY <2>1 DEF Sound, Exists
  <2>4. Len(History) = 1
    BY DEF Init, History
  <2>5. Ordered
    BY <2>4 DEF Ordered
  <2>6. PassInv /\ CleanedUp
    BY Zenon DEF Init, PassInv, CleanedUp, EarlySteps, GatewaySteps, DeletionSteps
  <2>7. \A k \in External : k \in Kinds
    BY DEF External, Kinds
  <2>8. Fresh /\ NoOrphan
    <3>1. \A k \in Kinds : obj[k] = {} /\ cache[k] = {} /\ stream[k] = <<>>
      BY DEF Init
    <3>2. wsStream = <<>>
      BY DEF Init
    <3> QED BY <2>7, <3>1, <3>2, Zenon DEF Fresh, NoOrphan
  <2> QED BY <2>2, <2>3, <2>5, <2>6, <2>8, Zenon DEF OInv
<1>2. TypeOK /\ FInv /\ OInv /\ [Next]_vars => FInv' /\ OInv'
  <2> SUFFICES ASSUME TypeOK, FInv, OInv, [Next]_vars PROVE FInv' /\ OInv'
    OBVIOUS
  <2>1. CASE UNCHANGED vars
    <3>1. PassInv' /\ CleanedUp'
      BY <2>1, Zenon DEF vars, OInv, PassInv, CleanedUp, Exists, Held
    <3>2. OInv'
      BY <2>1, <3>1, QuietOInv, Zenon DEF vars, wsVars, objVars, Snapshots
    <3> QED BY <2>1, <3>2, LeaveFInv, Zenon DEF vars, wsVars, FInv, Snapshots
  <2> QED BY <2>1, PassFInv, ClusterFInv, EnvironmentFInv,
             PassOInv, ClusterOInv, EnvironmentOInv DEF Next
<1>3. OInv => NoOrphan
  BY DEF OInv
<1> QED BY <1>1, <1>2, <1>3, TypeCorrect, PTL DEF Spec

=============================================================================
