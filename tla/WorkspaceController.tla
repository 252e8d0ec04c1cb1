------------------------ MODULE WorkspaceController ------------------------
(***************************************************************************)
(* The reconcile loop of one Workspace (workspace_controller.go).          *)
(*                                                                         *)
(* controller-runtime serialises the passes for one key, so there is one   *)
(* pass (pc, loc) and one work-queue flag (queue).  Every write goes to    *)
(* the API server (ws, obj).  Every read but one goes to an informer cache *)
(* (wsCache, cache), which follows the server through a FIFO watch stream  *)
(* (wsStream, stream) and so shows some earlier state of it.  A kind that  *)
(* is not in Lagging is delivered at once.                                 *)
(*                                                                         *)
(* Each step of the pass is one API call with the cache read before it.    *)
(* Abort ends a pass after any step: a failed call, a lost response, an    *)
(* error returned by a part of the pass that is not tracked.               *)
(***************************************************************************)
EXTENDS Integers, Sequences, FiniteSets

CONSTANTS
  Images,        \* the imageConfig a Workspace may select
  ValidImages,   \* those getImageConfig resolves
  HttpImages,    \* those with an HTTP port, for which a sidecar is generated
  Profiles,      \* usable cluster TLS profiles
  Modes,         \* the routing modes the controller may be (re)started in
  Tracked,       \* the resource kinds this instance follows
  Lagging,       \* the kinds (and "ws") whose informer may lag
  MaxLag,        \* bound: events an informer is behind when a pass starts
  MaxUid,        \* bound: Workspaces created under this name
  MaxEdits,      \* bound: spec edits
  MaxProfile,    \* bound: changes of the cluster TLS profile
  MaxAborts,     \* bound: passes cut short
  MaxRestarts    \* bound: controller restarts

Kinds == {"sa", "sts", "svc", "vs", "crb", "cm", "psvc", "rg", "route", "rb"}

\* A strict profile the proxy cannot honour: ResolveProxyTLS returns an error.
Unusable == "unusable"

ASSUME ConstantsAssumption ==
  /\ Images # {}
  /\ ValidImages \subseteq Images
  /\ HttpImages \subseteq Images
  /\ Modes \subseteq {"gateway", "istio", "none"}
  /\ Tracked \subseteq Kinds
  /\ Lagging \subseteq Kinds \cup {"ws"}
  /\ Unusable \notin Profiles
  /\ MaxLag \in Nat /\ MaxUid \in Nat /\ MaxEdits \in Nat /\ MaxProfile \in Nat
  /\ MaxAborts \in Nat /\ MaxRestarts \in Nat

VARIABLES
  ws, wsCache, wsStream,   \* the Workspace: server, cache, watch stream
  obj, cache, stream,      \* the resources, per kind
  nextId,                  \* per kind: the object UIDs already given
  nextUid,                 \* Workspace UIDs already given
  mode, profile,           \* routing mode, cluster TLS profile
  pc, loc, queue,          \* the pass, its local variables, the work queue
  used                     \* environment steps taken, against the bounds

vars == <<ws, wsCache, wsStream, obj, cache, stream, nextId, nextUid,
          mode, profile, pc, loc, queue, used>>

objVars == <<obj, cache, stream, nextId>>
wsVars  == <<ws, wsCache, wsStream>>
envVars == <<nextUid, mode, profile, used>>
-----------------------------------------------------------------------------
(* Kinds, and how the pass handles each of them. *)

\* Created with metadata.generateName: a second Create makes a second object.
GenerateName == {"sts", "svc", "vs"}
\* Cluster-scoped or in another namespace: no ownerReference, no GC.
External == {"crb", "route"}
\* An AlreadyExists from Create is swallowed and the pass goes on.
Tolerant == {"crb", "cm", "psvc", "rg"}
\* The manager's client reads ConfigMaps from the API server.
Uncached == {"cm"}
\* Mutant of Watched: a controller that does not own the ServiceAccounts.
WatchedNoAccounts(k) ==
  k \in {"sts", "svc", "psvc", "rb"} \/ (k = "vs" /\ mode = "istio")

\* An event on the kind enqueues the Workspace.
Watched(k) == k \in {"sts", "svc", "psvc", "sa", "rb"} \/ (k = "vs" /\ mode = "istio")

\* Status.State with what Status.StateMessage says of it.
States == {"Unknown", "Ok", "ErrImage", "ErrMany", "ErrOwner", "ErrRoute", "ErrTLS"}

\* The steps of a pass, and their order in the code.
Steps == Kinds \cup {"idle", "resolve", "saget", "sts1", "tls", "fin", "status",
                     "delcrb", "delroute", "delfin"}

After(s) ==
  CASE s = "resolve"           -> "sa"
    [] s \in {"sa", "saget"}   -> IF mode = "gateway" THEN "svc" ELSE "sts1"
    [] s = "sts1"              -> "svc"
    [] s = "svc"               -> IF mode = "gateway" THEN "tls" ELSE "sts"
    [] s = "tls"               -> "sts"
    [] s = "sts"               -> IF mode = "gateway" THEN "fin"
                                  ELSE IF mode = "istio" THEN "vs" ELSE "rb"
    [] s = "fin"               -> "crb"
    [] s = "crb"               -> "cm"
    [] s = "cm"                -> "psvc"
    [] s = "psvc"              -> "rg"
    [] s = "rg"                -> "route"
    [] s \in {"vs", "route"}   -> "rb"
    [] OTHER                   -> "status"

NoWs(i) == [uid |-> 0, rv |-> 0, deleting |-> FALSE, finalizer |-> FALSE,
            image |-> i, paused |-> FALSE, state |-> "Unknown"]
AnyImage == CHOOSE i \in Images : TRUE
NoSts == [tmpl |-> [image |-> AnyImage, tls |-> "none"], replicas |-> 0]

\* loc.ws: the in-memory Workspace.  loc.sts: the desired StatefulSet.
\* loc.stored: it carries a resourceVersion.  loc.write: writeStatefulSet.
\* loc.tlsErr: proxyTLSErr # nil.
NoLoc == [ws |-> NoWs(AnyImage), sts |-> NoSts, stored |-> FALSE,
          write |-> TRUE, tlsErr |-> FALSE]

Exists(w) == w.uid # 0

Init ==
  /\ ws = NoWs(AnyImage) /\ wsCache = ws /\ wsStream = <<>>
  /\ obj = [k \in Kinds |-> {}] /\ cache = obj
  /\ stream = [k \in Kinds |-> <<>>]
  /\ nextId = [k \in Kinds |-> 0] /\ nextUid = 0
  /\ mode \in Modes /\ profile \in Profiles
  /\ pc = "idle" /\ loc = NoLoc /\ queue = FALSE
  /\ used = [edits |-> 0, profiles |-> 0, aborts |-> 0, restarts |-> 0]
-----------------------------------------------------------------------------
(* The API server and the informers. *)

\* Every accepted write gives the object a new resourceVersion.
Bumped(r) == [r EXCEPT !.rv = @ + 1]

\* A write of the Workspace; the watch event reaches the cache now or later.
StoreWs(w) ==
  /\ ws' = w
  /\ IF "ws" \in Lagging
     THEN wsStream' = Append(wsStream, w) /\ UNCHANGED wsCache
     ELSE wsCache' = w /\ UNCHANGED wsStream

\* A write of the objects of kind k.
StoreObj(k, objects) ==
  /\ obj' = [obj EXCEPT ![k] = objects]
  /\ IF k \in Lagging
     THEN stream' = [stream EXCEPT ![k] = Append(@, objects)] /\ UNCHANGED cache
     ELSE cache' = [cache EXCEPT ![k] = objects] /\ UNCHANGED stream

\* Whether a write is followed at once by an event that enqueues the Workspace.
WsEvent == "ws" \notin Lagging
ObjEvent(k) == k \notin Lagging /\ Watched(k)

\* An Update or Status().Update is accepted only on the version it was read at.
Current(w) == Exists(w) /\ ws.uid = w.uid /\ ws.rv = w.rv

DeliverWs ==
  /\ wsStream # <<>>
  /\ wsCache' = Head(wsStream) /\ wsStream' = Tail(wsStream)
  /\ queue' = TRUE
  /\ UNCHANGED <<ws, objVars, envVars, pc, loc>>

Deliver(k) ==
  /\ stream[k] # <<>>
  /\ cache' = [cache EXCEPT ![k] = Head(stream[k])]
  /\ stream' = [stream EXCEPT ![k] = Tail(@)]
  /\ queue' = (queue \/ Watched(k))
  /\ UNCHANGED <<wsVars, obj, nextId, envVars, pc, loc>>

\* Owned objects whose owner is gone are garbage collected.
Garbage(k) == IF k \in External THEN {} ELSE {o \in obj[k] : o.owner # ws.uid}

CollectGarbage(k) ==
  /\ \E o \in Garbage(k) : StoreObj(k, obj[k] \ {o})
  /\ queue' = (queue \/ ObjEvent(k))
  /\ UNCHANGED <<wsVars, nextId, envVars, pc, loc>>
-----------------------------------------------------------------------------
(* Users, administrators, the controller's process. *)

CreateWs ==
  /\ ~Exists(ws) /\ nextUid < MaxUid
  /\ nextUid' = nextUid + 1
  /\ \E i \in Images :
       StoreWs([NoWs(i) EXCEPT !.uid = nextUid', !.rv = 1])
  /\ queue' = (queue \/ WsEvent)
  /\ UNCHANGED <<objVars, mode, profile, used, pc, loc>>

\* An edit of the spec, spec.paused included (a user's, or the activity patch).
EditWs ==
  /\ Exists(ws) /\ used.edits < MaxEdits
  /\ \E i \in Images, p \in BOOLEAN :
       /\ <<i, p>> # <<ws.image, ws.paused>>
       /\ StoreWs(Bumped([ws EXCEPT !.image = i, !.paused = p]))
  /\ used' = [used EXCEPT !.edits = @ + 1]
  /\ queue' = (queue \/ WsEvent)
  /\ UNCHANGED <<objVars, nextUid, mode, profile, pc, loc>>

\* With a finalizer the object stays, marked; without one it is gone.
DeleteWs ==
  /\ Exists(ws) /\ ~ws.deleting
  /\ StoreWs(IF ws.finalizer THEN Bumped([ws EXCEPT !.deleting = TRUE])
                             ELSE NoWs(AnyImage))
  /\ queue' = (queue \/ WsEvent)
  /\ UNCHANGED <<objVars, envVars, pc, loc>>

ChangeProfile ==
  /\ used.profiles < MaxProfile
  /\ profile' \in (Profiles \cup {Unusable}) \ {profile}
  /\ used' = [used EXCEPT !.profiles = @ + 1]
  /\ UNCHANGED <<wsVars, objVars, nextUid, mode, pc, loc, queue>>

Abort ==
  /\ pc # "idle" /\ used.aborts < MaxAborts
  /\ used' = [used EXCEPT !.aborts = @ + 1]
  /\ pc' = "idle" /\ loc' = NoLoc /\ queue' = TRUE
  /\ UNCHANGED <<wsVars, objVars, nextUid, mode, profile>>

\* The new process lists everything before its first pass, and enqueues it.
Restart ==
  /\ used.restarts < MaxRestarts
  /\ used' = [used EXCEPT !.restarts = @ + 1]
  /\ mode' \in Modes
  /\ wsCache' = ws /\ wsStream' = <<>>
  /\ cache' = obj /\ stream' = [k \in Kinds |-> <<>>]
  /\ pc' = "idle" /\ loc' = NoLoc /\ queue' = TRUE
  /\ UNCHANGED <<ws, obj, nextId, nextUid, profile>>
-----------------------------------------------------------------------------
(* The pass: how it begins, goes on and ends. *)

Goto(s) == pc' = s
End(requeue) == pc' = "idle" /\ loc' = NoLoc /\ queue' = (queue \/ requeue)

Start ==
  /\ pc = "idle" /\ queue
  /\ Len(wsStream) <= MaxLag /\ \A k \in Kinds : Len(stream[k]) <= MaxLag
  /\ queue' = FALSE
  /\ LET begin == IF ~Exists(wsCache) THEN "idle"
                  ELSE IF ~wsCache.deleting THEN "resolve"
                  ELSE IF wsCache.finalizer THEN "delcrb" ELSE "idle"
     IN /\ Goto(begin)
        /\ loc' = IF begin = "idle" THEN NoLoc ELSE [NoLoc EXCEPT !.ws = wsCache]
  /\ UNCHANGED <<wsVars, objVars, envVars>>

\* updateWorkspaceState, and the pass ends: a conflict is retried.
EndInState(s) ==
  /\ pc' = "idle" /\ loc' = NoLoc
  /\ \/ /\ loc.ws.state # s /\ Current(loc.ws)
        /\ StoreWs(Bumped([ws EXCEPT !.state = s]))
        /\ queue' = (queue \/ WsEvent)
     \/ /\ loc.ws.state = s
        /\ UNCHANGED <<wsVars, queue>>
     \/ /\ loc.ws.state # s /\ ~Current(loc.ws)
        /\ queue' = TRUE
        /\ UNCHANGED wsVars
  /\ UNCHANGED <<objVars, envVars>>

\* What the generators make of the Workspace: the parts that depend on its spec.
GenerateStatefulSet(w) == [tmpl |-> [image |-> w.image, tls |-> "none"],
                           replicas |-> IF w.paused THEN 0 ELSE 1]
GenerateService(w) == w.image
GenerateVirtualService(w) == w.image
GenerateHTTPRoute(w) == w.image

\* The sidecar is generated for an image with an HTTP port, with the TLS profile.
SidecarNeeded(w) == w.image \in HttpImages
WithSidecar(sts, p) == [sts EXCEPT !.tmpl.tls = p]

\* getImageConfig and getPodConfig; the desired StatefulSet is generated from
\* what they return.
Resolve ==
  /\ pc = "resolve"
  /\ \/ /\ loc.ws.image \notin ValidImages
        /\ EndInState("ErrImage")
     \/ /\ loc.ws.image \in ValidImages
        /\ Goto(After("resolve"))
        /\ loc' = [loc EXCEPT !.sts = GenerateStatefulSet(loc.ws)]
        /\ UNCHANGED <<wsVars, objVars, envVars, queue>>
-----------------------------------------------------------------------------
(* One resource: find it in the cache, then create or update it. *)

\* The remaining kinds depend on the Workspace's name alone.
Desired(k) == CASE k = "sts"   -> loc.sts
                [] k = "svc"   -> GenerateService(loc.ws)
                [] k = "vs"    -> GenerateVirtualService(loc.ws)
                [] k = "route" -> GenerateHTTPRoute(loc.ws)
                [] OTHER       -> "fixed"

\* Mutant of Found: a List by labels that follow the spec.
FoundByLabels(k) == {o \in cache[k] : o.spec = Desired(k)}

\* What the List on the owner's name, or the Get by name, returns.
Found(k) == IF k \in Uncached THEN obj[k] ELSE cache[k]

NewObject(k) == [id |-> nextId[k] + 1, rv |-> 1, owner |-> loc.ws.uid,
                 spec |-> Desired(k)]

\* Create is refused when a fixed name is taken.
AlreadyExists(k) == k \notin GenerateName /\ obj[k] # {}

CreateObj(k) ==
  /\ StoreObj(k, obj[k] \cup {NewObject(k)})
  /\ nextId' = [nextId EXCEPT ![k] = @ + 1]
  /\ queue' = (queue \/ ObjEvent(k))

\* An Update of the object as it was found, with the desired spec.
UpdateObj(k, o) ==
  /\ StoreObj(k, (obj[k] \ {o}) \cup {Bumped([o EXCEPT !.spec = Desired(k)])})
  /\ queue' = (queue \/ ObjEvent(k))
  /\ UNCHANGED nextId

\* Mutant of NeedsUpdate: the ports of a Service are not compared.
NeedsUpdateNoPorts(k, o) == k \notin {"psvc", "svc"} /\ o.spec # Desired(k)

\* The existing proxy Service is left as it is.
NeedsUpdate(k, o) == k # "psvc" /\ o.spec # Desired(k)

\* The next step of the pass, with the StatefulSet the code keeps in hand.
Proceed(k, spec) ==
  /\ Goto(After(pc))
  /\ loc' = IF k = "sts" THEN [loc EXCEPT !.sts = spec, !.stored = TRUE] ELSE loc
  /\ UNCHANGED <<wsVars, envVars>>

EnsureNone(k) ==
  /\ Found(k) = {}
  /\ IF AlreadyExists(k)
     THEN CASE k \in Tolerant ->
                 Proceed(k, Desired(k)) /\ UNCHANGED <<objVars, queue>>
            [] k = "sa" ->
                 /\ Goto("saget")
                 /\ UNCHANGED <<loc, queue, wsVars, objVars, envVars>>
            [] OTHER -> End(TRUE) /\ UNCHANGED <<wsVars, objVars, envVars>>
     ELSE IF k = "sts" /\ loc.stored
     THEN End(TRUE) /\ UNCHANGED <<wsVars, objVars, envVars>>
     ELSE CreateObj(k) /\ Proceed(k, Desired(k))

EnsureOne(k) ==
  \E o \in Found(k) :
    /\ Found(k) = {o}
    /\ IF ~NeedsUpdate(k, o)
       THEN Proceed(k, o.spec) /\ UNCHANGED <<objVars, queue>>
       ELSE IF o \in obj[k]
       THEN UpdateObj(k, o) /\ Proceed(k, Desired(k))
       ELSE End(TRUE) /\ UNCHANGED <<wsVars, objVars, envVars>>

\* Mutant of EnsureMany: the first of the list is taken.
EnsureManyFirst(k) ==
  /\ Cardinality(Found(k)) > 1
  /\ \E o \in Found(k) : Proceed(k, o.spec)
  /\ UNCHANGED <<objVars, queue>>

EnsureMany(k) ==
  /\ Cardinality(Found(k)) > 1
  /\ EndInState("ErrMany")

\* A kind that is not tracked does nothing here.
Skip(k) ==
  /\ Goto(After(pc))
  /\ UNCHANGED <<loc, queue, wsVars, objVars, envVars>>

Ensure(k) ==
  IF k \notin Tracked THEN Skip(k)
  ELSE EnsureNone(k) \/ EnsureOne(k) \/ EnsureMany(k)

\* Outside gateway mode the StatefulSet is written before the Service too.
EarlyStatefulSet == pc = "sts1" /\ Ensure("sts")

\* The pass skips the StatefulSet when there is none and no template for it.
StatefulSet ==
  /\ pc = "sts"
  /\ IF loc.write THEN Ensure("sts") ELSE Skip("sts")

\* No HTTP port, no route: the Workspace is put in Error.
Route ==
  /\ pc = "route"
  /\ IF loc.ws.image \in HttpImages THEN Ensure("route") ELSE EndInState("ErrRoute")

Resource(k) ==
  /\ k \in Kinds \ {"sts", "route"}
  /\ pc = k
  /\ Ensure(k)

ServiceAccount == Resource("sa")
Service == Resource("svc")
VirtualService == Resource("vs")
ClusterRoleBinding == Resource("crb")
ConfigMap == Resource("cm")
ProxyService == Resource("psvc")
ReferenceGrant == Resource("rg")
RoleBindings == Resource("rb")

\* The ServiceAccount exists, and the cache may have caught up since the List.
\* One controlled by another Workspace object of this name is not adopted.
GetServiceAccount ==
  /\ pc = "saget"
  /\ IF \E o \in cache["sa"] : o.owner # loc.ws.uid
     THEN EndInState("ErrOwner")
     ELSE End(TRUE) /\ UNCHANGED <<wsVars, objVars, envVars>>

\* Mutants of ResolveTLS: the profile is used unchecked; the error is only noted;
\* a missing StatefulSet is created all the same.
ResolveTLSUnchecked ==
  /\ pc = "tls"
  /\ Goto(After("tls"))
  /\ loc' = IF ~SidecarNeeded(loc.ws) THEN loc
            ELSE [loc EXCEPT !.sts = WithSidecar(@, profile)]
  /\ UNCHANGED <<queue, wsVars, objVars, envVars>>
ResolveTLSNoted ==
  /\ pc = "tls"
  /\ Goto(After("tls"))
  /\ loc' = IF ~SidecarNeeded(loc.ws) THEN loc
            ELSE IF profile # Unusable THEN [loc EXCEPT !.sts = WithSidecar(@, profile)]
            ELSE [loc EXCEPT !.tlsErr = TRUE]
  /\ UNCHANGED <<queue, wsVars, objVars, envVars>>
ResolveTLSCreates ==
  /\ pc = "tls"
  /\ Goto(After("tls"))
  /\ loc' = IF ~SidecarNeeded(loc.ws) THEN loc
            ELSE IF profile # Unusable THEN [loc EXCEPT !.sts = WithSidecar(@, profile)]
            ELSE IF Cardinality(cache["sts"]) # 1 THEN [loc EXCEPT !.tlsErr = TRUE]
            ELSE [loc EXCEPT !.tlsErr = TRUE,
                    !.sts.tmpl = (CHOOSE o \in cache["sts"] : TRUE).spec.tmpl]
  /\ UNCHANGED <<queue, wsVars, objVars, envVars>>

\* The TLS profile is read from the API server; without a usable one the pass
\* looks up the StatefulSet to keep its template.
ResolveTLS ==
  /\ pc = "tls"
  /\ Goto(After("tls"))
  /\ loc' = IF ~SidecarNeeded(loc.ws) THEN loc
            ELSE IF profile # Unusable THEN [loc EXCEPT !.sts = WithSidecar(@, profile)]
            ELSE IF cache["sts"] = {} THEN [loc EXCEPT !.tlsErr = TRUE, !.write = FALSE]
            ELSE IF Cardinality(cache["sts"]) > 1 THEN [loc EXCEPT !.tlsErr = TRUE]
            ELSE [loc EXCEPT !.tlsErr = TRUE,
                    !.sts.tmpl = (CHOOSE o \in cache["sts"] : TRUE).spec.tmpl]
  /\ UNCHANGED <<queue, wsVars, objVars, envVars>>

\* Mutant of AddFinalizer: a conflict is logged and the pass goes on.
AddFinalizerOnce ==
  /\ pc = "fin"
  /\ Goto(After("fin"))
  /\ UNCHANGED <<objVars, envVars>>
  /\ IF ~loc.ws.finalizer /\ Current(loc.ws)
     THEN /\ StoreWs(Bumped([ws EXCEPT !.finalizer = TRUE]))
          /\ loc' = [loc EXCEPT !.ws = ws']
          /\ queue' = (queue \/ WsEvent)
     ELSE UNCHANGED <<loc, queue, wsVars>>

\* Update returns the stored object, so loc.ws becomes the new version.
AddFinalizer ==
  /\ pc = "fin"
  /\ UNCHANGED <<objVars, envVars>>
  /\ \/ /\ loc.ws.finalizer
        /\ Goto(After("fin"))
        /\ UNCHANGED <<loc, queue, wsVars>>
     \/ /\ ~loc.ws.finalizer /\ Current(loc.ws)
        /\ StoreWs(Bumped([ws EXCEPT !.finalizer = TRUE]))
        /\ loc' = [loc EXCEPT !.ws = ws']
        /\ Goto(After("fin"))
        /\ queue' = (queue \/ WsEvent)
     \/ /\ ~loc.ws.finalizer /\ ~Current(loc.ws)
        /\ End(TRUE)
        /\ UNCHANGED wsVars

\* Mutant of Status: the pass always asks for another.
StatusRequeues ==
  /\ pc = "status"
  /\ \/ /\ loc.ws.state # "Ok" /\ Current(loc.ws)
        /\ StoreWs(Bumped([ws EXCEPT !.state = "Ok"]))
     \/ /\ loc.ws.state = "Ok" \/ ~Current(loc.ws)
        /\ UNCHANGED wsVars
  /\ End(TRUE)
  /\ UNCHANGED <<objVars, envVars>>

\* "Ok" stands for every state read off the Pod.  A TLS error is returned at
\* the end, so the pass is retried.
Status ==
  /\ pc = "status"
  /\ LET s == IF loc.tlsErr THEN "ErrTLS" ELSE "Ok"
     IN \/ /\ loc.ws.state # s /\ Current(loc.ws)
           /\ StoreWs(Bumped([ws EXCEPT !.state = s]))
           /\ End(WsEvent \/ loc.tlsErr)
        \/ /\ loc.ws.state = s
           /\ End(loc.tlsErr)
           /\ UNCHANGED wsVars
        \/ /\ loc.ws.state # s /\ ~Current(loc.ws)
           /\ End(TRUE)
           /\ UNCHANGED wsVars
  /\ UNCHANGED <<objVars, envVars>>
-----------------------------------------------------------------------------
(* The pass over a Workspace that is being deleted. *)

\* Get from the cache, Delete by name: what is not in the cache is not deleted.
CleanUp(k, s, next) ==
  /\ pc = s
  /\ Goto(next)
  /\ IF cache[k] # {} /\ obj[k] # {}
     THEN StoreObj(k, {}) /\ UNCHANGED nextId
     ELSE UNCHANGED objVars
  /\ UNCHANGED <<loc, queue, wsVars, envVars>>

DeleteCRB == CleanUp("crb", "delcrb", "delroute")

\* Mutant of DeleteRoute: the route is cleaned up in gateway mode only.
DeleteRouteInGatewayMode ==
  \/ mode = "gateway" /\ CleanUp("route", "delroute", "delfin")
  \/ /\ mode # "gateway" /\ pc = "delroute" /\ Goto("delfin")
     /\ UNCHANGED <<loc, queue, wsVars, objVars, envVars>>

DeleteRoute == CleanUp("route", "delroute", "delfin")

\* The last finalizer goes, and the object with it.
RemoveFinalizer ==
  /\ pc = "delfin"
  /\ \/ /\ Current(loc.ws)
        /\ StoreWs(NoWs(AnyImage))
        /\ End(WsEvent)
     \/ /\ ~Current(loc.ws)
        /\ End(TRUE)
        /\ UNCHANGED wsVars
  /\ UNCHANGED <<objVars, envVars>>
-----------------------------------------------------------------------------
Pass ==
  \/ Start \/ Resolve \/ ServiceAccount \/ GetServiceAccount
  \/ EarlyStatefulSet \/ Service \/ ResolveTLS \/ StatefulSet \/ VirtualService
  \/ AddFinalizer \/ ClusterRoleBinding \/ ConfigMap \/ ProxyService
  \/ ReferenceGrant \/ Route \/ RoleBindings \/ Status
  \/ DeleteCRB \/ DeleteRoute \/ RemoveFinalizer

Cluster == DeliverWs \/ \E k \in Kinds : Deliver(k) \/ CollectGarbage(k)

Environment ==
  CreateWs \/ EditWs \/ DeleteWs \/ ChangeProfile \/ Abort \/ Restart

Next == Pass \/ Cluster \/ Environment

Spec == Init /\ [][Next]_vars

(* The queue's workers, the informers and the collector run until they have  *)
(* nothing to do; users, administrators and failures promise nothing.        *)
FairSpec ==
  /\ Spec
  /\ WF_vars(Pass)
  /\ WF_vars(DeliverWs)
  /\ \A k \in Kinds : WF_vars(Deliver(k)) /\ WF_vars(CollectGarbage(k))
-----------------------------------------------------------------------------
(* Properties. *)

WsType == [uid : 0..MaxUid, rv : Nat, deleting : BOOLEAN, finalizer : BOOLEAN,
           image : Images, paused : BOOLEAN, state : States]
StsType == [tmpl : [image : Images, tls : Profiles \cup {"none"}], replicas : 0..1]
ObjType(k) == [id : Nat, rv : Nat, owner : 0..MaxUid,
               spec : IF k = "sts" THEN StsType ELSE Images \cup {"fixed"}]
LocType == [ws : WsType, sts : StsType, stored : BOOLEAN, write : BOOLEAN,
            tlsErr : BOOLEAN]

(* The type invariant: what the server, the caches and the streams hold are  *)
(* Workspaces and resources as this controller writes them.                  *)
TypeOK ==
  /\ ws \in WsType /\ wsCache \in WsType /\ wsStream \in Seq(WsType)
  /\ DOMAIN obj = Kinds /\ DOMAIN cache = Kinds /\ DOMAIN stream = Kinds
  /\ \A k \in Kinds : /\ obj[k] \in SUBSET ObjType(k)
                       /\ cache[k] \in SUBSET ObjType(k)
                       /\ stream[k] \in Seq(SUBSET ObjType(k))
  /\ nextId \in [Kinds -> Nat] /\ nextUid \in 0..MaxUid
  /\ mode \in Modes /\ profile \in Profiles \cup {Unusable}
  /\ pc \in Steps /\ loc \in LocType /\ queue \in BOOLEAN
  /\ used \in [edits : Nat, profiles : Nat, aborts : Nat, restarts : Nat]

(* A ClusterRoleBinding or HTTPRoute made for the present Workspace object   *)
(* exists only while that object carries the cleanup finalizer, whatever the *)
(* caches show, wherever a pass was cut short and however often the          *)
(* controller was restarted in another mode: the finalizer is written before *)
(* the first of them (Reconcile, "Add finalizer to Workspace").              *)
FinalizerGuardsExternal ==
  \A k \in External : \A o \in obj[k] :
    (Exists(ws) /\ o.owner = ws.uid) => ws.finalizer

(* No ClusterRoleBinding or HTTPRoute outlives its Workspace object: the     *)
(* finalizer goes only after both were deleted (Reconcile, deletion path).   *)
NoOrphan ==
  \A k \in External : \A o \in obj[k] : Exists(ws) /\ o.owner = ws.uid

\* Nothing is queued, running, in flight or left to collect.
Quiescent ==
  /\ ~queue /\ pc = "idle" /\ wsStream = <<>>
  /\ \A k \in Kinds : stream[k] = <<>> /\ Garbage(k) = {}

OwnedBy(w, k) == {o \in obj[k] : o.owner = w.uid}

(* A Workspace has one StatefulSet, Service and VirtualService at most, if   *)
(* the informers of these kinds keep up: their names are generated, so only  *)
(* the List before a Create prevents a second (reconcileOwnedStatefulSet).   *)
AtMostOne == \A k \in GenerateName : Cardinality(OwnedBy(ws, k)) <= 1

ModeKinds == CASE mode = "gateway" -> Kinds \ {"vs"}
               [] mode = "istio"   -> {"sa", "sts", "svc", "vs", "rb"}
               [] mode = "none"    -> {"sa", "sts", "svc", "rb"}

\* What a settled state says about the Workspace, its resources and the mode.
Explained(s) ==
  CASE s = "Ok" -> /\ ws.image \in ValidImages
                   /\ \A k \in GenerateName \cap ModeKinds : Cardinality(obj[k]) <= 1
    [] s = "ErrImage" -> ws.image \notin ValidImages
    [] s = "ErrMany"  -> \E k \in GenerateName \cap ModeKinds : Cardinality(obj[k]) > 1
    [] s = "ErrRoute" -> mode = "gateway" /\ ws.image \notin HttpImages
    [] OTHER          -> FALSE

(* Once everything has settled the status tells the truth: duplicates that a *)
(* lagging informer let the pass create do not go unseen, an error that was  *)
(* overcome is not left standing (a Workspace recreated under its old name   *)
(* gets over meeting its predecessor's ServiceAccount or StatefulSet), and   *)
(* none is reported on the strength of an old spec (updateWorkspaceState,    *)
(* and the status update at the end of Reconcile).                           *)
StateExplained ==
  (Quiescent /\ Exists(ws) /\ ~ws.deleting) => Explained(ws.state)

Realised(k) ==
  \E o \in obj[k] :
    /\ obj[k] = {o}
    /\ k \notin External => o.owner = ws.uid
    /\ CASE k = "sts" -> /\ o.spec.tmpl.image = ws.image
                         /\ o.spec.replicas = IF ws.paused THEN 0 ELSE 1
         [] k \in {"svc", "vs", "route"} -> o.spec = ws.image
         [] OTHER -> TRUE

(* Once everything has settled a healthy Workspace has each resource of the  *)
(* mode exactly once, as its spec asks.  ConfigMap and ReferenceGrant are    *)
(* left out: see the README on what is not watched.                          *)
Converged ==
  (Quiescent /\ Exists(ws) /\ ~ws.deleting /\ ws.state = "Ok")
    => \A k \in (ModeKinds \cap Tracked) \ {"cm", "rg"} : Realised(k)

(* A pass that found the TLS profile unusable changes no StatefulSet's       *)
(* template and creates none, as long as its Workspace exists ("An unusable  *)
(* strict profile does not publish a new pod template", Reconcile).          *)
TLSKeepsTemplate ==
  [][(loc.tlsErr /\ pc = "sts" /\ pc' # pc /\ ws.uid = loc.ws.uid) =>
       {<<o.id, o.spec.tmpl>> : o \in obj'["sts"]} =
       {<<o.id, o.spec.tmpl>> : o \in obj["sts"]}]_vars

(* In gateway mode a StatefulSet for an image with an HTTP port always has   *)
(* the proxy sidecar, whatever becomes of the TLS profile meanwhile.         *)
SidecarAlways ==
  (Modes = {"gateway"}) =>
    \A o \in obj["sts"] : o.spec.tmpl.image \in HttpImages => o.spec.tmpl.tls # "none"

(* The passes do not chase each other's writes: infinitely often there is    *)
(* nothing left to do, unless the TLS profile stays unusable.                *)
Settles == []<>(Quiescent \/ profile = Unusable)

=============================================================================
