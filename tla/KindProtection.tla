--------------------------- MODULE KindProtection ---------------------------
(***************************************************************************)
(* The protection of one WorkspaceKind and its options while Workspaces    *)
(* use them: the two validating webhooks, the WorkspaceKind reconciler     *)
(* (workspacekind_controller.go) and the part of the Workspace reconciler  *)
(* that adds the kind's finalizer and resolves its options.                *)
(*                                                                         *)
(* Both reconcilers and both webhooks read the informer caches of their    *)
(* process, which lag behind the API server.  A request that changes a     *)
(* Workspace or the kind's options is validated in one step and stored in  *)
(* a later one; a delete is validated against the stored kind itself.      *)
(***************************************************************************)
EXTENDS Integers, Sequences, FiniteSets

CONSTANTS
  Workspaces,   \* names of Workspaces of this kind
  Options,      \* ids of its imageConfigs
  None,         \* no Workspace, no request
  MaxRequests,  \* bound: requests of users
  MaxLag        \* bound: events not yet in a cache, when a pass begins

ASSUME KindAssumption ==
  /\ IsFiniteSet(Workspaces) /\ IsFiniteSet(Options) /\ Options # {}
  /\ MaxRequests \in Nat /\ MaxLag \in Nat

VARIABLES
  rv,                         \* the last resourceVersion of each object
  kind, kindCache, kindStream,
  ws, wsCache, wsStream,
  request,                    \* per Workspace: the option of an admitted write
  update,                     \* an admitted update of the kind
  kindQueue, kindPc, kindLoc, \* the WorkspaceKind reconciler
  wsQueue, wsPc, wsLoc,       \* the Workspace reconciler, a worker per Workspace
  requests                    \* requests made, against the bound

kindVars == <<kind, kindCache, kindStream>>
wsVars == <<ws, wsCache, wsStream>>
kindPass == <<kindQueue, kindPc, kindLoc>>
wsPass == <<wsQueue, wsPc, wsLoc>>
vars == <<rv, kindVars, wsVars, request, update, kindPass, wsPass, requests>>

\* The kind.  n and by: status.workspaces and the usage count per option.
NoCount == [o \in {} |-> 0]
NewKind(opts) == [live |-> TRUE, rv |-> 0, gen |-> 1, fin |-> FALSE, opts |-> opts,
                  n |-> 0, by |-> NoCount]
Gone == [live |-> FALSE, rv |-> 0, gen |-> 0, fin |-> FALSE, opts |-> {}, n |-> 0,
         by |-> NoCount]
NoWs == [rv |-> 0, opt |-> None, state |-> None]
NoWsLoc == [ws |-> NoWs, kind |-> Gone]

Init ==
  /\ rv = [x \in Workspaces \cup {"kind"} |-> IF x = "kind" THEN 1 ELSE 0]
  /\ kind = [Gone EXCEPT !.live = TRUE, !.rv = 1, !.gen = 1, !.opts = Options]
  /\ kindCache = kind /\ kindStream = <<>>
  /\ ws = [w \in Workspaces |-> NoWs] /\ wsCache = ws /\ wsStream = <<>>
  /\ request = [w \in Workspaces |-> None] /\ update = None
  /\ kindQueue = TRUE /\ kindPc = "idle" /\ kindLoc = Gone
  /\ wsQueue = {} /\ wsPc = [w \in Workspaces |-> "idle"]
  /\ wsLoc = [w \in Workspaces |-> NoWsLoc]
  /\ requests = 0

Users(cache) == {w \in Workspaces : cache[w] # NoWs}
-----------------------------------------------------------------------------
(* The API server and the informers. *)

StoreKind(k) ==
  /\ rv' = [rv EXCEPT !["kind"] = @ + 1]
  /\ kind' = [k EXCEPT !.rv = IF k.live THEN rv'["kind"] ELSE 0]
  /\ kindStream' = Append(kindStream, kind')
  /\ UNCHANGED kindCache

StoreWs(w, v) ==
  /\ rv' = [rv EXCEPT ![w] = @ + 1]
  /\ ws' = [ws EXCEPT ![w] = IF v = NoWs THEN NoWs ELSE [v EXCEPT !.rv = rv'[w]]]
  /\ wsStream' = Append(wsStream, [w |-> w, v |-> ws'[w]])
  /\ UNCHANGED wsCache

\* Mutant of DeliverKind: only updates of the kind are mapped to Workspaces.
DeliverKindUpdates ==
  /\ kindStream # <<>>
  /\ kindCache' = Head(kindStream) /\ kindStream' = Tail(kindStream)
  /\ kindQueue' = TRUE
  /\ wsQueue' = IF kindCache'.gen # kindCache.gen /\ kindCache'.live = kindCache.live
                THEN wsQueue \cup Users(wsCache) ELSE wsQueue
  /\ UNCHANGED <<rv, kind, wsVars, request, update, kindPc, kindLoc, wsPc, wsLoc, requests>>

\* An event of the kind: the WorkspaceKind reconciler takes every one, the
\* Workspace reconciler those that change the generation, for the Workspaces
\* its cache holds.
DeliverKind ==
  /\ kindStream # <<>>
  /\ kindCache' = Head(kindStream) /\ kindStream' = Tail(kindStream)
  /\ kindQueue' = TRUE
  /\ wsQueue' = IF kindCache'.gen # kindCache.gen \/ kindCache'.live # kindCache.live
                THEN wsQueue \cup Users(wsCache) ELSE wsQueue
  /\ UNCHANGED <<rv, kind, wsVars, request, update, kindPc, kindLoc, wsPc, wsLoc, requests>>

\* An event of a Workspace: the other way around.  An option is all of the
\* spec that is modelled.
DeliverWs ==
  /\ wsStream # <<>>
  /\ LET e == Head(wsStream) IN
     /\ wsCache' = [wsCache EXCEPT ![e.w] = e.v] /\ wsStream' = Tail(wsStream)
     /\ wsQueue' = wsQueue \cup {e.w}
     /\ kindQueue' = (kindQueue \/ wsCache[e.w].opt # e.v.opt)
  /\ UNCHANGED <<rv, kindVars, ws, request, update, kindPc, kindLoc, wsPc, wsLoc, requests>>
-----------------------------------------------------------------------------
(* Requests of users, and the webhooks. *)

Request == requests < MaxRequests /\ requests' = requests + 1

\* ValidateCreate and ValidateUpdate of a Workspace: the kind is there and has
\* the option.
AdmitWs(w, o) ==
  /\ Request
  /\ request[w] = None /\ ws[w].opt # o
  /\ kindCache.live /\ o \in kindCache.opts
  /\ request' = [request EXCEPT ![w] = o]
  /\ UNCHANGED <<rv, kindVars, wsVars, update, kindPass, wsPass>>

CommitWs(w) ==
  /\ request[w] # None
  /\ request' = [request EXCEPT ![w] = None]
  /\ StoreWs(w, [ws[w] EXCEPT !.opt = request[w]])
  /\ UNCHANGED <<kindVars, update, kindPass, wsPass, requests>>

DeleteWs(w) ==
  /\ Request
  /\ ws[w] # NoWs /\ request[w] = None
  /\ StoreWs(w, NoWs)
  /\ UNCHANGED <<kindVars, request, update, kindPass, wsPass>>

\* getOptionsUsageCounts, for the options the kind has.
UsageCounts(opts, cache) == [o \in opts |-> Cardinality({w \in Workspaces : cache[w].opt = o})]

\* ValidateUpdate of a WorkspaceKind: no option that is in use is removed.  A
\* removed option stands for a changed one too.
AdmitKind(opts) ==
  /\ Request
  /\ kind.live /\ update = None
  /\ opts # kind.opts /\ opts # {}
  /\ \A o \in kind.opts \ opts : UsageCounts(kind.opts, wsCache)[o] = 0
  /\ update' = [opts |-> opts, rv |-> kind.rv]
  /\ UNCHANGED <<rv, kindVars, wsVars, request, kindPass, wsPass>>

CommitKind ==
  /\ update # None
  /\ update' = None
  /\ IF kind.rv = update.rv
     THEN StoreKind([kind EXCEPT !.opts = update.opts, !.gen = @ + 1])
     ELSE UNCHANGED <<rv, kindVars>>
  /\ UNCHANGED <<wsVars, request, kindPass, wsPass, requests>>

CreateKind ==
  /\ Request
  /\ ~kind.live
  /\ StoreKind(NewKind(Options))
  /\ UNCHANGED <<wsVars, request, update, kindPass, wsPass>>

\* ValidateDelete looks at the stored kind; without a finalizer it is gone.
ValidateDelete(k) == k.n = 0 /\ ~k.fin

DeleteKind ==
  /\ Request
  /\ kind.live /\ ValidateDelete(kind)
  /\ StoreKind(Gone)
  /\ UNCHANGED <<wsVars, request, update, kindPass, wsPass>>
-----------------------------------------------------------------------------
(* The WorkspaceKind reconciler. *)

KindDone == kindPc' = "idle" /\ kindLoc' = Gone

KindStart ==
  /\ kindPc = "idle" /\ kindQueue
  /\ Len(kindStream) <= MaxLag /\ Len(wsStream) <= MaxLag
  /\ kindQueue' = FALSE
  /\ \/ kindCache.live /\ kindPc' = "list" /\ kindLoc' = kindCache
     \/ ~kindCache.live /\ UNCHANGED <<kindPc, kindLoc>>
  /\ UNCHANGED <<rv, kindVars, wsVars, request, update, wsPass, requests>>

\* The status a pass computes from the Workspaces in the cache.
Counted(k) == [k EXCEPT !.n = Cardinality(Users(wsCache)),
                        !.by = UsageCounts(k.opts, wsCache)]

\* Mutant of KindList: a pass with nothing to do is queued again.
KindListRequeues ==
  /\ kindPc = "list"
  /\ LET k == Counted(kindLoc) IN
     \/ k.n = 0 /\ k.fin /\ kindPc' = "unprotect" /\ kindLoc' = k /\ UNCHANGED kindQueue
     \/ ~(k.n = 0 /\ k.fin) /\ k # kindLoc /\ kindPc' = "status" /\ kindLoc' = k
        /\ UNCHANGED kindQueue
     \/ ~(k.n = 0 /\ k.fin) /\ k = kindLoc /\ KindDone /\ kindQueue' = TRUE
  /\ UNCHANGED <<rv, kindVars, wsVars, request, update, wsPass, requests>>

\* The Workspaces are listed; if there are none a finalizer is to be removed.
KindList ==
  /\ kindPc = "list"
  /\ LET k == Counted(kindLoc) IN
     \/ k.n = 0 /\ k.fin /\ kindPc' = "unprotect" /\ kindLoc' = k
     \/ ~(k.n = 0 /\ k.fin) /\ k # kindLoc /\ kindPc' = "status" /\ kindLoc' = k
     \/ ~(k.n = 0 /\ k.fin) /\ k = kindLoc /\ KindDone
  /\ UNCHANGED <<rv, kindVars, wsVars, request, update, kindQueue, wsPass, requests>>

\* A conflict, or a kind that is gone, is an error and the pass is run again.
KindConflict ==
  /\ kindPc \in {"unprotect", "status"} /\ kind.rv # kindLoc.rv
  /\ KindDone /\ kindQueue' = TRUE
  /\ UNCHANGED <<rv, kindVars, wsVars, request, update, wsPass, requests>>

\* The object that comes back replaces the pass's copy, old status included.
KindUnprotect ==
  /\ kindPc = "unprotect" /\ kind.rv = kindLoc.rv
  /\ StoreKind([kind EXCEPT !.fin = FALSE])
  /\ IF kindLoc.n # kind.n \/ kindLoc.by # kind.by
     THEN kindPc' = "status" /\ kindLoc' = [kindLoc EXCEPT !.fin = FALSE, !.rv = kind'.rv]
     ELSE KindDone
  /\ UNCHANGED <<wsVars, request, update, kindQueue, wsPass, requests>>

KindStatus ==
  /\ kindPc = "status" /\ kind.rv = kindLoc.rv
  /\ StoreKind([kind EXCEPT !.n = kindLoc.n, !.by = kindLoc.by])
  /\ KindDone
  /\ UNCHANGED <<wsVars, request, update, kindQueue, wsPass, requests>>
-----------------------------------------------------------------------------
(* The Workspace reconciler, as far as the kind goes. *)

WsGoto(w, pc, l) == wsPc' = [wsPc EXCEPT ![w] = pc] /\ wsLoc' = [wsLoc EXCEPT ![w] = l]
WsDone(w) == WsGoto(w, "idle", NoWsLoc)

WsStart(w) ==
  /\ wsPc[w] = "idle" /\ w \in wsQueue
  /\ Len(kindStream) <= MaxLag /\ Len(wsStream) <= MaxLag
  /\ wsQueue' = wsQueue \ {w}
  /\ IF wsCache[w] = NoWs
     THEN UNCHANGED <<wsPc, wsLoc>>
     ELSE WsGoto(w, IF kindCache.live /\ ~kindCache.fin THEN "protect" ELSE "state",
                 [ws |-> wsCache[w], kind |-> kindCache])
  /\ UNCHANGED <<rv, kindVars, wsVars, request, update, kindPass, requests>>

\* The finalizer is added to the kind as it was read.
WsProtect(w) ==
  /\ wsPc[w] = "protect"
  /\ LET current == kind.live /\ kind.rv = wsLoc[w].kind.rv IN
     \/ /\ current
        /\ StoreKind([kind EXCEPT !.fin = TRUE])
        /\ WsGoto(w, "state", wsLoc[w]) /\ UNCHANGED wsQueue
     \/ /\ ~current
        /\ WsDone(w) /\ wsQueue' = wsQueue \cup {w}
        /\ UNCHANGED <<rv, kindVars>>
  /\ UNCHANGED <<wsVars, request, update, kindPass, requests>>

\* What the pass finds out about the kind and the option.
StateOf(v, k) == IF ~k.live THEN "UnknownKind"
                 ELSE IF v.opt \in k.opts THEN "Ok" ELSE "InvalidOption"

\* Mutant of WsState: written whatever became of the Workspace.
WsStateForced(w) ==
  /\ wsPc[w] = "state"
  /\ WsDone(w)
  /\ LET s == StateOf(wsLoc[w].ws, wsLoc[w].kind) IN
     \/ s = wsLoc[w].ws.state /\ UNCHANGED <<rv, wsVars>>
     \/ s # wsLoc[w].ws.state /\ StoreWs(w, [ws[w] EXCEPT !.state = s])
  /\ UNCHANGED <<kindVars, request, update, kindPass, wsQueue, requests>>

\* The state is written if it changed.
WsState(w) ==
  /\ wsPc[w] = "state"
  /\ WsDone(w)
  /\ LET s == StateOf(wsLoc[w].ws, wsLoc[w].kind) IN
     \/ s = wsLoc[w].ws.state /\ UNCHANGED <<rv, wsVars, wsQueue>>
     \/ /\ s # wsLoc[w].ws.state /\ ws[w].rv = wsLoc[w].ws.rv
        /\ StoreWs(w, [ws[w] EXCEPT !.state = s])
        /\ UNCHANGED wsQueue
     \/ /\ s # wsLoc[w].ws.state /\ ws[w].rv # wsLoc[w].ws.rv
        /\ wsQueue' = wsQueue \cup {w}
        /\ UNCHANGED <<rv, wsVars>>
  /\ UNCHANGED <<kindVars, request, update, kindPass, requests>>
-----------------------------------------------------------------------------
UserRequest ==
  \/ \E w \in Workspaces : DeleteWs(w) \/ \E o \in Options : AdmitWs(w, o)
  \/ \E opts \in SUBSET Options : AdmitKind(opts)
  \/ CreateKind \/ DeleteKind
Server == CommitKind \/ DeliverKind \/ DeliverWs \/ \E w \in Workspaces : CommitWs(w)
KindPass == KindStart \/ KindList \/ KindConflict \/ KindUnprotect \/ KindStatus
WsPass(w) == WsStart(w) \/ WsProtect(w) \/ WsState(w)

Next == UserRequest \/ Server \/ KindPass \/ \E w \in Workspaces : WsPass(w)

\* The server answers, the informers catch up and the workers run; users need not.
Fairness ==
  /\ WF_vars(CommitKind) /\ WF_vars(DeliverKind) /\ WF_vars(DeliverWs)
  /\ WF_vars(KindPass)
  /\ \A w \in Workspaces : WF_vars(CommitWs(w)) /\ WF_vars(WsPass(w))

Spec == Init /\ [][Next]_vars /\ Fairness
-----------------------------------------------------------------------------
(* Properties. *)

Settled ==
  /\ kindStream = <<>> /\ wsStream = <<>>
  /\ update = None /\ \A w \in Workspaces : request[w] = None
  /\ ~kindQueue /\ wsQueue = {} /\ kindPc = "idle"
  /\ \A w \in Workspaces : wsPc[w] = "idle"

(* The type invariant.                                                       *)
TypeOK ==
  /\ rv \in [Workspaces \cup {"kind"} -> Nat] /\ requests \in Nat
  /\ \A k \in {kind, kindCache, kindLoc} \cup {wsLoc[w].kind : w \in Workspaces} :
       k.live \in BOOLEAN /\ k.fin \in BOOLEAN /\ k.opts \subseteq Options /\ k.rv <= rv["kind"]
  /\ \A w \in Workspaces :
       /\ {ws[w].opt, wsCache[w].opt, request[w]} \subseteq Options \cup {None}
       /\ wsCache[w].rv <= rv[w] /\ (ws[w].opt = None => ws[w] = NoWs)

(* Whatever the order of requests, events and conflicts, once the work is    *)
(* done the kind's status counts its Workspaces, so that deletion is refused *)
(* exactly when there are some, an unused kind has no finalizer left, and    *)
(* every Workspace says whether its kind and option exist.                   *)
Converged ==
  Settled =>
    /\ kind.live => /\ kind.n = Cardinality(Users(ws))
                    /\ kind.by = UsageCounts(kind.opts, ws)
                    /\ ValidateDelete(kind) <=> Users(ws) = {}
    /\ \A w \in Users(ws) : ws[w].state = StateOf(ws[w], kind)

(* The two reconcilers, which react to each other's writes to the kind, come *)
(* to rest: they do not add and remove the finalizer for ever.               *)
Settles == <>[]Settled

(* "don't allow deletion of WorkspaceKind if it is used by any workspaces"   *)
(* (ValidateDelete).                                                         *)
UsedKindKept ==
  [][kind.live /\ Users(ws) # {} => kind'.live]_vars
=============================================================================
