---------------------------- MODULE BackendStore ----------------------------
(***************************************************************************)
(* The backend's write path: handlers (api/<resource>_handler.go) and      *)
(* repositories (internal/repositories) that create, read, update, pause   *)
(* and delete one object of the API server on behalf of REST callers.      *)
(*                                                                         *)
(* An update is two steps: the object is read, from the informer cache of  *)
(* the replica that serves the request or, for a Secret, from the API      *)
(* server, and is written back later on the resourceVersion that was read. *)
(* Workspaces and WorkspaceKinds carry a revision which the caller sends   *)
(* back; Secrets and PVCs carry a label which says that they may be        *)
(* changed.  The controller, kubectl and other clients write the same      *)
(* object at any time, and a write's answer may be lost.                   *)
(***************************************************************************)
EXTENDS Naturals

CONSTANTS
  Replicas,    \* replicas of the backend, each with its own cache
  Callers,     \* REST callers, each with one request at a time
  Values,      \* contents of a part of an object
  None,        \* no object, no view
  MaxVersion,  \* bound: writes to the object
  MaxUid       \* bound: objects of this name

ASSUME StoreAssumption ==
  /\ MaxVersion \in Nat /\ MaxUid \in Nat
  /\ None \notin Values /\ None \notin Callers

VARIABLES
  type,     \* the resource; it never changes
  stored,   \* the object in the API server, or None
  version,  \* the last resourceVersion
  uids,     \* objects of this name so far
  cache,    \* per replica: the object in its informer cache, or None
  view,     \* per caller: the object as an answer last showed it, or None
  call,     \* per caller: the request between its read and its write
  reply     \* the last answer: to whom, to an update or another request, its code

vars == <<type, stored, version, uids, cache, view, call, reply>>

Types == {"workspace", "workspacekind", "secret", "pvc"}
Revisioned == type \in {"workspace", "workspacekind"}
Labelled == type \in {"secret", "pvc"}

\* An object.  edit: what an update replaces; rest: what it keeps as it was read
\* (the filter rules of a kind, a Secret's keys sent without a value); paused and
\* state: of a Workspace; canUpdate: the label.
Objects ==
  [uid : Nat, generation : Nat, resourceVersion : Nat, edit : Values \cup {None},
   rest : Values \cup {None}, paused : BOOLEAN, state : {"Paused", "Other"},
   canUpdate : BOOLEAN, deleting : BOOLEAN]

\* What the answers to a GET and to an update show of one.
Models == [revision : Nat \X Nat, edit : Values \cup {None}, paused : BOOLEAN]

ASSUME NoneAssumption == None \notin Objects /\ None \notin Models

\* What a request may say, by resource.  Only a Workspace is paused; nothing of a
\* PVC is edited; a Workspace's kind, the rest of its spec, never changes.
Requests ==
  {w \in [edit : Values \cup {None}, paused : BOOLEAN] :
     (w.edit = None <=> type = "pvc") /\ (w.paused => type = "workspace")}
Rests == IF type \in {"workspacekind", "secret"} THEN Values ELSE {None}
Idle == [op |-> "idle"]
NoReply == [to |-> None, op |-> "other", code |-> 0]

\* Mutant of CalculateRevision: without the uid.
RevisionNoUid(o) == <<0, o.generation>>

\* A hash of these and the name, which is fixed here.
CalculateRevision(o) == <<o.uid, o.generation>>

\* NewWorkspaceUpdateModelFromWorkspace, NewWorkspaceKindUpdateModelFromWorkspaceKind.
UpdateModel(o) == [revision |-> CalculateRevision(o), edit |-> o.edit, paused |-> o.paused]

Init ==
  /\ type \in Types
  /\ stored = None /\ version = 0 /\ uids = 0
  /\ cache = [r \in Replicas |-> None]
  /\ view = [c \in Callers |-> None]
  /\ call = [c \in Callers |-> Idle]
  /\ reply = NoReply
-----------------------------------------------------------------------------
(* The API server. *)

\* A write gets a new resourceVersion; one that changes the spec, or that marks
\* the object as being deleted, a new generation.
SpecOf(o) == <<o.edit, o.rest, o.paused, o.deleting>>
Write(o) ==
  /\ version < MaxVersion
  /\ version' = version + 1
  /\ stored' = [o EXCEPT
       !.resourceVersion = version + 1,
       !.generation = stored.generation + (IF SpecOf(o) = SpecOf(stored) THEN 0 ELSE 1)]
  /\ UNCHANGED uids

Insert(w, rest, label) ==
  /\ version < MaxVersion /\ uids < MaxUid
  /\ version' = version + 1 /\ uids' = uids + 1
  /\ stored' = [uid |-> uids + 1, generation |-> 1, resourceVersion |-> version + 1,
                edit |-> w.edit, rest |-> rest, paused |-> w.paused, state |-> "Other",
                canUpdate |-> label, deleting |-> FALSE]

\* A delete by name.  An object with finalizers stays, marked, until they are gone.
Remove ==
  \/ stored' = None /\ UNCHANGED <<version, uids>>
  \/ ~stored.deleting /\ Write([stored EXCEPT !.deleting = TRUE])
  \/ stored.deleting /\ UNCHANGED <<stored, version, uids>>

\* The watch of a replica's informer.
Deliver(r) ==
  /\ cache[r] # stored
  /\ cache' = [cache EXCEPT ![r] = stored]
  /\ UNCHANGED <<type, stored, version, uids, view, call, reply>>
-----------------------------------------------------------------------------
(* The handlers: the status code for what a repository returns. *)

CreateWorkspaceHandler(err) ==
  CASE err = "ok" -> 201 [] err = "AlreadyExists" -> 409
    [] err \in {"ValidationError", "Invalid"} -> 422 [] OTHER -> 500
CreateWorkspaceKindHandler(err) ==
  CASE err = "ok" -> 201 [] err = "AlreadyExists" -> 409 [] err = "Invalid" -> 422 [] OTHER -> 500
CreateSecretHandler(err) ==
  CASE err = "ok" -> 201 [] err = "AlreadyExists" -> 409 [] err = "Invalid" -> 422 [] OTHER -> 500
CreatePVCHandler(err) ==
  CASE err = "ok" -> 201 [] err = "AlreadyExists" -> 409
    [] err \in {"ValidationError", "Invalid"} -> 422 [] OTHER -> 500
CreateCode(err) ==
  CASE type = "workspace" -> CreateWorkspaceHandler(err)
    [] type = "workspacekind" -> CreateWorkspaceKindHandler(err)
    [] type = "secret" -> CreateSecretHandler(err) [] OTHER -> CreatePVCHandler(err)

\* A conflict of the API server is not the caller's fault: 500.
UpdateWorkspaceHandler(err) ==
  CASE err = "ok" -> 200 [] err = "NotFound" -> 404 [] err = "RevisionConflict" -> 409
    [] err \in {"ValidationError", "Invalid"} -> 422 [] OTHER -> 500
UpdateWorkspaceKindHandler(err) ==
  CASE err = "ok" -> 200 [] err = "NotFound" -> 404 [] err = "RevisionConflict" -> 409
    [] err \in {"ValidationError", "Invalid"} -> 422 [] OTHER -> 500
UpdateSecretHandler(err) ==
  CASE err = "ok" -> 200 [] err = "NotFound" -> 404 [] err = "NotCanUpdate" -> 403
    [] err = "Invalid" -> 422 [] OTHER -> 500
UpdateCode(err) ==
  CASE type = "workspace" -> UpdateWorkspaceHandler(err)
    [] type = "workspacekind" -> UpdateWorkspaceKindHandler(err)
    [] OTHER -> UpdateSecretHandler(err)

DeleteWorkspaceHandler(err) ==
  CASE err = "ok" -> 204 [] err = "NotFound" -> 404 [] err = "Conflict" -> 409 [] OTHER -> 500
DeleteWorkspaceKindHandler(err) ==
  CASE err = "ok" -> 204 [] err = "NotFound" -> 404 [] err = "Conflict" -> 409 [] OTHER -> 500
DeleteSecretHandler(err) ==
  CASE err = "ok" -> 204 [] err = "NotFound" -> 404 [] err = "NotCanUpdate" -> 403
    [] err = "Conflict" -> 409 [] OTHER -> 500
DeletePVCHandler(err) ==
  CASE err = "ok" -> 204 [] err = "NotFound" -> 404 [] err = "NotCanUpdate" -> 403
    [] err = "Conflict" -> 409 [] OTHER -> 500
DeleteCode(err) ==
  CASE type = "workspace" -> DeleteWorkspaceHandler(err)
    [] type = "workspacekind" -> DeleteWorkspaceKindHandler(err)
    [] type = "secret" -> DeleteSecretHandler(err) [] OTHER -> DeletePVCHandler(err)

PauseActionWorkspaceHandler(err) ==
  CASE err = "ok" -> 200 [] err = "NotFound" -> 404 [] err = "InvalidState" -> 409 [] OTHER -> 500

Answer(c, op, code) == reply' = [to |-> c, op |-> op, code |-> code]

\* A handler's own checks refuse a request before a repository is called: path,
\* authentication and authorization, content type, size, body.  One code, 400,
\* stands for all of theirs.
Reject(c, op) ==
  /\ call[c] = Idle
  /\ Answer(c, op, 400)
  /\ UNCHANGED <<type, stored, version, uids, cache, view, call>>
-----------------------------------------------------------------------------
(* The repositories.  A request that fails in the API server for a reason    *)
(* of its own ("Error") is a 500, and so is one whose answer is lost.        *)

\* Reads of Secrets are not cached.
Read(r) == IF type = "secret" THEN stored ELSE cache[r]

\* GetWorkspace, GetWorkspaceKind.
Get(c, r) ==
  /\ call[c] = Idle /\ Revisioned
  /\ \/ /\ cache[r] # None
        /\ view' = [view EXCEPT ![c] = UpdateModel(cache[r])]
        /\ Answer(c, "other", 200)
     \/ /\ cache[r] = None
        /\ Answer(c, "other", 404)
        /\ UNCHANGED view
  /\ UNCHANGED <<type, stored, version, uids, cache, call>>

\* What a create refuses by itself: volumes that cannot be mounted, a storage
\* class that cannot be used, a quantity that does not parse.
CreateErrors ==
  {"Invalid", "Error"}
    \cup (IF type \in {"workspace", "pvc"} THEN {"ValidationError"} ELSE {})
    \cup (IF stored = None THEN {} ELSE {"AlreadyExists"})

\* A Secret or PVC is created with the label.
Create(c, w, rest) ==
  /\ call[c] = Idle
  /\ \/ /\ stored = None /\ Insert(w, rest, Labelled)
        /\ \E err \in {"ok", "Error"} : Answer(c, "other", CreateCode(err))
     \/ /\ \E err \in CreateErrors : Answer(c, "other", CreateCode(err))
        /\ UNCHANGED <<stored, version, uids>>
  /\ UNCHANGED <<type, cache, view, call>>

\* Mutants of UpdateCheck: the caller's revision, and the label, are not compared.
UpdateCheckNoRevision(c, o) ==
  CASE o = None -> "NotFound"
    [] o # None /\ Labelled /\ ~o.canUpdate -> "NotCanUpdate"
    [] OTHER -> "ok"
UpdateCheckNoLabel(c, o) ==
  CASE o = None -> "NotFound"
    [] o # None /\ Revisioned /\ CalculateRevision(o) # view[c].revision -> "RevisionConflict"
    [] OTHER -> "ok"

\* The checks of UpdateWorkspace, UpdateWorkspaceKind and UpdateSecret on what was
\* read.
UpdateCheck(c, o) ==
  CASE o = None -> "NotFound"
    [] o # None /\ Revisioned /\ CalculateRevision(o) # view[c].revision -> "RevisionConflict"
    [] o # None /\ Labelled /\ ~o.canUpdate -> "NotCanUpdate"
    [] OTHER -> "ok"

\* An update up to its write.  A Workspace's volumes are checked last.
UpdateRead(c, r, w) ==
  /\ call[c] = Idle /\ type # "pvc" /\ (Revisioned => view[c] # None)
  /\ LET err == UpdateCheck(c, Read(r)) IN
     \/ /\ err = "ok"
        /\ call' = [call EXCEPT ![c] = [op |-> "update", read |-> Read(r), want |-> w]]
        /\ UNCHANGED reply
     \/ /\ \E e \in {"Error", err} \cup (IF type = "workspace" /\ err = "ok"
                                         THEN {"ValidationError"} ELSE {}) :
             e # "ok" /\ Answer(c, "update", UpdateCode(e))
        /\ UNCHANGED call
  /\ UNCHANGED <<type, stored, version, uids, cache, view>>

\* The update models applied to the object that was read.
Apply(o, w) == [o EXCEPT !.edit = w.edit, !.paused = w.paused]

\* Mutant of UpdateWrite: the write is not conditional (a merge patch, say).
UpdateWriteBlind(c) ==
  /\ call[c].op = "update"
  /\ call' = [call EXCEPT ![c] = Idle]
  /\ stored # None
  /\ Write(Apply(call[c].read, call[c].want))
  /\ Answer(c, "update", UpdateCode("ok"))
  /\ view' = IF Revisioned THEN [view EXCEPT ![c] = UpdateModel(stored')] ELSE view
  /\ UNCHANGED <<type, cache>>

\* Mutant of UpdateWrite: a Secret is answered like a Workspace, with its content.
UpdateWriteShows(c) ==
  /\ call[c].op = "update"
  /\ call' = [call EXCEPT ![c] = Idle]
  /\ stored # None /\ stored.resourceVersion = call[c].read.resourceVersion
  /\ Write(Apply(call[c].read, call[c].want))
  /\ Answer(c, "update", UpdateCode("ok"))
  /\ view' = [view EXCEPT ![c] = UpdateModel(stored')]
  /\ UNCHANGED <<type, cache>>

\* The write on the resourceVersion that was read; an answer has the new revision.
UpdateWrite(c) ==
  /\ call[c].op = "update"
  /\ call' = [call EXCEPT ![c] = Idle]
  /\ \/ /\ stored # None /\ stored.resourceVersion = call[c].read.resourceVersion
        /\ Write(Apply(call[c].read, call[c].want))
        /\ \/ /\ Answer(c, "update", UpdateCode("ok"))
              /\ view' = IF Revisioned THEN [view EXCEPT ![c] = UpdateModel(stored')] ELSE view
           \/ /\ Answer(c, "update", UpdateCode("Error"))
              /\ UNCHANGED view
     \/ /\ \E err \in {"Invalid", "Error"} \cup (IF stored = None THEN {"NotFound"} ELSE {}) :
             Answer(c, "update", UpdateCode(err))
        /\ UNCHANGED <<stored, version, uids, view>>
  /\ UNCHANGED <<type, cache>>

\* HandlePauseAction: a JSON patch, which the API server tests and applies to the
\* stored object at once.  The view of the caller is not refreshed.
PauseTests(target) == stored.paused = ~target /\ (target \/ stored.state = "Paused")
HandlePauseAction(c, target) ==
  /\ call[c] = Idle /\ type = "workspace"
  /\ \/ /\ stored # None /\ PauseTests(target)
        /\ Write([stored EXCEPT !.paused = target])
        /\ \E err \in {"ok", "Error"} : Answer(c, "other", PauseActionWorkspaceHandler(err))
     \/ /\ \E err \in {"Error", IF stored = None THEN "NotFound" ELSE "InvalidState"} :
             Answer(c, "other", PauseActionWorkspaceHandler(err))
        /\ UNCHANGED <<stored, version, uids>>
  /\ UNCHANGED <<type, cache, view, call>>

\* The label of a Secret or PVC is checked on a read of its own.
DeleteRead(c, r) ==
  /\ call[c] = Idle /\ Labelled
  /\ \/ /\ Read(r) # None /\ Read(r).canUpdate
        /\ call' = [call EXCEPT ![c] = [op |-> "delete"]]
        /\ UNCHANGED reply
     \/ /\ \E err \in {"Error"} \cup (IF Read(r) = None THEN {"NotFound"}
                                      ELSE IF Read(r).canUpdate THEN {} ELSE {"NotCanUpdate"}) :
             Answer(c, "other", DeleteCode(err))
        /\ UNCHANGED call
  /\ UNCHANGED <<type, stored, version, uids, cache, view>>

\* A delete by name, at once for a Workspace or WorkspaceKind.  The webhook
\* refuses to delete a WorkspaceKind in use.
DeleteWrite(c) ==
  /\ call[c] = IF Labelled THEN [op |-> "delete"] ELSE Idle
  /\ call' = [call EXCEPT ![c] = Idle]
  /\ \/ /\ stored # None /\ Remove
        /\ \E err \in {"ok", "Error"} : Answer(c, "other", DeleteCode(err))
     \/ /\ \E err \in {"Error"} \cup (IF stored = None THEN {"NotFound"}
                                      ELSE IF type = "workspacekind" THEN {"Conflict"} ELSE {}) :
             Answer(c, "other", DeleteCode(err))
        /\ UNCHANGED <<stored, version, uids>>
  /\ UNCHANGED <<type, cache, view>>
-----------------------------------------------------------------------------
(* Other clients of the API server: the controller, kubectl, the console. *)

OtherSpec ==
  /\ stored # None
  /\ \E w \in Requests, rest \in Rests :
       /\ <<w.edit, w.paused, rest>> # <<stored.edit, stored.paused, stored.rest>>
       /\ Write([stored EXCEPT !.edit = w.edit, !.paused = w.paused, !.rest = rest])
  /\ UNCHANGED <<type, cache, view, call, reply>>

OtherMeta ==
  /\ stored # None
  /\ \/ type = "workspace" /\ \E s \in {"Paused", "Other"} : Write([stored EXCEPT !.state = s])
     \/ Labelled /\ Write([stored EXCEPT !.canUpdate = ~@])
     \/ type = "workspacekind" /\ Write(stored)
  /\ UNCHANGED <<type, cache, view, call, reply>>

OtherCreate ==
  /\ stored = None
  /\ \E w \in Requests, rest \in Rests, label \in BOOLEAN :
       (label => Labelled) /\ Insert(w, rest, label)
  /\ UNCHANGED <<type, cache, view, call, reply>>

\* A delete, and the removal of the last finalizer.
OtherDelete ==
  /\ stored # None /\ Remove /\ stored' # stored
  /\ UNCHANGED <<type, cache, view, call, reply>>

Other == OtherSpec \/ OtherMeta \/ OtherCreate \/ OtherDelete

Next ==
  \/ \E c \in Callers :
       \/ \E op \in {"update", "other"} : Reject(c, op)
       \/ \E r \in Replicas : Get(c, r) \/ DeleteRead(c, r)
       \/ \E r \in Replicas, w \in Requests : UpdateRead(c, r, w)
       \/ \E w \in Requests, rest \in Rests : Create(c, w, rest)
       \/ \E target \in BOOLEAN : HandlePauseAction(c, target)
       \/ UpdateWrite(c) \/ DeleteWrite(c)
  \/ \E r \in Replicas : Deliver(r)
  \/ Other

Spec == Init /\ [][Next]_vars
-----------------------------------------------------------------------------
(* Properties. *)

(* The type invariant.                                                       *)
TypeOK ==
  /\ type \in Types /\ version \in Nat /\ uids \in Nat
  /\ stored \in Objects \cup {None}
  /\ cache \in [Replicas -> Objects \cup {None}]
  /\ view \in [Callers -> Models \cup {None}]
  /\ \A c \in Callers : view[c] # None => Revisioned
  /\ call \in [Callers -> {Idle, [op |-> "delete"]}
                \cup [op : {"update"}, read : Objects, want : Requests]]
  /\ \A c \in Callers : call[c].op = "delete" => Labelled
  /\ reply \in [to : Callers \cup {None}, op : {"update", "other"}, code : Nat]

\* What became of the last update, as its answer says.
LastAnswer ==
  CASE ~Revisioned \/ reply.op = "other" -> "none"
    [] Revisioned /\ reply.op = "update" /\ reply.code = 200 -> "done"
    [] Revisioned /\ reply.op = "update" /\ reply.code = 500 -> "doubt"
    [] OTHER -> "refused"

Abstract == INSTANCE RevisionedStore
  WITH cell <- IF stored = None THEN None ELSE UpdateModel(stored),
       pending <- {c \in Callers : Revisioned /\ call[c] # Idle},
       answer <- LastAnswer

(* Through lagging caches of several replicas, lost answers and other        *)
(* writers, an update of a Workspace or WorkspaceKind is a compare-and-set   *)
(* on what the caller has seen ("prevents updates by callers with a stale    *)
(* view", UpdateWorkspace): it takes effect only there, a 200 says that it   *)
(* did and a 4xx that it did not, and a revision never comes back.           *)
CompareAndSet == Abstract!Spec

\* The update of c takes effect.
Lands(c) == call[c].op = "update" /\ call'[c] = Idle /\ stored' # stored

(* An update puts back what it has read of the object and does not name: the *)
(* filter rules, a Secret's other keys, the labels.  No change that another  *)
(* writer made to them since is lost, and no other object is overwritten.    *)
EditKeepsRest ==
  [][\A c \in Callers : Lands(c) =>
       /\ stored # None /\ stored'.uid = stored.uid /\ stored'.rest = stored.rest
       /\ stored'.canUpdate = stored.canUpdate /\ stored'.deleting = stored.deleting]_vars

(* UpdateSecret takes effect only while the Secret carries the label that    *)
(* its earlier read was checked for.                                         *)
OnlyLabelledUpdated ==
  [][\A c \in Callers : Lands(c) /\ Labelled => stored.canUpdate]_vars

(* A revision stands for one content: a caller that holds the revision of    *)
(* the stored object, whatever was deleted and created in between, has seen  *)
(* that object's content.                                                    *)
RevisionFaithful ==
  \A c \in Callers :
    stored # None /\ view[c] # None /\ view[c].revision = CalculateRevision(stored)
      => view[c] = UpdateModel(stored)
=============================================================================
