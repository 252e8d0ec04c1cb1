-------------------------- MODULE RevisionedStore --------------------------
(***************************************************************************)
(* What the backend's REST interface promises to callers that edit a       *)
(* Workspace or a WorkspaceKind: an update is a compare-and-set on the     *)
(* revision the caller has seen.  There are no caches, replicas or         *)
(* resource versions here; BackendStore implements this module.            *)
(***************************************************************************)
CONSTANTS Callers, None

VARIABLES
  cell,     \* the stored object, a record with a field revision, or None
  view,     \* per caller: the object as an answer last showed it, or None
  pending,  \* the callers with an update under way
  answer    \* the last answer: "done", "refused" or "doubt", "none" if not to an update

vars == <<cell, view, pending, answer>>

Init == view = [c \in Callers |-> None] /\ pending = {} /\ answer = "none"

\* A revision that a caller holds never comes back with another content.
Fresh ==
  \/ cell' \in {cell, None}
  \/ \A c \in Callers : view[c] # None => view[c].revision # cell'.revision

Begin(c) ==
  /\ c \notin pending /\ pending' = pending \cup {c}
  /\ UNCHANGED <<cell, view, answer>>

\* The update takes effect: only on what the caller has seen.  The caller learns
\* of it, with the new revision, or is left in doubt by an error.
Edit(c) ==
  /\ c \in pending /\ pending' = pending \ {c}
  /\ cell # None /\ view[c] = cell
  /\ cell' # None /\ Fresh
  /\ \/ answer' = "done" /\ view' = [view EXCEPT ![c] = cell']
     \/ answer' = "doubt" /\ UNCHANGED view

\* The update has no effect.
Refuse(c) ==
  /\ pending' = pending \ {c}
  /\ answer' \in {"refused", "doubt"}
  /\ UNCHANGED <<cell, view>>

\* Another request of the caller shows it an object, perhaps an old one; if the
\* revision is the current one then so is the rest.
Look(c) ==
  /\ c \notin pending
  /\ view' = [view EXCEPT ![c] = view'[c]]
  /\ cell # None /\ view'[c] # None /\ view'[c].revision = cell.revision => view'[c] = cell
  /\ answer' = "none"
  /\ UNCHANGED <<cell, pending>>

\* Anything else that changes the object: requests to create, delete, pause or
\* start it, and the writes of everyone else.
Change ==
  /\ Fresh /\ answer' \in {answer, "none"}
  /\ UNCHANGED <<view, pending>>

Next ==
  \/ \E c \in Callers : Begin(c) \/ Edit(c) \/ Refuse(c) \/ Look(c)
  \/ Change

Spec == Init /\ [][Next]_vars
=============================================================================
