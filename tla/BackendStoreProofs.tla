------------------------- MODULE BackendStoreProofs -------------------------
(***************************************************************************)
(* For any number of replicas, callers, contents and writes: the types of  *)
(* BackendStore, what a revision stands for, and that BackendStore         *)
(* implements RevisionedStore.                                             *)
(*                                                                         *)
(* The argument: every copy of the object (in a cache, in a request) with  *)
(* the stored resourceVersion is the stored object, and every revision of  *)
(* the stored uid is at most the stored one and, if equal, shows the       *)
(* stored content.  A conditional write that succeeds therefore replaces   *)
(* the very object that the caller's revision was compared with.           *)
(***************************************************************************)
EXTENDS BackendStore, TLAPS

\* The ways in which a step may change the stored object.
Kept == UNCHANGED <<stored, version, uids>>
Dropped == stored' = None /\ UNCHANGED <<version, uids>>
Rewritten ==
  /\ stored \in Objects /\ stored' \in Objects
  /\ version' = version + 1 /\ uids' = uids
  /\ stored'.uid = stored.uid /\ stored'.resourceVersion = version + 1
  /\ \/ stored'.generation = stored.generation + 1
     \/ stored'.generation = stored.generation /\ UpdateModel(stored') = UpdateModel(stored)
Inserted ==
  /\ stored = None /\ stored' \in Objects
  /\ version' = version + 1 /\ uids' = uids + 1
  /\ stored'.uid = uids + 1 /\ stored'.resourceVersion = version + 1
Advance == Kept \/ Dropped \/ Rewritten \/ Inserted

\* A model shown to a caller, against the stored object.
Known(m) ==
  /\ m.revision[1] <= uids
  /\ stored # None /\ m.revision[1] = stored.uid =>
       /\ m.revision[2] <= stored.generation
       /\ m.revision[2] = stored.generation => m = UpdateModel(stored)

\* A copy of the object, against the stored one.
Held(o) ==
  /\ o.resourceVersion <= version
  /\ stored # None /\ o.resourceVersion = stored.resourceVersion => o = stored
  /\ Known(UpdateModel(o))

IInv ==
  /\ TypeOK
  /\ stored # None => Held(stored)
  /\ \A r \in Replicas : cache[r] # None => Held(cache[r])
  /\ \A c \in Callers : view[c] # None => Known(view[c])
  /\ \A c \in Callers : call[c].op = "update" =>
       /\ Held(call[c].read)
       /\ Revisioned => view[c] # None /\ CalculateRevision(call[c].read) = view[c].revision
       /\ Labelled => call[c].read.canUpdate
-----------------------------------------------------------------------------
(* The model of an object, and its type. *)
LEMMA ModelType ==
  ASSUME NEW o \in Objects
  PROVE  /\ UpdateModel(o) \in Models
         /\ UpdateModel(o).revision = <<o.uid, o.generation>>
         /\ UpdateModel(o).revision[1] = o.uid
         /\ UpdateModel(o).revision[2] = o.generation
  BY DEF Objects, Models, UpdateModel, CalculateRevision

(* The API server keeps the uid, and changes what a model shows only with    *)
(* the generation.                                                           *)
LEMMA WriteRewrites ==
  ASSUME stored \in Objects, version \in Nat, NEW o \in Objects, o.uid = stored.uid, Write(o)
  PROVE  Rewritten
<1> DEFINE g == stored.generation + (IF SpecOf(o) = SpecOf(stored) THEN 0 ELSE 1)
<1>g. stored.generation \in Nat /\ g \in Nat
  <2>1. stored.generation \in Nat
    BY DEF Objects
  <2>2. CASE SpecOf(o) = SpecOf(stored)
    BY <2>1, <2>2
  <2>3. CASE SpecOf(o) # SpecOf(stored)
    BY <2>1, <2>3
  <2> QED BY <2>1, <2>2, <2>3
<1>1. /\ version' = version + 1 /\ uids' = uids
      /\ stored' = [o EXCEPT !.resourceVersion = version + 1, !.generation = g]
  BY DEF Write
<1> HIDE DEF g
<1>2. stored' \in Objects
  <2> DEFINE v == version + 1
  <2>1. v \in Nat
    OBVIOUS
  <2> HIDE DEF v
  <2>2. [o EXCEPT !.resourceVersion = v] \in Objects
    BY <2>1 DEF Objects
  <2>3. [[o EXCEPT !.resourceVersion = v] EXCEPT !.generation = g] \in Objects
    BY <2>2, <1>g DEF Objects
  <2>4. stored' = [[o EXCEPT !.resourceVersion = v] EXCEPT !.generation = g]
    BY <1>1 DEF v
  <2> QED BY <2>3, <2>4
<1>3. /\ stored'.uid = o.uid /\ stored'.resourceVersion = version + 1
      /\ stored'.edit = o.edit /\ stored'.paused = o.paused
      /\ stored'.generation = g
  BY <1>1 DEF Objects
<1>4. CASE SpecOf(o) = SpecOf(stored)
  <2>1. o.edit = stored.edit /\ o.paused = stored.paused
    BY <1>4 DEF SpecOf
  <2>2. stored'.generation = stored.generation
    BY <1>3, <1>4, <1>g DEF g
  <2>3. UpdateModel(stored') = UpdateModel(stored)
    BY <1>3, <2>1, <2>2 DEF UpdateModel, CalculateRevision
  <2> QED BY <1>1, <1>2, <1>3, <2>2, <2>3 DEF Rewritten
<1>5. CASE SpecOf(o) # SpecOf(stored)
  BY <1>1, <1>2, <1>3, <1>5 DEF Rewritten, g
<1> QED BY <1>4, <1>5

LEMMA InsertInserts ==
  ASSUME stored = None, version \in Nat, uids \in Nat, NEW w \in Requests, NEW rest \in Rests,
         NEW label \in BOOLEAN, Insert(w, rest, label)
  PROVE  Inserted
<1>1. rest \in Values \cup {None}
  BY DEF Rests
<1>2. w.edit \in Values \cup {None} /\ w.paused \in BOOLEAN
  BY DEF Requests
<1>3. stored' \in Objects
  BY <1>1, <1>2 DEF Insert, Objects
<1> QED BY <1>3 DEF Insert, Inserted

LEMMA RemoveAdvances ==
  ASSUME stored \in Objects, version \in Nat, Remove
  PROVE  Advance
<1>1. CASE stored' = None /\ UNCHANGED <<version, uids>>
  BY <1>1 DEF Advance, Dropped
<1>2. CASE ~stored.deleting /\ Write([stored EXCEPT !.deleting = TRUE])
  <2>1. /\ [stored EXCEPT !.deleting = TRUE] \in Objects
        /\ [stored EXCEPT !.deleting = TRUE].uid = stored.uid
    BY DEF Objects
  <2> QED BY <1>2, <2>1, WriteRewrites DEF Advance
<1>3. CASE stored.deleting /\ UNCHANGED <<stored, version, uids>>
  BY <1>3 DEF Advance, Kept
<1> QED BY <1>1, <1>2, <1>3 DEF Remove

(* What is known of a model, or of a copy of the object, stays true however  *)
(* the stored object changes: resource versions and uids are new, and a      *)
(* generation moves on with the content.                                     *)
LEMMA KnownKept ==
  ASSUME version \in Nat, uids \in Nat, stored \in Objects \cup {None},
         NEW m \in Models, Known(m), Advance
  PROVE  Known(m)'
<1>m. m.revision[1] \in Nat /\ m.revision[2] \in Nat
  BY DEF Models
<1>1. CASE Kept
  BY <1>1 DEF Kept, Known
<1>2. CASE Dropped
  BY <1>2 DEF Dropped, Known
<1>3. CASE Rewritten
  <2>1. stored # None
    BY <1>3, NoneAssumption DEF Rewritten
  <2>2. stored.generation \in Nat /\ stored'.generation \in Nat
    BY <1>3 DEF Rewritten, Objects
  <2>3. m.revision[1] <= uids'
    BY <1>3 DEF Rewritten, Known
  <2>4. SUFFICES ASSUME m.revision[1] = stored'.uid
                 PROVE  /\ m.revision[2] <= stored'.generation
                        /\ m.revision[2] = stored'.generation => m = UpdateModel(stored')
    BY <2>3 DEF Known, UpdateModel, CalculateRevision
  <2>5. /\ m.revision[2] <= stored.generation
        /\ m.revision[2] = stored.generation => m = UpdateModel(stored)
    BY <1>3, <2>1, <2>4 DEF Rewritten, Known
  <2>6. CASE stored'.generation = stored.generation + 1
    BY <1>m, <2>2, <2>5, <2>6
  <2>7. CASE stored'.generation = stored.generation /\ UpdateModel(stored') = UpdateModel(stored)
    BY <2>5, <2>7
  <2> QED BY <1>3, <2>6, <2>7 DEF Rewritten
<1>4. CASE Inserted
  <2>1. m.revision[1] <= uids
    BY DEF Known
  <2>2. m.revision[1] <= uids' /\ m.revision[1] # stored'.uid
    BY <1>4, <1>m, <2>1 DEF Inserted
  <2> QED BY <2>2 DEF Known
<1> QED BY <1>1, <1>2, <1>3, <1>4 DEF Advance

LEMMA HeldKept ==
  ASSUME version \in Nat, uids \in Nat, stored \in Objects \cup {None},
         NEW o \in Objects, Held(o), Advance
  PROVE  Held(o)'
<1>1. UpdateModel(o) \in Models
  BY ModelType
<1>2. Known(UpdateModel(o))'
  <2>1. Known(UpdateModel(o))
    BY DEF Held
  <2> DEFINE m == UpdateModel(o)
  <2>2. m \in Models /\ Known(m)
    BY <1>1, <2>1
  <2> HIDE DEF m
  <2>3. Known(m)'
    BY <2>2, KnownKept
  <2> QED BY <2>3 DEF m
<1>o. o.resourceVersion \in Nat
  BY DEF Objects
<1>3. o.resourceVersion <= version' /\ (stored' # None /\ o.resourceVersion = stored'.resourceVersion => o = stored')
  <2>1. CASE Kept
    BY <2>1 DEF Kept, Held
  <2>2. CASE Dropped
    BY <2>2 DEF Dropped, Held
  <2>3. CASE Rewritten
    BY <2>3, <1>o DEF Rewritten, Held
  <2>4. CASE Inserted
    BY <2>4, <1>o DEF Inserted, Held
  <2> QED BY <2>1, <2>2, <2>3, <2>4 DEF Advance
<1> QED BY <1>2, <1>3 DEF Held

(* The stored object is, of course, one of its copies.                       *)
LEMMA StoredHeld ==
  ASSUME version \in Nat, uids \in Nat, stored \in Objects \cup {None},
         stored # None => Held(stored), Advance
  PROVE  stored' # None => Held(stored)'
<1>1. CASE Kept
  BY <1>1 DEF Kept, Held, Known
<1>2. CASE Dropped
  BY <1>2 DEF Dropped
<1>3. CASE Rewritten
  <2>1. stored \in Objects /\ stored # None /\ stored' \in Objects
    BY <1>3, NoneAssumption DEF Rewritten
  <2>2. stored.uid <= uids
    BY <2>1, ModelType DEF Held, Known
  <2>3. stored'.uid <= uids' /\ stored'.resourceVersion <= version'
    BY <1>3, <2>2 DEF Rewritten
  <2>4. UpdateModel(stored').revision[1] = stored'.uid /\ UpdateModel(stored').revision[2] = stored'.generation
        /\ stored'.generation \in Nat
    BY <2>1, ModelType DEF Objects
  <2> QED BY <2>3, <2>4 DEF Held, Known, UpdateModel, CalculateRevision
<1>4. CASE Inserted
  <2>1. stored' \in Objects
    BY <1>4 DEF Inserted
  <2>3. stored'.uid <= uids' /\ stored'.resourceVersion <= version'
    BY <1>4 DEF Inserted
  <2>4. UpdateModel(stored').revision[1] = stored'.uid /\ UpdateModel(stored').revision[2] = stored'.generation
        /\ stored'.generation \in Nat
    BY <2>1, ModelType DEF Objects
  <2> QED BY <2>3, <2>4 DEF Held, Known, UpdateModel, CalculateRevision
<1> QED BY <1>1, <1>2, <1>3, <1>4 DEF Advance
-----------------------------------------------------------------------------
(* The steps. *)

(* A 200 to an update says that it was stored, and nothing else does.        *)
LEMMA Codes ==
  ASSUME NEW err
  PROVE  /\ CreateCode(err) \in Nat /\ UpdateCode(err) \in Nat /\ DeleteCode(err) \in Nat
         /\ PauseActionWorkspaceHandler(err) \in Nat
         /\ UpdateCode("ok") = 200 /\ UpdateCode("Error") = 500
         /\ err # "ok" => UpdateCode(err) # 200
<1>1. CreateCode(err) \in Nat
  BY DEF CreateCode, CreateWorkspaceHandler, CreateWorkspaceKindHandler, CreateSecretHandler,
         CreatePVCHandler
<1>2. UpdateCode(err) \in Nat /\ (err # "ok" => UpdateCode(err) # 200)
  BY DEF UpdateCode, UpdateWorkspaceHandler, UpdateWorkspaceKindHandler, UpdateSecretHandler
<1>3. DeleteCode(err) \in Nat
  BY DEF DeleteCode, DeleteWorkspaceHandler, DeleteWorkspaceKindHandler, DeleteSecretHandler,
         DeletePVCHandler
<1>4. PauseActionWorkspaceHandler(err) \in Nat
  BY DEF PauseActionWorkspaceHandler
<1>5. UpdateCode("ok") = 200 /\ UpdateCode("Error") = 500
  BY DEF UpdateCode, UpdateWorkspaceHandler, UpdateWorkspaceKindHandler, UpdateSecretHandler
<1> QED BY <1>1, <1>2, <1>3, <1>4, <1>5

(* The object that an update has read is the stored one when its conditional *)
(* write succeeds.                                                           *)
LEMMA ReadIsStored ==
  ASSUME IInv, NEW c \in Callers, call[c].op = "update",
         stored # None, stored.resourceVersion = call[c].read.resourceVersion
  PROVE  call[c].read = stored
  BY DEF IInv, Held

LEMMA UpdateCall ==
  ASSUME TypeOK, NEW c \in Callers, call[c].op = "update"
  PROVE  call[c].read \in Objects /\ call[c].want \in Requests /\ call[c] # Idle
<1>1. call[c] \in {Idle, [op |-> "delete"]} \cup [op : {"update"}, read : Objects, want : Requests]
  BY DEF TypeOK
<1>2. call[c] # Idle /\ call[c] # [op |-> "delete"]
  BY DEF Idle
<1> QED BY <1>1, <1>2

LEMMA ApplyType ==
  ASSUME NEW o \in Objects, NEW w \in Requests
  PROVE  Apply(o, w) \in Objects /\ Apply(o, w).uid = o.uid
<1>1. w.edit \in Values \cup {None} /\ w.paused \in BOOLEAN
  BY DEF Requests
<1>2. [o EXCEPT !.edit = w.edit] \in Objects
  BY <1>1 DEF Objects
<1>3. [[o EXCEPT !.edit = w.edit] EXCEPT !.paused = w.paused] \in Objects
  BY <1>1, <1>2 DEF Objects
<1>4. Apply(o, w) = [[o EXCEPT !.edit = w.edit] EXCEPT !.paused = w.paused]
  BY DEF Apply
<1>5. Apply(o, w).uid = o.uid
  BY DEF Apply, Objects
<1> QED BY <1>3, <1>4, <1>5

LEMMA WriteAdvances ==
  ASSUME stored \in Objects, version \in Nat, NEW o \in Objects, o.uid = stored.uid, Write(o)
  PROVE  Advance
  BY WriteRewrites DEF Advance

LEMMA UpdateAdvances ==
  ASSUME IInv, NEW c \in Callers, UpdateWrite(c)
  PROVE  Advance
<1>t. stored \in Objects \cup {None} /\ version \in Nat /\ call[c].op = "update" /\ TypeOK
  BY DEF IInv, TypeOK, UpdateWrite
<1>1. CASE /\ stored # None /\ stored.resourceVersion = call[c].read.resourceVersion
           /\ Write(Apply(call[c].read, call[c].want))
  <2>1. call[c].read = stored
    BY <1>t, <1>1, ReadIsStored
  <2>2. call[c].want \in Requests /\ stored \in Objects
    BY <1>t, <1>1, UpdateCall
  <2>3. Apply(stored, call[c].want) \in Objects /\ Apply(stored, call[c].want).uid = stored.uid
    BY <2>2, ApplyType
  <2>4. Write(Apply(stored, call[c].want))
    BY <1>1, <2>1
  <2> QED BY <1>t, <2>2, <2>3, <2>4, WriteAdvances
<1>2. CASE UNCHANGED <<stored, version, uids>>
  BY <1>2 DEF Advance, Kept
<1> QED BY <1>1, <1>2 DEF UpdateWrite

LEMMA OtherAdvances ==
  ASSUME TypeOK, Other
  PROVE  Advance
<1>t. stored \in Objects \cup {None} /\ version \in Nat /\ uids \in Nat
  BY DEF TypeOK
<1>1. CASE OtherSpec
  <2>1. PICK w \in Requests, rest \in Rests :
          Write([stored EXCEPT !.edit = w.edit, !.paused = w.paused, !.rest = rest])
    BY <1>1 DEF OtherSpec
  <2>2. stored \in Objects
    BY <1>t, <1>1 DEF OtherSpec
  <2>3. w.edit \in Values \cup {None} /\ w.paused \in BOOLEAN /\ rest \in Values \cup {None}
    BY DEF Requests, Rests
  <2> DEFINE o == [stored EXCEPT !.edit = w.edit, !.paused = w.paused, !.rest = rest]
  <2>4. [[stored EXCEPT !.edit = w.edit] EXCEPT !.paused = w.paused] \in Objects
    BY <2>2, ApplyType DEF Apply
  <2>5. [[[stored EXCEPT !.edit = w.edit] EXCEPT !.paused = w.paused] EXCEPT !.rest = rest] \in Objects
    BY <2>3, <2>4 DEF Objects
  <2>6. o \in Objects
    BY <2>5
  <2>7. o.uid = stored.uid
    BY <2>2 DEF Objects
  <2> QED BY <1>t, <2>1, <2>2, <2>6, <2>7, WriteAdvances
<1>2. CASE OtherMeta
  <2>1. stored \in Objects
    BY <1>t, <1>2 DEF OtherMeta
  <2>2. CASE \E x \in {"Paused", "Other"} : Write([stored EXCEPT !.state = x])
    <3>1. PICK x \in {"Paused", "Other"} : Write([stored EXCEPT !.state = x])
      BY <2>2
    <3>2. [stored EXCEPT !.state = x] \in Objects /\ [stored EXCEPT !.state = x].uid = stored.uid
      BY <2>1 DEF Objects
    <3> QED BY <1>t, <2>1, <3>1, <3>2, WriteAdvances
  <2>3. CASE Write([stored EXCEPT !.canUpdate = ~@])
    <3>1. stored.canUpdate \in BOOLEAN
      BY <2>1 DEF Objects
    <3>2. (~stored.canUpdate) \in BOOLEAN
      BY <3>1
    <3> DEFINE o == [stored EXCEPT !.canUpdate = ~stored.canUpdate]
    <3>3. o \in Objects /\ o.uid = stored.uid
      BY <2>1, <3>2 DEF Objects
    <3> QED BY <1>t, <2>1, <2>3, <3>3, WriteAdvances
  <2>4. CASE Write(stored)
    BY <1>t, <2>1, <2>4, WriteAdvances
  <2> QED BY <1>2, <2>2, <2>3, <2>4 DEF OtherMeta
<1>3. CASE OtherCreate
  BY <1>t, <1>3, InsertInserts DEF OtherCreate, Advance
<1>4. CASE OtherDelete
  BY <1>t, <1>4, RemoveAdvances DEF OtherDelete
<1> QED BY <1>1, <1>2, <1>3, <1>4 DEF Other
-----------------------------------------------------------------------------
\* How a step may change the other variables.
Calls == {Idle, [op |-> "delete"]} \cup [op : {"update"}, read : Objects, want : Requests]
CacheMoves ==
  /\ cache' \in [Replicas -> Objects \cup {None}]
  /\ \A r \in Replicas : cache'[r] \in {cache[r], stored}
ViewMoves ==
  /\ view' \in [Callers -> Models \cup {None}]
  /\ \A c \in Callers : view'[c] # view[c] =>
       /\ Revisioned /\ call'[c] = Idle
       /\ \E o \in Objects : /\ view'[c] = UpdateModel(o)
                             /\ o = stored' \/ \E r \in Replicas : o = cache[r]
CallMoves ==
  /\ call' \in [Callers -> Calls]
  /\ \A c \in Callers : call'[c] # call[c] =>
       \/ call'[c] = Idle
       \/ call'[c] = [op |-> "delete"] /\ Labelled
       \/ /\ call'[c].op = "update" /\ view'[c] = view[c]
          /\ call'[c].read = stored \/ \E r \in Replicas : call'[c].read = cache[r]
          /\ Revisioned => view[c] # None
          /\ UpdateCheck(c, call'[c].read) = "ok"
Moves ==
  /\ Advance /\ type' = type /\ CacheMoves /\ ViewMoves /\ CallMoves
  /\ reply' \in [to : Callers \cup {None}, op : {"update", "other"}, code : Nat]

LEMMA AnswerType ==
  ASSUME NEW c \in Callers, NEW op \in {"update", "other"}, NEW code \in Nat, Answer(c, op, code)
  PROVE  reply' \in [to : Callers \cup {None}, op : {"update", "other"}, code : Nat]
  BY DEF Answer

LEMMA CallType ==
  ASSUME TypeOK
  PROVE  call \in [Callers -> Calls]
  BY DEF TypeOK, Calls

LEMMA UnchangedMoves ==
  ASSUME TypeOK
  PROVE  /\ UNCHANGED cache => CacheMoves
         /\ UNCHANGED view => ViewMoves
         /\ type' = type /\ UNCHANGED call => CallMoves
         /\ UNCHANGED reply => reply' \in [to : Callers \cup {None}, op : {"update", "other"}, code : Nat]
<1>1. type' = type => Calls' = Calls
  BY DEF Calls, Objects, Requests, Idle
<1>2. call \in [Callers -> Calls]
  BY CallType
<1> QED BY <1>1, <1>2 DEF TypeOK, CacheMoves, ViewMoves, CallMoves

LEMMA RejectMoves ==
  ASSUME IInv, NEW c \in Callers, NEW op \in {"update", "other"}, Reject(c, op)
  PROVE  Moves
<1>1. TypeOK
  BY DEF IInv
<1>2. reply' \in [to : Callers \cup {None}, op : {"update", "other"}, code : Nat]
  BY AnswerType DEF Reject
<1>3. UNCHANGED <<type, stored, version, uids, cache, view, call>>
  BY DEF Reject
<1> QED BY <1>1, <1>2, <1>3, UnchangedMoves DEF Moves, Advance, Kept

LEMMA GetMoves ==
  ASSUME IInv, NEW c \in Callers, NEW r \in Replicas, Get(c, r)
  PROVE  Moves
<1>1. TypeOK
  BY DEF IInv
<1>2. reply' \in [to : Callers \cup {None}, op : {"update", "other"}, code : Nat]
  BY AnswerType DEF Get
<1>3. UNCHANGED <<type, stored, version, uids, cache, call>> /\ call[c] = Idle /\ Revisioned
  BY DEF Get
<1>4. ViewMoves
  <2>1. CASE cache[r] # None /\ view' = [view EXCEPT ![c] = UpdateModel(cache[r])]
    <3>1. cache[r] \in Objects
      BY <1>1, <2>1 DEF TypeOK
    <3>2. UpdateModel(cache[r]) \in Models
      BY <3>1, ModelType
    <3>3. view' \in [Callers -> Models \cup {None}]
      BY <1>1, <2>1, <3>2 DEF TypeOK
    <3>4. view'[c] = UpdateModel(cache[r]) /\ \A d \in Callers : d # c => view'[d] = view[d]
      BY <1>1, <2>1 DEF TypeOK
    <3> QED BY <1>3, <3>1, <3>3, <3>4 DEF ViewMoves
  <2>2. CASE UNCHANGED view
    BY <1>1, <2>2, UnchangedMoves
  <2> QED BY <2>1, <2>2 DEF Get
<1> QED BY <1>1, <1>2, <1>3, <1>4, UnchangedMoves DEF Moves, Advance, Kept

LEMMA CreateMoves ==
  ASSUME IInv, NEW c \in Callers, NEW w \in Requests, NEW rest \in Rests, Create(c, w, rest)
  PROVE  Moves
<1>1. TypeOK
  BY DEF IInv
<1>2. reply' \in [to : Callers \cup {None}, op : {"update", "other"}, code : Nat]
  BY AnswerType, Codes DEF Create
<1>3. UNCHANGED <<type, cache, view, call>>
  BY DEF Create
<1>4. CASE stored = None /\ Insert(w, rest, Labelled)
  <2>1. Labelled \in BOOLEAN
    BY DEF Labelled
  <2>2. Inserted
    BY <1>1, <1>4, <2>1, InsertInserts DEF TypeOK
  <2> QED BY <1>1, <1>2, <1>3, <2>2, UnchangedMoves DEF Moves, Advance
<1>5. CASE UNCHANGED <<stored, version, uids>>
  BY <1>1, <1>2, <1>3, <1>5, UnchangedMoves DEF Moves, Advance, Kept
<1> QED BY <1>4, <1>5 DEF Create

LEMMA ReadType ==
  ASSUME TypeOK, NEW r \in Replicas
  PROVE  Read(r) \in Objects \cup {None} /\ Read(r) \in {stored, cache[r]}
  BY DEF TypeOK, Read

LEMMA UpdateReadMoves ==
  ASSUME IInv, NEW c \in Callers, NEW r \in Replicas, NEW w \in Requests, UpdateRead(c, r, w)
  PROVE  Moves
<1>1. TypeOK
  BY DEF IInv
<1>3. /\ UNCHANGED <<type, stored, version, uids, cache, view>>
      /\ Revisioned => view[c] # None
  BY DEF UpdateRead
<1>4. CASE /\ UpdateCheck(c, Read(r)) = "ok" /\ UNCHANGED reply
           /\ call' = [call EXCEPT ![c] = [op |-> "update", read |-> Read(r), want |-> w]]
  <2>1. Read(r) # None
    BY <1>4 DEF UpdateCheck
  <2>2. Read(r) \in Objects /\ Read(r) \in {stored, cache[r]}
    BY <1>1, <2>1, ReadType
  <2> DEFINE new == [op |-> "update", read |-> Read(r), want |-> w]
  <2>3. new \in Calls /\ new.op = "update" /\ new.read = Read(r)
    BY <2>2 DEF Calls
  <2>4. call \in [Callers -> Calls] /\ call' = [call EXCEPT ![c] = new]
    BY <1>1, <1>4, CallType
  <2> HIDE DEF new
  <2>5. call' \in [Callers -> Calls] /\ call'[c] = new /\ \A d \in Callers : d # c => call'[d] = call[d]
    BY <2>3, <2>4
  <2>6. CallMoves
    BY <1>3, <1>4, <2>2, <2>3, <2>5 DEF CallMoves
  <2> QED BY <1>1, <1>3, <1>4, <2>6, UnchangedMoves DEF Moves, Advance, Kept
<1>5. CASE UNCHANGED call /\ \E e : Answer(c, "update", UpdateCode(e))
  <2>1. reply' \in [to : Callers \cup {None}, op : {"update", "other"}, code : Nat]
    BY <1>5, AnswerType, Codes
  <2> QED BY <1>1, <1>3, <1>5, <2>1, UnchangedMoves DEF Moves, Advance, Kept
<1> QED BY <1>4, <1>5 DEF UpdateRead

(* A request that ends leaves no call. *)
LEMMA IdleMoves ==
  ASSUME TypeOK, NEW c \in Callers, call' = [call EXCEPT ![c] = Idle]
  PROVE  CallMoves /\ call'[c] = Idle
<1>1. Idle \in Calls /\ call \in [Callers -> Calls]
  BY CallType DEF Calls
<1>2. call' \in [Callers -> Calls] /\ call'[c] = Idle /\ \A d \in Callers : d # c => call'[d] = call[d]
  BY <1>1
<1> QED BY <1>2 DEF CallMoves

LEMMA UpdateWriteMoves ==
  ASSUME IInv, NEW c \in Callers, UpdateWrite(c)
  PROVE  Moves
<1>1. TypeOK
  BY DEF IInv
<1>2. Advance
  BY UpdateAdvances
<1>3. UNCHANGED <<type, cache>> /\ call' = [call EXCEPT ![c] = Idle]
  BY DEF UpdateWrite
<1>4. reply' \in [to : Callers \cup {None}, op : {"update", "other"}, code : Nat]
  <2>1. \E e : Answer(c, "update", UpdateCode(e))
    BY DEF UpdateWrite
  <2> QED BY <2>1, AnswerType, Codes
<1>5. CallMoves /\ call'[c] = Idle
  BY <1>1, <1>3, IdleMoves
<1>6. ViewMoves
  <2>1. CASE UNCHANGED view
    BY <1>1, <2>1, UnchangedMoves
  <2>2. CASE /\ stored # None /\ Write(Apply(call[c].read, call[c].want))
             /\ stored.resourceVersion = call[c].read.resourceVersion
             /\ Revisioned /\ view' = [view EXCEPT ![c] = UpdateModel(stored')]
    <3>1. call[c].op = "update" /\ version' = version + 1 /\ version \in Nat
      BY <1>1, <2>2 DEF UpdateWrite, Write, TypeOK
    <3>2. stored' \in Objects
      <4>1. call[c].read = stored /\ call[c].want \in Requests /\ stored \in Objects
        BY <1>1, <2>2, <3>1, ReadIsStored, UpdateCall
      <4>2. Apply(stored, call[c].want) \in Objects /\ Apply(stored, call[c].want).uid = stored.uid
        BY <4>1, ApplyType
      <4>3. Write(Apply(stored, call[c].want))
        BY <2>2, <4>1
      <4> QED BY <3>1, <4>1, <4>2, <4>3, WriteRewrites DEF Rewritten
    <3>3. UpdateModel(stored') \in Models
      BY <3>2, ModelType
    <3>4. /\ view' \in [Callers -> Models \cup {None}] /\ view'[c] = UpdateModel(stored')
          /\ \A d \in Callers : d # c => view'[d] = view[d]
      BY <1>1, <2>2, <3>3 DEF TypeOK
    <3> QED BY <1>5, <2>2, <3>2, <3>4 DEF ViewMoves
  <2> QED BY <2>1, <2>2 DEF UpdateWrite
<1> QED BY <1>1, <1>2, <1>3, <1>4, <1>5, <1>6, UnchangedMoves DEF Moves

LEMMA PauseMoves ==
  ASSUME IInv, NEW c \in Callers, NEW target \in BOOLEAN, HandlePauseAction(c, target)
  PROVE  Moves
<1>1. TypeOK
  BY DEF IInv
<1>2. UNCHANGED <<type, cache, view, call>>
  BY DEF HandlePauseAction
<1>3. reply' \in [to : Callers \cup {None}, op : {"update", "other"}, code : Nat]
  <2>1. \E e : Answer(c, "other", PauseActionWorkspaceHandler(e))
    BY DEF HandlePauseAction
  <2> QED BY <2>1, AnswerType, Codes
<1>4. CASE stored # None /\ Write([stored EXCEPT !.paused = target])
  <2>1. stored \in Objects /\ version \in Nat
    BY <1>1, <1>4 DEF TypeOK
  <2>2. /\ [stored EXCEPT !.paused = target] \in Objects
        /\ [stored EXCEPT !.paused = target].uid = stored.uid
    BY <2>1 DEF Objects
  <2>3. Advance
    BY <1>4, <2>1, <2>2, WriteAdvances
  <2> QED BY <1>1, <1>2, <1>3, <2>3, UnchangedMoves DEF Moves
<1>5. CASE UNCHANGED <<stored, version, uids>>
  BY <1>1, <1>2, <1>3, <1>5, UnchangedMoves DEF Moves, Advance, Kept
<1> QED BY <1>4, <1>5 DEF HandlePauseAction

LEMMA DeleteReadMoves ==
  ASSUME IInv, NEW c \in Callers, NEW r \in Replicas, DeleteRead(c, r)
  PROVE  Moves
<1>1. TypeOK
  BY DEF IInv
<1>2. UNCHANGED <<type, stored, version, uids, cache, view>> /\ Labelled
  BY DEF DeleteRead
<1>3. CASE call' = [call EXCEPT ![c] = [op |-> "delete"]] /\ UNCHANGED reply
  <2>1. [op |-> "delete"] \in Calls /\ call \in [Callers -> Calls]
    BY <1>1, CallType DEF Calls
  <2>2. /\ call' \in [Callers -> Calls] /\ call'[c] = [op |-> "delete"]
        /\ \A d \in Callers : d # c => call'[d] = call[d]
    BY <1>3, <2>1
  <2>3. CallMoves
    BY <1>2, <2>2 DEF CallMoves
  <2> QED BY <1>1, <1>2, <1>3, <2>3, UnchangedMoves DEF Moves, Advance, Kept
<1>4. CASE UNCHANGED call /\ \E e : Answer(c, "other", DeleteCode(e))
  <2>1. reply' \in [to : Callers \cup {None}, op : {"update", "other"}, code : Nat]
    BY <1>4, AnswerType, Codes
  <2> QED BY <1>1, <1>2, <1>4, <2>1, UnchangedMoves DEF Moves, Advance, Kept
<1> QED BY <1>3, <1>4 DEF DeleteRead

LEMMA DeleteWriteMoves ==
  ASSUME IInv, NEW c \in Callers, DeleteWrite(c)
  PROVE  Moves
<1>1. TypeOK
  BY DEF IInv
<1>2. UNCHANGED <<type, cache, view>> /\ call' = [call EXCEPT ![c] = Idle]
  BY DEF DeleteWrite
<1>3. reply' \in [to : Callers \cup {None}, op : {"update", "other"}, code : Nat]
  <2>1. \E e : Answer(c, "other", DeleteCode(e))
    BY DEF DeleteWrite
  <2> QED BY <2>1, AnswerType, Codes
<1>4. CallMoves
  BY <1>1, <1>2, IdleMoves
<1>5. Advance
  <2>1. CASE stored # None /\ Remove
    BY <1>1, <2>1, RemoveAdvances DEF TypeOK
  <2>2. CASE UNCHANGED <<stored, version, uids>>
    BY <2>2 DEF Advance, Kept
  <2> QED BY <2>1, <2>2 DEF DeleteWrite
<1> QED BY <1>1, <1>2, <1>3, <1>4, <1>5, UnchangedMoves DEF Moves

LEMMA DeliverMoves ==
  ASSUME IInv, NEW r \in Replicas, Deliver(r)
  PROVE  Moves
<1>1. TypeOK
  BY DEF IInv
<1>2. /\ UNCHANGED <<type, stored, version, uids, view, call, reply>>
      /\ cache' = [cache EXCEPT ![r] = stored]
  BY DEF Deliver
<1>3. CacheMoves
  BY <1>1, <1>2 DEF TypeOK, CacheMoves
<1> QED BY <1>1, <1>2, <1>3, UnchangedMoves DEF Moves, Advance, Kept

LEMMA OtherMoves ==
  ASSUME IInv, Other
  PROVE  Moves
<1>1. TypeOK
  BY DEF IInv
<1>2. UNCHANGED <<type, cache, view, call, reply>>
  BY DEF Other, OtherSpec, OtherMeta, OtherCreate, OtherDelete
<1> QED BY <1>1, <1>2, OtherAdvances, UnchangedMoves DEF Moves

LEMMA NextMoves ==
  ASSUME IInv, [Next]_vars
  PROVE  Moves
<1>1. ASSUME NEW c \in Callers, NEW op \in {"update", "other"}, Reject(c, op)
      PROVE  Moves
  BY <1>1, RejectMoves
<1>2. ASSUME NEW c \in Callers, NEW r \in Replicas, Get(c, r) \/ DeleteRead(c, r)
      PROVE  Moves
  BY <1>2, GetMoves, DeleteReadMoves
<1>3. ASSUME NEW c \in Callers, NEW r \in Replicas, NEW w \in Requests, UpdateRead(c, r, w)
      PROVE  Moves
  BY <1>3, UpdateReadMoves
<1>4. ASSUME NEW c \in Callers, NEW w \in Requests, NEW rest \in Rests, Create(c, w, rest)
      PROVE  Moves
  BY <1>4, CreateMoves
<1>5. ASSUME NEW c \in Callers, NEW target \in BOOLEAN, HandlePauseAction(c, target)
      PROVE  Moves
  BY <1>5, PauseMoves
<1>6. ASSUME NEW c \in Callers, UpdateWrite(c) \/ DeleteWrite(c)
      PROVE  Moves
  BY <1>6, UpdateWriteMoves, DeleteWriteMoves
<1>7. ASSUME NEW r \in Replicas, Deliver(r)
      PROVE  Moves
  BY <1>7, DeliverMoves
<1>8. CASE Other
  BY <1>8, OtherMoves
<1>9. CASE UNCHANGED vars
  <2>1. TypeOK
    BY DEF IInv
  <2> QED BY <1>9, <2>1, UnchangedMoves DEF Moves, Advance, Kept, vars
<1> QED BY <1>1, <1>2, <1>3, <1>4, <1>5, <1>6, <1>7, <1>8, <1>9 DEF Next
-----------------------------------------------------------------------------
(* The inductive invariant. *)

LEMMA InitIInv == Init => IInv
<1> SUFFICES ASSUME Init PROVE IInv
  OBVIOUS
<1>1. \A c \in Callers : call[c] = Idle /\ view[c] = None /\ call[c].op = "idle"
  BY DEF Init, Idle
<1>2. TypeOK
  BY <1>1 DEF Init, TypeOK, NoReply
<1>3. stored = None /\ \A r \in Replicas : cache[r] = None
  BY DEF Init
<1> QED BY <1>1, <1>2, <1>3 DEF IInv

LEMMA TypeStep ==
  ASSUME TypeOK, Moves
  PROVE  TypeOK'
<1>1. /\ type' = type /\ type \in Types /\ version \in Nat /\ uids \in Nat
      /\ stored \in Objects \cup {None} /\ Advance
  BY DEF TypeOK, Moves
<1>2. version' \in Nat /\ uids' \in Nat /\ stored' \in Objects \cup {None}
  BY <1>1 DEF Advance, Kept, Dropped, Rewritten, Inserted
<1>3. (Revisioned' <=> Revisioned) /\ (Labelled' <=> Labelled) /\ Requests' = Requests
  BY <1>1 DEF Revisioned, Labelled, Requests
<1>4. /\ cache' \in [Replicas -> Objects \cup {None}]
      /\ view' \in [Callers -> Models \cup {None}]
      /\ call' \in [Callers -> Calls]
      /\ reply' \in [to : Callers \cup {None}, op : {"update", "other"}, code : Nat]
  BY DEF Moves, CacheMoves, ViewMoves, CallMoves
<1>5. ASSUME NEW c \in Callers, view'[c] # None
      PROVE  Revisioned'
  BY <1>3, <1>5 DEF Moves, ViewMoves, TypeOK
<1>6. ASSUME NEW c \in Callers, call'[c].op = "delete"
      PROVE  Labelled'
  <2>1. call'[c] # Idle /\ call'[c].op # "update"
    BY <1>6 DEF Idle
  <2> QED BY <1>3, <1>6, <2>1 DEF Moves, CallMoves, TypeOK
<1> QED BY <1>1, <1>2, <1>3, <1>4, <1>5, <1>6 DEF TypeOK, Calls

LEMMA CheckPasses ==
  ASSUME NEW c \in Callers, NEW o, UpdateCheck(c, o) = "ok"
  PROVE  /\ Revisioned => CalculateRevision(o) = view[c].revision
         /\ Labelled => o.canUpdate
<1>1. o # None
  BY DEF UpdateCheck
<1>2. ~(Revisioned /\ CalculateRevision(o) # view[c].revision)
  BY <1>1 DEF UpdateCheck
<1>3. ~(Labelled /\ ~o.canUpdate)
  BY <1>1, <1>2 DEF UpdateCheck
<1> QED BY <1>2, <1>3

LEMMA StepIInv ==
  ASSUME IInv, [Next]_vars
  PROVE  IInv'
<1>1. Moves /\ Advance /\ type' = type
  BY NextMoves DEF Moves
<1>2. TypeOK /\ TypeOK'
  BY <1>1, TypeStep DEF IInv
<1>3. version \in Nat /\ uids \in Nat /\ stored \in Objects \cup {None}
  BY <1>2 DEF TypeOK
<1>4. stored' # None => Held(stored)'
  BY <1>1, <1>3, StoredHeld DEF IInv
<1>5. ASSUME NEW o \in Objects, o = stored \/ \E r \in Replicas : o = cache[r]
      PROVE  Held(o)'
  <2>1. o # None
    BY NoneAssumption
  <2>2. Held(o)
    BY <1>5, <2>1 DEF IInv
  <2> QED BY <1>1, <1>3, <2>2, HeldKept
<1>6. ASSUME NEW r \in Replicas, cache'[r] # None
      PROVE  Held(cache[r])'
  <2>1. cache'[r] \in Objects /\ cache'[r] \in {cache[r], stored}
    BY <1>1, <1>2, <1>6 DEF TypeOK, Moves, CacheMoves
  <2>2. PICK o \in Objects : o = cache'[r]
    BY <2>1
  <2>3. Held(o)'
    BY <1>5, <2>1, <2>2
  <2> QED BY <2>2, <2>3 DEF Held
<1>7. ASSUME NEW c \in Callers, view'[c] # None
      PROVE  Known(view[c])'
  <2>1. CASE view'[c] = view[c]
    <3>1. view[c] \in Models /\ Known(view[c])
      BY <1>2, <1>7, <2>1 DEF TypeOK, IInv
    <3>2. PICK m \in Models : m = view[c]
      BY <3>1
    <3>3. Known(m)'
      BY <1>1, <1>3, <3>1, <3>2, KnownKept
    <3> QED BY <2>1, <3>2, <3>3 DEF Known
  <2>2. CASE view'[c] # view[c]
    <3>1. PICK o \in Objects : /\ view'[c] = UpdateModel(o)
                               /\ o = stored' \/ \E r \in Replicas : o = cache[r]
      BY <1>1, <2>2 DEF Moves, ViewMoves
    <3>2. CASE o = stored'
      <4>1. Held(stored)'
        BY <1>4, <3>2, NoneAssumption
      <4> QED BY <3>1, <3>2, <4>1 DEF Held, Known
    <3>3. CASE \E r \in Replicas : o = cache[r]
      <4>1. Held(o)'
        BY <1>5, <3>3
      <4> QED BY <3>1, <4>1 DEF Held, Known
    <3> QED BY <3>1, <3>2, <3>3
  <2> QED BY <2>1, <2>2
<1>8. ASSUME NEW c \in Callers, call'[c].op = "update"
      PROVE  /\ Held(call[c].read)'
             /\ Revisioned' => view'[c] # None /\ CalculateRevision(call'[c].read) = view'[c].revision
             /\ Labelled' => call'[c].read.canUpdate
  <2>1. call'[c] # Idle /\ call'[c] # [op |-> "delete"]
    BY <1>8 DEF Idle
  <2>2. view'[c] = view[c]
    BY <1>1, <2>1 DEF Moves, ViewMoves
  <2>3. call'[c].read \in Objects
    BY <1>2, <2>1 DEF TypeOK
  <2>4. (Revisioned' <=> Revisioned) /\ (Labelled' <=> Labelled)
    BY <1>1 DEF Revisioned, Labelled
  <2>5. PICK o \in Objects : o = call'[c].read
    BY <2>3
  <2>6. CASE call'[c] = call[c]
    <3>1. /\ Held(o) /\ (Labelled => o.canUpdate)
          /\ Revisioned => view[c] # None /\ CalculateRevision(o) = view[c].revision
      BY <1>8, <2>5, <2>6 DEF IInv
    <3>2. Held(o)'
      BY <1>1, <1>3, <3>1, HeldKept
    <3> QED BY <2>2, <2>4, <2>5, <3>1, <3>2 DEF Held
  <2>7. CASE call'[c] # call[c]
    <3>1. /\ o = stored \/ \E r \in Replicas : o = cache[r]
          /\ Revisioned => view[c] # None
          /\ UpdateCheck(c, o) = "ok"
      BY <1>1, <2>1, <2>5, <2>7 DEF Moves, CallMoves
    <3>2. Held(o)'
      BY <1>5, <3>1
    <3>3. /\ Revisioned => CalculateRevision(o) = view[c].revision
          /\ Labelled => o.canUpdate
      BY <3>1, CheckPasses
    <3> QED BY <2>2, <2>4, <2>5, <3>1, <3>2, <3>3 DEF Held
  <2> QED BY <2>6, <2>7
<1> QED BY <1>2, <1>4, <1>6, <1>7, <1>8 DEF IInv

(* What IInv says of copies and revisions holds in every reachable state.    *)
THEOREM Invariance == Spec => []IInv
<1>1. IInv /\ [Next]_vars => IInv'
  BY StepIInv
<1> QED BY <1>1, InitIInv, PTL DEF Spec

(* Every variable keeps its type, whatever the number of replicas, callers   *)
(* and writes; a caller has a view only of an object that has a revision.    *)
THEOREM TypeCorrect == Spec => []TypeOK
<1>1. IInv => TypeOK
  BY DEF IInv
<1> QED BY <1>1, Invariance, PTL

LEMMA SeenContent ==
  ASSUME IInv, NEW c \in Callers, stored # None, view[c] # None,
         view[c].revision = CalculateRevision(stored)
  PROVE  view[c] = UpdateModel(stored)
<1>1. Known(view[c])
  BY DEF IInv
<1>2. view[c].revision[1] = stored.uid /\ view[c].revision[2] = stored.generation
  BY DEF CalculateRevision
<1> QED BY <1>1, <1>2 DEF Known

(* CalculateRevision identifies the content: a caller that holds the stored  *)
(* object's revision has seen what the stored object shows.                  *)
THEOREM RevisionsFaithful == Spec => []RevisionFaithful
<1>1. IInv => RevisionFaithful
  BY SeenContent DEF RevisionFaithful
<1> QED BY <1>1, Invariance, PTL
-----------------------------------------------------------------------------
(* What an update that takes effect does. *)

(* An update takes effect only in its own write, on the object it has read.  *)
LEMMA LandsWrites ==
  ASSUME IInv, [Next]_vars, NEW c \in Callers, Lands(c)
  PROVE  /\ call[c].read = stored /\ stored \in Objects /\ stored # None
         /\ call[c].want \in Requests /\ Write(Apply(stored, call[c].want))
<1>1. TypeOK /\ call[c].op = "update" /\ call'[c] = Idle /\ stored' # stored
  BY DEF IInv, Lands
<1>2. call[c].want \in Requests /\ call[c] # Idle /\ call[c] # [op |-> "delete"]
  BY <1>1, UpdateCall
<1>3. /\ call' # call
      /\ \A d \in Callers : call' = [call EXCEPT ![d] = Idle] => d = c
  BY <1>1, <1>2 DEF TypeOK
<1>4. \E d \in Callers : UpdateWrite(d) \/ DeleteWrite(d)
  <2>1. ~UNCHANGED vars /\ ~Other /\ \A r \in Replicas : ~Deliver(r)
    BY <1>3 DEF vars, Other, OtherSpec, OtherMeta, OtherCreate, OtherDelete, Deliver
  <2>2. ASSUME NEW d \in Callers, NEW r \in Replicas
        PROVE  ~Get(d, r) /\ ~DeleteRead(d, r) /\ \A w \in Requests : ~UpdateRead(d, r, w)
    BY <1>1 DEF Get, DeleteRead, UpdateRead
  <2>3. ASSUME NEW d \in Callers
        PROVE  /\ \A op \in {"update", "other"} : ~Reject(d, op)
               /\ \A w \in Requests, rest \in Rests : ~Create(d, w, rest)
               /\ \A target \in BOOLEAN : ~HandlePauseAction(d, target)
    BY <1>3 DEF Reject, Create, HandlePauseAction
  <2> QED BY <2>1, <2>2, <2>3 DEF Next
<1>5. ~DeleteWrite(c) /\ \A d \in Callers : UpdateWrite(d) \/ DeleteWrite(d) => d = c
  BY <1>2, <1>3 DEF UpdateWrite, DeleteWrite
<1>6. UpdateWrite(c)
  BY <1>4, <1>5
<1>7. /\ stored # None /\ stored.resourceVersion = call[c].read.resourceVersion
      /\ Write(Apply(call[c].read, call[c].want))
  BY <1>1, <1>6 DEF UpdateWrite
<1>8. call[c].read = stored
  BY <1>1, <1>7, ReadIsStored
<1> QED BY <1>1, <1>2, <1>7, <1>8 DEF TypeOK

LEMMA ApplyKeeps ==
  ASSUME stored \in Objects, version \in Nat, NEW w \in Requests, Write(Apply(stored, w))
  PROVE  /\ stored'.uid = stored.uid /\ stored'.rest = stored.rest
         /\ stored'.canUpdate = stored.canUpdate /\ stored'.deleting = stored.deleting
<1> DEFINE o == Apply(stored, w)
           g == stored.generation + (IF SpecOf(o) = SpecOf(stored) THEN 0 ELSE 1)
<1>1. /\ o \in Objects /\ o.uid = stored.uid /\ o.rest = stored.rest
      /\ o.canUpdate = stored.canUpdate /\ o.deleting = stored.deleting
  BY ApplyType DEF Apply, Objects
<1>2. stored' = [o EXCEPT !.resourceVersion = version + 1, !.generation = g]
  BY DEF Write
<1> HIDE DEF o, g
<1>3. /\ stored'.uid = o.uid /\ stored'.rest = o.rest
      /\ stored'.canUpdate = o.canUpdate /\ stored'.deleting = o.deleting
  BY <1>1, <1>2 DEF Objects
<1> QED BY <1>1, <1>3

(* An update of a Workspace, WorkspaceKind or Secret never undoes another    *)
(* writer's change to what it does not name.                                 *)
THEOREM EditsKeepRest == Spec => EditKeepsRest
<1>1. ASSUME IInv, [Next]_vars, NEW c \in Callers, Lands(c)
      PROVE  /\ stored # None /\ stored'.uid = stored.uid /\ stored'.rest = stored.rest
             /\ stored'.canUpdate = stored.canUpdate /\ stored'.deleting = stored.deleting
  <2>1. version \in Nat
    BY <1>1 DEF IInv, TypeOK
  <2> QED BY <1>1, <2>1, LandsWrites, ApplyKeeps
<1>2. IInv /\ [Next]_vars =>
        [\A c \in Callers : Lands(c) =>
           /\ stored # None /\ stored'.uid = stored.uid /\ stored'.rest = stored.rest
           /\ stored'.canUpdate = stored.canUpdate /\ stored'.deleting = stored.deleting]_vars
  BY <1>1
<1> QED BY <1>2, Invariance, PTL DEF Spec, EditKeepsRest

(* UpdateSecret changes only a Secret that carries the label at that moment. *)
THEOREM OnlyLabelledUpdates == Spec => OnlyLabelledUpdated
<1>1. ASSUME IInv, [Next]_vars, NEW c \in Callers, Lands(c), Labelled
      PROVE  stored.canUpdate
  <2>1. call[c].op = "update"
    BY <1>1 DEF Lands
  <2>2. call[c].read.canUpdate
    BY <1>1, <2>1 DEF IInv
  <2> QED BY <1>1, <2>2, LandsWrites
<1>2. IInv /\ [Next]_vars => [\A c \in Callers : Lands(c) /\ Labelled => stored.canUpdate]_vars
  BY <1>1
<1> QED BY <1>2, Invariance, PTL DEF Spec, OnlyLabelledUpdated
-----------------------------------------------------------------------------
(* BackendStore implements RevisionedStore. *)

\* The state of RevisionedStore.
Cell == IF stored = None THEN None ELSE UpdateModel(stored)
Pending == {c \in Callers : Revisioned /\ call[c] # Idle}

(* A content that a caller has not seen has a revision that it has not seen. *)
LEMMA AdvanceFresh ==
  ASSUME IInv, Advance
  PROVE  Abstract!Fresh
<1>t. uids \in Nat /\ stored \in Objects \cup {None} /\ view \in [Callers -> Models \cup {None}]
  BY DEF IInv, TypeOK
<1>1. CASE Kept
  BY <1>1 DEF Kept, Abstract!Fresh, UpdateModel, CalculateRevision
<1>2. CASE Dropped
  BY <1>2 DEF Dropped, Abstract!Fresh
<1>3. ASSUME NEW c \in Callers, view[c] # None
      PROVE  /\ Known(view[c]) /\ view[c].revision[1] \in Nat /\ view[c].revision[2] \in Nat
  BY <1>t, <1>3 DEF IInv, Models
<1>4. CASE Rewritten
  <2>1. stored # None /\ stored' # None /\ stored \in Objects /\ stored' \in Objects
    BY <1>4, NoneAssumption DEF Rewritten
  <2>2. CASE stored'.generation = stored.generation + 1
    <3>1. ASSUME NEW c \in Callers, view[c] # None
          PROVE  view[c].revision # UpdateModel(stored').revision
      <4>1. stored.generation \in Nat /\ stored'.uid = stored.uid
        BY <1>4, <2>1 DEF Rewritten, Objects
      <4>2. /\ UpdateModel(stored').revision[1] = stored'.uid
            /\ UpdateModel(stored').revision[2] = stored'.generation
        BY <2>1, ModelType
      <4>3. CASE view[c].revision[1] = stored.uid
        <5>1. view[c].revision[2] <= stored.generation
          BY <1>3, <2>1, <3>1, <4>3 DEF Known
        <5>2. view[c].revision[2] # stored'.generation
          BY <1>3, <2>2, <3>1, <4>1, <5>1
        <5> QED BY <4>2, <5>2
      <4>4. CASE view[c].revision[1] # stored.uid
        BY <4>1, <4>2, <4>4
      <4> QED BY <4>3, <4>4
    <3> QED BY <2>1, <3>1 DEF Abstract!Fresh
  <2>3. CASE UpdateModel(stored') = UpdateModel(stored)
    BY <2>1, <2>3 DEF Abstract!Fresh
  <2> QED BY <1>4, <2>2, <2>3 DEF Rewritten
<1>5. CASE Inserted
  <2>1. stored' # None /\ stored' \in Objects /\ stored'.uid = uids + 1
    BY <1>5, NoneAssumption DEF Inserted
  <2>2. ASSUME NEW c \in Callers, view[c] # None
        PROVE  view[c].revision # UpdateModel(stored').revision
    <3>1. view[c].revision[1] <= uids
      BY <1>3, <2>2 DEF Known
    <3>2. view[c].revision[1] # UpdateModel(stored').revision[1]
      BY <1>t, <1>3, <2>1, <2>2, <3>1, ModelType
    <3> QED BY <3>2
  <2> QED BY <2>1, <2>2 DEF Abstract!Fresh
<1> QED BY <1>1, <1>2, <1>4, <1>5 DEF Advance

LEMMA ChangeStep ==
  ASSUME IInv, Advance, UNCHANGED view, Pending' = Pending, LastAnswer' \in {LastAnswer, "none"}
  PROVE  Abstract!Next
<1>1. Abstract!Fresh
  BY AdvanceFresh
<1>2. Abstract!Change
  BY <1>1 DEF Abstract!Change, Pending
<1> QED BY <1>2 DEF Abstract!Next

LEMMA RefuseStep ==
  ASSUME NEW c \in Callers, UNCHANGED <<stored, view>>, Pending' = Pending \ {c},
         LastAnswer' \in {"refused", "doubt"}
  PROVE  Abstract!Next
<1>1. Cell' = Cell
  BY DEF Cell, UpdateModel, CalculateRevision
<1>2. Abstract!Refuse(c)
  BY <1>1 DEF Abstract!Refuse, Pending, Cell
<1> QED BY <1>2 DEF Abstract!Next

LEMMA OtherAnswer ==
  ASSUME NEW c \in Callers, NEW code \in Nat, Answer(c, "other", code)
  PROVE  LastAnswer' = "none"
  BY DEF Answer, LastAnswer

LEMMA UpdateAnswer ==
  ASSUME Revisioned, type' = type, NEW c \in Callers, NEW code \in Nat, Answer(c, "update", code)
  PROVE  /\ code = 200 => LastAnswer' = "done"
         /\ code = 500 => LastAnswer' = "doubt"
         /\ code # 200 => LastAnswer' \in {"refused", "doubt"}
<1>1. Revisioned' /\ reply'.op = "update" /\ reply'.code = code
  BY DEF Answer, Revisioned
<1> QED BY <1>1 DEF LastAnswer

LEMMA SameAnswer ==
  ASSUME UNCHANGED <<type, reply>>
  PROVE  LastAnswer' = LastAnswer
  BY DEF LastAnswer, Revisioned

LEMMA SamePending ==
  ASSUME UNCHANGED <<type, call>>
  PROVE  Pending' = Pending
  BY DEF Pending, Revisioned

(* A resource without revisions is one that callers never see: only the      *)
(* stored object changes.                                                    *)
LEMMA UnrevisionedStep ==
  ASSUME IInv, [Next]_vars, ~Revisioned
  PROVE  Abstract!Next
<1>1. Moves /\ Advance /\ type' = type
  BY NextMoves DEF Moves
<1>2. TypeOK /\ TypeOK'
  BY <1>1, TypeStep DEF IInv
<1>3. ~Revisioned'
  BY <1>1 DEF Revisioned
<1>4. view' = view
  <2>1. \A c \in Callers : view[c] = None /\ view'[c] = None
    BY <1>2, <1>3 DEF TypeOK
  <2>2. view \in [Callers -> Models \cup {None}] /\ view' \in [Callers -> Models \cup {None}]
    BY <1>2 DEF TypeOK
  <2> QED BY <2>1, <2>2
<1>5. Pending' = Pending
  BY <1>3 DEF Pending
<1>6. LastAnswer' = "none"
  BY <1>3 DEF LastAnswer
<1> QED BY <1>1, <1>4, <1>5, <1>6, ChangeStep

LEMMA GetStep ==
  ASSUME IInv, NEW c \in Callers, NEW r \in Replicas, Get(c, r), IInv'
  PROVE  Abstract!Next
<1>1. call[c] = Idle /\ UNCHANGED <<type, stored, call>> /\ view \in [Callers -> Models \cup {None}]
  BY DEF Get, IInv, TypeOK
<1>2. LastAnswer' = "none"
  BY OtherAnswer DEF Get
<1>3. view' = [view EXCEPT ![c] = view'[c]]
  BY <1>1 DEF Get
<1>4. Pending' = Pending /\ c \notin Pending
  BY <1>1, SamePending DEF Pending
<1>5. Cell' = Cell
  BY <1>1 DEF Cell, UpdateModel, CalculateRevision
<1>6. Cell # None /\ view'[c] # None /\ view'[c].revision = Cell.revision => view'[c] = Cell
  <2> SUFFICES ASSUME Cell # None, view'[c] # None, view'[c].revision = Cell.revision
               PROVE  view'[c] = Cell
    OBVIOUS
  <2>1. stored # None /\ stored' # None /\ Cell = UpdateModel(stored) /\ stored' = stored
    BY <1>1 DEF Cell
  <2>2. stored' \in Objects
    BY <2>1 DEF IInv, TypeOK
  <2>3. UpdateModel(stored').revision[1] = stored'.uid /\ UpdateModel(stored').revision[2] = stored'.generation
    BY <2>2, ModelType
  <2>4. Known(view[c])'
    BY DEF IInv
  <2> QED BY <2>1, <2>3, <2>4 DEF Known
<1>7. Abstract!Look(c)
  BY <1>2, <1>3, <1>4, <1>5, <1>6 DEF Abstract!Look, Cell, Pending
<1> QED BY <1>7 DEF Abstract!Next

LEMMA UpdateReadStep ==
  ASSUME IInv, Revisioned, NEW c \in Callers, NEW r \in Replicas, NEW w \in Requests,
         UpdateRead(c, r, w)
  PROVE  Abstract!Next
<1>1. call[c] = Idle /\ UNCHANGED <<type, stored, view>> /\ call \in [Callers -> Calls]
  BY CallType DEF UpdateRead, IInv
<1>2. c \notin Pending
  BY <1>1 DEF Pending
<1>3. CASE /\ UNCHANGED reply
           /\ call' = [call EXCEPT ![c] = [op |-> "update", read |-> Read(r), want |-> w]]
  <2>1. [op |-> "update", read |-> Read(r), want |-> w] # Idle
    BY DEF Idle
  <2>2. call'[c] # Idle /\ \A d \in Callers : d # c => call'[d] = call[d]
    BY <1>1, <1>3, <2>1
  <2>3. Pending' = Pending \cup {c}
    BY <1>1, <2>2 DEF Pending, Revisioned
  <2>4. Cell' = Cell /\ LastAnswer' = LastAnswer
    BY <1>1, <1>3, SameAnswer DEF Cell, UpdateModel, CalculateRevision
  <2>5. Abstract!Begin(c)
    BY <1>1, <1>2, <2>3, <2>4 DEF Abstract!Begin, Cell, Pending
  <2> QED BY <2>5 DEF Abstract!Next
<1>4. CASE UNCHANGED call /\ \E e : e # "ok" /\ Answer(c, "update", UpdateCode(e))
  <2>1. LastAnswer' \in {"refused", "doubt"}
    BY <1>1, <1>4, Codes, UpdateAnswer
  <2>2. Pending' = Pending \ {c}
    BY <1>1, <1>2, <1>4, SamePending
  <2> QED BY <1>1, <2>1, <2>2, RefuseStep
<1> QED BY <1>3, <1>4 DEF UpdateRead

LEMMA UpdateWriteStep ==
  ASSUME IInv, Revisioned, NEW c \in Callers, UpdateWrite(c)
  PROVE  Abstract!Next
<1>1. /\ TypeOK /\ call[c].op = "update" /\ call' = [call EXCEPT ![c] = Idle] /\ type' = type
      /\ call \in [Callers -> Calls]
  BY CallType DEF IInv, UpdateWrite
<1>2. call[c] # Idle /\ c \in Pending
  BY <1>1, UpdateCall DEF Pending
<1>3. Pending' = Pending \ {c}
  <2>1. call'[c] = Idle /\ \A d \in Callers : d # c => call'[d] = call[d]
    BY <1>1
  <2> QED BY <1>1, <2>1 DEF Pending, Revisioned
<1>4. CASE /\ stored # None /\ stored.resourceVersion = call[c].read.resourceVersion
           /\ Write(Apply(call[c].read, call[c].want))
           /\ \/ /\ Answer(c, "update", UpdateCode("ok"))
                 /\ view' = [view EXCEPT ![c] = UpdateModel(stored')]
              \/ /\ Answer(c, "update", UpdateCode("Error"))
                 /\ UNCHANGED view
  <2>1. call[c].read = stored /\ call[c].want \in Requests
    BY <1>1, <1>4, ReadIsStored, UpdateCall
  <2>2. view[c] # None /\ view[c].revision = CalculateRevision(stored)
    BY <1>1, <2>1 DEF IInv
  <2>3. Cell # None /\ view[c] = Cell
    BY <1>4, <2>2, SeenContent DEF Cell
  <2>4. stored' \in Objects
    <3>1. stored \in Objects /\ version \in Nat
      BY <1>1, <1>4 DEF TypeOK
    <3>2. Apply(stored, call[c].want) \in Objects /\ Apply(stored, call[c].want).uid = stored.uid
      BY <2>1, <3>1, ApplyType
    <3>3. Write(Apply(stored, call[c].want))
      BY <1>4, <2>1
    <3> QED BY <3>1, <3>2, <3>3, WriteRewrites DEF Rewritten
  <2>5. Cell' = UpdateModel(stored') /\ Cell' # None
    BY <2>4, ModelType, NoneAssumption DEF Cell, UpdateModel, CalculateRevision
  <2>6. Abstract!Fresh
    BY UpdateAdvances, AdvanceFresh
  <2>7. \/ LastAnswer' = "done" /\ view' = [view EXCEPT ![c] = Cell']
        \/ LastAnswer' = "doubt" /\ UNCHANGED view
    BY <1>1, <1>4, <2>5, Codes, UpdateAnswer
  <2>8. Abstract!Edit(c)
    BY <1>2, <1>3, <2>3, <2>5, <2>6, <2>7 DEF Abstract!Edit, Cell, Pending
  <2> QED BY <2>8 DEF Abstract!Next
<1>5. CASE /\ \E e : e # "ok" /\ Answer(c, "update", UpdateCode(e))
           /\ UNCHANGED <<stored, view>>
  <2>1. LastAnswer' \in {"refused", "doubt"}
    BY <1>1, <1>5, Codes, UpdateAnswer
  <2> QED BY <1>3, <1>5, <2>1, RefuseStep
<1> QED BY <1>4, <1>5 DEF UpdateWrite

(* The other requests of a caller that has no update under way.              *)
LEMMA OtherRequestStep ==
  ASSUME IInv, Advance, UNCHANGED <<type, view, call>>, NEW c \in Callers, NEW code \in Nat,
         Answer(c, "other", code)
  PROVE  Abstract!Next
  BY ChangeStep, SamePending, OtherAnswer

LEMMA RejectStep ==
  ASSUME IInv, Revisioned, NEW c \in Callers, NEW op \in {"update", "other"}, Reject(c, op)
  PROVE  Abstract!Next
<1>1. /\ call[c] = Idle /\ Answer(c, op, 400)
      /\ UNCHANGED <<type, stored, version, uids, view, call>>
  BY DEF Reject
<1>2. Pending' = Pending /\ c \notin Pending
  BY <1>1, SamePending DEF Pending
<1>3. CASE op = "update"
  <2>1. LastAnswer' \in {"refused", "doubt"}
    BY <1>1, <1>3, UpdateAnswer
  <2> QED BY <1>1, <1>2, <2>1, RefuseStep
<1>4. CASE op = "other"
  BY <1>1, <1>4, OtherRequestStep DEF Advance, Kept
<1> QED BY <1>3, <1>4

LEMMA RevisionedStep ==
  ASSUME IInv, [Next]_vars, Revisioned
  PROVE  Abstract!Next \/ UNCHANGED Abstract!vars
<1>1. Advance /\ IInv' /\ TypeOK /\ ~Labelled
  BY NextMoves, StepIInv DEF Moves, IInv, Revisioned, Labelled
<1>2. ASSUME NEW c \in Callers, NEW op \in {"update", "other"}, Reject(c, op)
      PROVE  Abstract!Next
  BY <1>2, RejectStep
<1>3. ASSUME NEW c \in Callers, NEW r \in Replicas, Get(c, r)
      PROVE  Abstract!Next
  BY <1>1, <1>3, GetStep
<1>4. ASSUME NEW c \in Callers, NEW r \in Replicas, NEW w \in Requests, UpdateRead(c, r, w)
      PROVE  Abstract!Next
  BY <1>4, UpdateReadStep
<1>5. ASSUME NEW c \in Callers, NEW w \in Requests, NEW rest \in Rests, Create(c, w, rest)
      PROVE  Abstract!Next
  <2>1. UNCHANGED <<type, view, call>> /\ \E e : Answer(c, "other", CreateCode(e))
    BY <1>5 DEF Create
  <2> QED BY <1>1, <2>1, Codes, OtherRequestStep
<1>6. ASSUME NEW c \in Callers, NEW target \in BOOLEAN, HandlePauseAction(c, target)
      PROVE  Abstract!Next
  <2>1. UNCHANGED <<type, view, call>> /\ \E e : Answer(c, "other", PauseActionWorkspaceHandler(e))
    BY <1>6 DEF HandlePauseAction
  <2> QED BY <1>1, <2>1, Codes, OtherRequestStep
<1>7. ASSUME NEW c \in Callers, UpdateWrite(c)
      PROVE  Abstract!Next
  BY <1>7, UpdateWriteStep
<1>8. ASSUME NEW c \in Callers, DeleteWrite(c)
      PROVE  Abstract!Next
  <2>1. /\ UNCHANGED <<type, view>> /\ \E e : Answer(c, "other", DeleteCode(e))
        /\ call[c] = Idle /\ call' = [call EXCEPT ![c] = Idle]
    BY <1>1, <1>8 DEF DeleteWrite
  <2>2. call' = call
    BY <1>1, <2>1 DEF TypeOK
  <2> QED BY <1>1, <2>1, <2>2, Codes, OtherRequestStep
<1>9. CASE Other
  <2>1. UNCHANGED <<type, view, call, reply>>
    BY <1>9 DEF Other, OtherSpec, OtherMeta, OtherCreate, OtherDelete
  <2> QED BY <1>1, <2>1, SamePending, SameAnswer, ChangeStep
<1>10. CASE (\E r \in Replicas : Deliver(r)) \/ UNCHANGED vars
  <2>1. UNCHANGED <<type, stored, view, call, reply>>
    BY <1>10 DEF Deliver, vars
  <2>2. Cell' = Cell /\ Pending' = Pending /\ LastAnswer' = LastAnswer
    BY <2>1, SamePending, SameAnswer DEF Cell, UpdateModel, CalculateRevision
  <2> QED BY <2>1, <2>2 DEF Abstract!vars, Cell, Pending
<1>11. ASSUME NEW c \in Callers, NEW r \in Replicas
       PROVE  ~DeleteRead(c, r)
  BY <1>1 DEF DeleteRead
<1> QED BY <1>2, <1>3, <1>4, <1>5, <1>6, <1>7, <1>8, <1>9, <1>10, <1>11 DEF Next

(* The write path implements the compare-and-set that its callers rely on.   *)
THEOREM Implements == Spec => CompareAndSet
<1>1. Init => Abstract!Init
  <2> SUFFICES ASSUME Init PROVE Abstract!Init
    OBVIOUS
  <2>1. Pending = {}
    BY DEF Init, Pending
  <2>2. LastAnswer = "none"
    BY DEF Init, NoReply, LastAnswer
  <2> QED BY <2>1, <2>2 DEF Init, Abstract!Init, Pending
<1>2. IInv /\ [Next]_vars => [Abstract!Next]_(Abstract!vars)
  BY UnrevisionedStep, RevisionedStep
<1> QED BY <1>1, <1>2, Invariance, PTL DEF Spec, CompareAndSet, Abstract!Spec
=============================================================================
