--------------------------- MODULE CullingProofs ---------------------------
(***************************************************************************)
(* Proofs about Culling, for every value of its constants: type            *)
(* correctness, and that a pause never overrules a user's newer spec.      *)
(***************************************************************************)
EXTENDS Culling, TLAPS

-----------------------------------------------------------------------------
(* Type correctness, in the parts that the actions write. *)

Clock == now \in 1..MaxTime
WsOK == ws \in WsType /\ cache \in WsType /\ stream \in Seq(WsType)
PodOK ==
  /\ replicas \in 0..1
  /\ pod \in [phase : {"none", "pending", "running", "terminating"}, since : Times]
  /\ use \in 0..now
PassOK == pc \in {"idle", "status", "probe", "write", "patch"} /\ loc \in LocType
QueueOK == queue \in BOOLEAN /\ timer \in Nat
RestOK ==
  /\ tls \in BOOLEAN
  /\ probed \in [at : 0..now, since : 0..now]
  /\ used \in [edits : Nat, crashes : Nat, aborts : Nat, tls : Nat]

\* The type invariant is the conjunction of its parts, now and in the next state.
LEMMA TypeParts ==
  /\ TypeOK <=> (Clock /\ WsOK /\ PodOK /\ PassOK /\ QueueOK /\ RestOK)
  /\ TypeOK' <=> (Clock /\ WsOK /\ PodOK /\ PassOK /\ QueueOK /\ RestOK)'
  BY DEF TypeOK, Clock, WsOK, PodOK, PassOK, QueueOK, RestOK

\* While the clock stands still the types do, too.
LEMMA SameTypes ==
  ASSUME now' = now
  PROVE  /\ WsType' = WsType /\ LocType' = LocType /\ Times' = Times
         /\ Clock => Clock'
  BY DEF WsType, LocType, ActType, Times, Clock

\* A part that is not written stays well typed.
LEMMA Leave ==
  ASSUME now' = now
  PROVE  /\ WsOK /\ UNCHANGED wsVars => WsOK'
         /\ PodOK /\ UNCHANGED podVars => PodOK'
         /\ PassOK /\ UNCHANGED <<pc, loc>> => PassOK'
         /\ QueueOK /\ UNCHANGED <<queue, timer>> => QueueOK'
         /\ RestOK /\ UNCHANGED <<tls, used, probed>> => RestOK'
<1>1. WsOK /\ UNCHANGED wsVars => WsOK'
  BY SameTypes DEF WsOK, wsVars
<1>2. PodOK /\ UNCHANGED podVars => PodOK'
  BY SameTypes DEF PodOK, podVars
<1>3. PassOK /\ UNCHANGED <<pc, loc>> => PassOK'
  BY SameTypes DEF PassOK
<1>4. QueueOK /\ UNCHANGED <<queue, timer>> => QueueOK'
  BY DEF QueueOK
<1>5. RestOK /\ UNCHANGED <<tls, used, probed>> => RestOK'
  BY DEF RestOK
<1> QED BY <1>1, <1>2, <1>3, <1>4, <1>5

\* The new Workspace and the empty local variables are well typed.
LEMMA NoneType ==
  ASSUME Clock
  PROVE  NoActivity \in ActType /\ NewWs \in WsType /\ NoLoc \in LocType
<1>1. 0 \in Times
  BY CullingAssumption DEF Clock, Times
<1>2. NoActivity \in ActType
  BY <1>1 DEF NoActivity, ActType
<1>3. NewWs \in WsType
  BY <1>1, <1>2 DEF NewWs, WsType
<1>4. NoLoc \in LocType
  BY <1>1, <1>3, CullingAssumption DEF NoLoc, LocType
<1> QED BY <1>2, <1>3, <1>4

\* A write of the Workspace keeps what is known of it well typed.
LEMMA StoreWsType ==
  ASSUME WsOK, now' = now, NEW w \in WsType, StoreWs(w)
  PROVE  WsOK'
  BY SameTypes DEF WsOK, StoreWs

\* A new version of the status or of the spec is well typed.
LEMMA BumpedType ==
  ASSUME NEW w \in WsType, NEW p \in BOOLEAN
  PROVE  /\ [w EXCEPT !.rv = @ + 1] \in WsType
         /\ [w EXCEPT !.rv = @ + 1, !.gen = @ + 1, !.paused = p] \in WsType
<1> DEFINE r == w.rv + 1
           g == w.gen + 1
<1>1. r \in Nat /\ g \in Nat
  BY DEF WsType
<1>2. /\ [w EXCEPT !.rv = @ + 1] = [w EXCEPT !.rv = r]
      /\ [w EXCEPT !.rv = @ + 1, !.gen = @ + 1, !.paused = p] =
           [w EXCEPT !.rv = r, !.gen = g, !.paused = p]
  BY DEF WsType
<1> HIDE DEF r, g
<1>3. [w EXCEPT !.rv = r] \in WsType
  BY <1>1 DEF WsType
<1>4. [w EXCEPT !.rv = r, !.gen = g, !.paused = p] \in WsType
  BY <1>1 DEF WsType
<1> QED BY <1>2, <1>3, <1>4

\* Ending a pass, at once or later, keeps pass and queue well typed.
LEMMA RequeueType ==
  ASSUME Clock, QueueOK, now' = now
  PROVE  /\ Requeue => QueueOK'
         /\ \A d \in Nat : RequeueAfter(d) => QueueOK'
<1>1. Requeue => QueueOK'
  BY DEF QueueOK, Requeue
<1>2. ASSUME NEW d \in Nat, RequeueAfter(d) PROVE QueueOK'
  <2>1. now + d \in Nat
    BY CullingAssumption DEF Clock
  <2>2. timer' \in Nat
    BY <1>2, <2>1 DEF RequeueAfter, QueueOK
  <2> QED BY <1>2, <2>2 DEF RequeueAfter, QueueOK
<1> QED BY <1>1, <1>2

\* The delay until the next probe is at most the interval.
LEMMA DueType ==
  ASSUME Clock, NEW act \in ActType
  PROVE  TimeUntilProbeDue(act) \in 0..Interval
  BY CullingAssumption DEF Clock, ActType, Times, TimeUntilProbeDue

\* The transition into Running writes well-typed timestamps.
LEMMA RecordType ==
  ASSUME Clock, NEW w \in WsType,
         NEW s \in {"Unknown", "Paused", "Terminating", "Running", "Pending", "Error"}
  PROVE  RecordRunningTransition(w, s) \in WsType
<1>1. now \in Times
  BY CullingAssumption DEF Clock, Times
<1>2. [w EXCEPT !.state = s] \in WsType
  BY DEF WsType
<1>3. [w EXCEPT !.state = s, !.ran = now, !.act = NoActivity] \in WsType
  BY <1>1, NoneType DEF WsType
<1> QED BY <1>2, <1>3 DEF RecordRunningTransition

\* Waiting, the pass up to the StatefulSet and the look at the Pod.
LEMMA BeginType ==
  ASSUME TypeOK, Deliver \/ Fire \/ Start
  PROVE  TypeOK'
<1> USE TypeParts
<1>1. CASE Deliver
  <2>1. now' = now
    BY <1>1 DEF Deliver
  <2>2. Head(stream) \in WsType /\ Tail(stream) \in Seq(WsType)
    BY <1>1 DEF Deliver, WsOK
  <2>3. WsOK'
    BY <1>1, <2>1, <2>2, SameTypes DEF Deliver, WsOK
  <2>4. QueueOK'
    BY <1>1 DEF Deliver, QueueOK
  <2> QED BY <1>1, <2>1, <2>3, <2>4, SameTypes, Leave DEF Deliver
<1>2. CASE Fire
  <2>1. now' = now
    BY <1>2 DEF Fire
  <2>2. QueueOK'
    BY <1>2 DEF Fire, QueueOK
  <2> QED BY <1>2, <2>1, <2>2, SameTypes, Leave DEF Fire
<1>3. CASE Start
  <2>1. now' = now
    BY <1>3 DEF Start
  <2>2. [NoLoc EXCEPT !.ws = cache, !.orig = cache, !.tls = tls] \in LocType
    BY NoneType DEF LocType, WsOK, RestOK
  <2>3. PassOK' /\ PodOK'
    BY <1>3, <2>1, <2>2, SameTypes DEF Start, PassOK, PodOK
  <2>4. QueueOK'
    BY <1>3 DEF Start, QueueOK
  <2> QED BY <1>3, <2>1, <2>3, <2>4, SameTypes, Leave DEF Start
<1> QED BY <1>1, <1>2, <1>3

\* generateWorkspaceStatus and the look at the probe's schedule.
LEMMA ExamineType ==
  ASSUME TypeOK, Examine
  PROVE  TypeOK'
<1> USE TypeParts
<1>1. now' = now
  BY DEF Examine
<1> DEFINE s == StateOf(pod.phase, loc.ws.paused)
           w == RecordRunningTransition(loc.ws, s)
           d == TimeUntilProbeDue(w.act)
<1>2. s \in {"Unknown", "Paused", "Terminating", "Running", "Pending", "Error"}
  BY DEF StateOf
<1>3. loc.ws \in WsType
  BY DEF PassOK, LocType
<1>4. w \in WsType
  BY <1>2, <1>3, RecordType
<1>5. d \in 0..Interval
  BY <1>4, DueType DEF WsType
<1>6. /\ pc' \in {"write", "probe"}
      /\ \/ probed' = probed
         \/ probed' = [at |-> now, since |-> pod.since]
      /\ \/ loc' = [loc EXCEPT !.ws = w, !.after = IF s = "Pending" THEN 1 ELSE 0]
         \/ loc' = [loc EXCEPT !.ws = w, !.after = d]
         \/ loc' = [loc EXCEPT !.ws = w, !.start = now]
  BY DEF Examine
<1> HIDE DEF s, w, d
<1>7. loc' \in LocType
  <2>1. now \in Times /\ {0, 1} \subseteq 0..Interval
    BY CullingAssumption DEF Clock, Times
  <2> QED BY <1>4, <1>5, <1>6, <2>1 DEF PassOK, LocType
<1>8. RestOK'
  BY <1>1, <1>6, CullingAssumption DEF Examine, RestOK, PodOK, Clock, Times
<1>9. PassOK'
  BY <1>1, <1>6, <1>7, SameTypes DEF PassOK
<1> QED BY <1>1, <1>8, <1>9, SameTypes, Leave DEF Examine

\* A probe's result, good or bad, is a well-typed record of the activity.
LEMMA ProbeType ==
  ASSUME TypeOK, ProbeSucceeds \/ ProbeFailed
  PROVE  TypeOK'
<1> USE TypeParts
<1>1. now' = now
  BY DEF ProbeSucceeds, ProbeFailed
<1>2. loc.ws \in WsType /\ loc.ws.act \in ActType /\ loc.start \in Times
  BY DEF PassOK, LocType, WsType
<1>3. MinInterval \in 0..Interval /\ Interval \in 0..Interval
  BY CullingAssumption
<1>4. CASE ProbeSucceeds
  <2>1. Observed \in Times
    <3>1. use \in Times /\ pod.since \in Times /\ now \in Times /\ 0 \in Times
      BY CullingAssumption DEF PodOK, Clock, Times
    <3> QED BY <3>1 DEF Observed, Later
  <2>2. ActivityOf(loc.ws) \in Times
    BY <1>2, <2>1 DEF ActivityOf, WsType, ActType
  <2> DEFINE act == [last |-> ActivityOf(loc.ws), probe |-> loc.start, ok |-> TRUE]
             w == [loc.ws EXCEPT !.act = act]
  <2>3. act \in ActType
    BY <1>2, <2>2 DEF ActType
  <2>4. w \in WsType
    BY <1>2, <2>3 DEF WsType
  <2>5. Eligible(w, loc.start) \in BOOLEAN
    BY DEF Eligible
  <2>6. loc' = [loc EXCEPT !.ws = w, !.pause = Eligible(w, loc.start), !.after = Interval]
    BY <1>4 DEF ProbeSucceeds
  <2> HIDE DEF w
  <2>7. PassOK'
    BY <1>1, <1>3, <1>4, <2>4, <2>5, <2>6, SameTypes DEF ProbeSucceeds, PassOK, LocType
  <2> QED BY <1>1, <1>4, <2>7, SameTypes, Leave DEF ProbeSucceeds
<1>5. CASE ProbeFailed
  <2> DEFINE act == [loc.ws.act EXCEPT !.probe = loc.start, !.ok = FALSE]
             w == [loc.ws EXCEPT !.act = act]
  <2>1. act \in ActType
    BY <1>2 DEF ActType
  <2>2. w \in WsType
    BY <1>2, <2>1 DEF WsType
  <2>3. loc' = [loc EXCEPT !.ws = w, !.after = MinInterval]
    BY <1>5 DEF ProbeFailed, PassOK, LocType
  <2> HIDE DEF w
  <2>4. PassOK'
    BY <1>1, <1>3, <1>5, <2>2, <2>3, SameTypes DEF ProbeFailed, PassOK, LocType
  <2> QED BY <1>1, <1>5, <2>4, SameTypes, Leave DEF ProbeFailed
<1> QED BY <1>4, <1>5

\* What follows the status update keeps pass and queue well typed.
LEMMA ProceedType ==
  ASSUME Clock, PassOK, QueueOK, now' = now, NEW w \in WsType, Proceed(w)
  PROVE  PassOK' /\ QueueOK'
<1>1. CASE loc.pause
  <2>1. PassOK'
    BY <1>1, SameTypes DEF Proceed, PassOK, LocType
  <2> QED BY <1>1, <2>1, Leave DEF Proceed
<1>2. CASE ~loc.pause
  <2>1. PassOK'
    BY <1>2, SameTypes, NoneType DEF Proceed, PassOK
  <2>2. loc.after \in Nat
    BY CullingAssumption DEF PassOK, LocType
  <2>3. QueueOK'
    BY <1>2, <2>2, RequeueType DEF Proceed
  <2> QED BY <2>1, <2>3
<1> QED BY <1>1, <1>2

\* The status update and the pause.
LEMMA WriteType ==
  ASSUME TypeOK, WriteStatus \/ Patch
  PROVE  TypeOK'
<1> USE TypeParts
<1>1. now' = now
  BY DEF WriteStatus, Patch
<1>2. CASE WriteStatus
  <2>1. Surfaced \in WsType /\ [Surfaced EXCEPT !.rv = @ + 1] \in WsType
    <3>1. loc.ws \in WsType /\ Surfaced \in WsType
      BY DEF Surfaced, PassOK, LocType, WsType
    <3> QED BY <3>1, BumpedType
  <2>2. WsOK' /\ PassOK' /\ QueueOK'
    <3>1. CASE ~StatusChanged /\ UNCHANGED wsVars /\ Proceed(Surfaced)
      BY <1>1, <2>1, <3>1, ProceedType, Leave
    <3>2. CASE StoreWs([Surfaced EXCEPT !.rv = @ + 1]) /\ Proceed(ws')
      <4>1. WsOK'
        BY <1>1, <2>1, <3>2, StoreWsType
      <4>2. ws' \in WsType
        BY <2>1, <3>2 DEF StoreWs
      <4> QED BY <1>1, <3>2, <4>1, <4>2, ProceedType
    <3>3. CASE pc' = "idle" /\ loc' = NoLoc /\ Requeue /\ UNCHANGED wsVars
      <4>1. PassOK'
        BY <1>1, <3>3, NoneType, SameTypes DEF PassOK
      <4> QED BY <1>1, <3>3, <4>1, RequeueType, Leave
    <3> QED BY <1>2, <3>1, <3>2, <3>3 DEF WriteStatus
  <2> QED BY <1>1, <1>2, <2>2, SameTypes, Leave DEF WriteStatus
<1>3. CASE Patch
  <2>1. [ws EXCEPT !.rv = @ + 1, !.gen = @ + 1, !.paused = TRUE] \in WsType
    BY BumpedType DEF WsOK
  <2>2. WsOK'
    BY <1>1, <1>3, <2>1, StoreWsType, Leave DEF Patch
  <2>3. PassOK'
    BY <1>1, <1>3, NoneType, SameTypes DEF Patch, PassOK
  <2>4. QueueOK'
    BY <1>1, <1>3, RequeueType, Leave DEF Patch
  <2> QED BY <1>1, <1>3, <2>2, <2>3, <2>4, SameTypes, Leave DEF Patch
<1> QED BY <1>2, <1>3

\* A write of spec.paused by a user, through the backend or directly.
LEMMA SetPausedType ==
  ASSUME TypeOK, HandlePauseAction \/ Edit
  PROVE  TypeOK'
<1> USE TypeParts
<1>1. PICK p \in BOOLEAN : SetPaused(p)
  BY DEF HandlePauseAction, Edit
<1>2. now' = now
  BY <1>1 DEF SetPaused
<1>3. WsOK'
  BY <1>1, <1>2, BumpedType, StoreWsType DEF SetPaused, WsOK
<1>4. RestOK'
  BY <1>1, <1>2 DEF SetPaused, RestOK
<1> QED BY <1>1, <1>2, <1>3, <1>4, SameTypes, Leave DEF SetPaused

\* Use, the Pod's life and the TLS profile.
LEMMA PodType ==
  ASSUME TypeOK, Use \/ PodStep \/ Crash \/ ChangeTLS
  PROVE  TypeOK'
<1> USE TypeParts
<1>1. now' = now /\ now \in Times
  BY CullingAssumption DEF Use, PodStep, Crash, ChangeTLS, Clock, Times
<1>2. PodOK'
  BY <1>1, SameTypes DEF Use, PodStep, Crash, ChangeTLS, PodOK, podVars, Times
<1>3. QueueOK'
  BY DEF Use, PodStep, Crash, ChangeTLS, QueueOK
<1>4. RestOK'
  <2>1. CASE Use \/ PodStep
    BY <1>1, <2>1, Leave DEF Use, PodStep
  <2>2. CASE Crash
    BY <1>1, <2>2 DEF Crash, RestOK
  <2>3. CASE ChangeTLS
    BY <1>1, <2>3 DEF ChangeTLS, RestOK
  <2> QED BY <2>1, <2>2, <2>3
<1> QED BY <1>1, <1>2, <1>3, <1>4, SameTypes, Leave
           DEF Use, PodStep, Crash, ChangeTLS

\* A pass that is cut short, and a restart of the controller.
LEMMA FailureType ==
  ASSUME TypeOK, Abort \/ Restart
  PROVE  TypeOK'
<1> USE TypeParts
<1>1. now' = now
  BY DEF Abort, Restart
<1>2. PassOK'
  <2>1. pc' = "idle" /\ loc' = NoLoc
    BY DEF Abort, Restart
  <2> QED BY <1>1, <2>1, NoneType, SameTypes DEF PassOK
<1>3. WsOK'
  <2>1. CASE Abort
    BY <1>1, <2>1, Leave DEF Abort
  <2>2. CASE Restart
    BY <1>1, <2>2, SameTypes DEF Restart, WsOK
  <2> QED BY <2>1, <2>2
<1>4. QueueOK'
  <2>1. CASE Abort
    BY <1>1, <2>1, RequeueType DEF Abort
  <2>2. CASE Restart
    BY <2>2 DEF Restart, QueueOK
  <2> QED BY <2>1, <2>2
<1>5. RestOK'
  <2>1. used' = [used EXCEPT !.aborts = @ + 1] /\ UNCHANGED <<tls, probed>>
    BY DEF Abort, Restart
  <2> QED BY <1>1, <2>1 DEF RestOK
<1> QED BY <1>1, <1>2, <1>3, <1>4, <1>5, SameTypes, Leave DEF Abort, Restart

\* The clock: a timestamp that is not in the future stays so.
LEMMA TickType ==
  ASSUME TypeOK, Tick
  PROVE  TypeOK'
<1> USE TypeParts
<1>1. now' = now + 1 /\ Clock'
  BY CullingAssumption DEF Tick, Clock
<1>2. Times \subseteq Times'
  BY <1>1 DEF Times, Clock
<1>3. ActType \subseteq ActType'
  BY <1>2 DEF ActType
<1>4. WsType \subseteq WsType'
  BY <1>2, <1>3 DEF WsType
<1>5. LocType \subseteq LocType'
  BY <1>2, <1>4 DEF LocType
<1>6. WsOK'
  <2>1. \A s \in Seq(WsType) : s \in Seq(WsType')
    BY <1>4
  <2> QED BY <1>4, <2>1 DEF Tick, WsOK, wsVars
<1>7. PodOK'
  BY <1>1, <1>2 DEF Tick, PodOK, podVars, Times
<1>8. PassOK'
  BY <1>5 DEF Tick, PassOK
<1>9. QueueOK'
  BY DEF Tick, QueueOK
<1>10. RestOK'
  BY <1>1, <1>2 DEF Tick, RestOK, Times
<1> QED BY <1>1, <1>6, <1>7, <1>8, <1>9, <1>10

(* Type correctness: whatever the order of passes, users, Pod events, clock  *)
(* and failures, no timestamp of the status lies in the future (Reconcile,   *)
(* reconcileActivity).                                                       *)
THEOREM TypeCorrect == Spec => []TypeOK
<1>1. Init => TypeOK
  <2> SUFFICES ASSUME Init PROVE TypeOK
    OBVIOUS
  <2>1. Clock
    BY CullingAssumption DEF Init, Clock
  <2>2. WsOK /\ PassOK
    BY <2>1, NoneType DEF Init, WsOK, PassOK
  <2>3. PodOK /\ QueueOK /\ RestOK
    <3>1. PodOK
      BY DEF Init, PodOK, Times
    <3>2. QueueOK /\ tls \in BOOLEAN
      BY DEF Init, QueueOK
    <3>3. RestOK
      BY <3>2 DEF Init, RestOK
    <3> QED BY <3>1, <3>2, <3>3
  <2> QED BY <2>1, <2>2, <2>3, TypeParts
<1>2. TypeOK /\ [Next]_vars => TypeOK'
  <2> SUFFICES ASSUME TypeOK, [Next]_vars PROVE TypeOK'
    OBVIOUS
  <2>1. CASE UNCHANGED vars
    BY <2>1, TypeParts, SameTypes, Leave DEF vars, wsVars, podVars
  <2> QED BY <2>1, BeginType, ExamineType, ProbeType, WriteType, SetPausedType,
             PodType, FailureType, TickType DEF Next, Pass, Environment
<1> QED BY <1>1, <1>2, PTL DEF Spec
-----------------------------------------------------------------------------
(* A pause does not overrule a newer spec. *)

\* A version of the Workspace that was the server's, or still is.
Behind(x) == x.rv <= ws.rv /\ (x.rv = ws.rv => x.gen = ws.gen)

\* What the informer holds or is about to hold are such versions.
VersionsInv == Behind(cache) /\ \A i \in 1..Len(stream) : Behind(stream[i])

\* A pass that has not written works on one such version; one that is to pause
\* has written its status, on a version with the spec it began with.
PassInv ==
  /\ pc \in {"status", "probe", "write"} =>
       Behind(loc.orig) /\ loc.ws.rv = loc.orig.rv /\ loc.ws.gen = loc.orig.gen
  /\ pc = "patch" => /\ loc.orig.rv < loc.ws.rv /\ loc.ws.rv <= ws.rv
                     /\ loc.ws.rv = ws.rv => ws.gen = loc.orig.gen
  /\ pc \in {"status", "probe"} => ~loc.pause
  /\ pc = "probe" \/ (pc = "write" /\ loc.pause) => loc.start # 0

PInv == VersionsInv /\ PassInv

\* The versions at hand are records with natural numbers for versions.
LEMMA VersionTypes ==
  ASSUME TypeOK
  PROVE  /\ \A x \in {ws, cache, loc.ws, loc.orig} : x \in WsType
         /\ \A i \in 1..Len(stream) : stream[i] \in WsType
         /\ \A x \in WsType : x.rv \in Nat /\ x.gen \in Nat
<1>1. /\ \A x \in {ws, cache, loc.ws, loc.orig} : x \in WsType
      /\ stream \in Seq(WsType)
  BY DEF TypeOK, LocType
<1>2. \A x \in WsType : x.rv \in Nat /\ x.gen \in Nat
  BY DEF WsType
<1> QED BY <1>1, <1>2

\* A write leaves every version before it behind, and the informer with it.
LEMMA StoreBehind ==
  ASSUME TypeOK, VersionsInv, NEW w \in WsType, w.rv = ws.rv + 1, StoreWs(w)
  PROVE  /\ VersionsInv'
         /\ \A x \in WsType : Behind(x) => Behind(x)' /\ x.rv # ws'.rv
<1>1. ws' = w /\ stream' = Append(stream, w) /\ cache' = cache
  BY DEF StoreWs
<1>2. \A x \in WsType : Behind(x) => Behind(x)' /\ x.rv # ws'.rv
  BY <1>1, VersionTypes DEF Behind
<1>3. Behind(cache)'
  BY <1>1, <1>2, VersionTypes DEF VersionsInv, Behind
<1>4. ASSUME NEW i \in 1..Len(stream') PROVE Behind(stream[i])'
  <2>1. stream \in Seq(WsType)
    BY DEF TypeOK
  <2>2. \/ i = Len(stream) + 1 /\ stream'[i] = w
        \/ i \in 1..Len(stream) /\ stream'[i] = stream[i]
    BY <1>1, <1>4, <2>1
  <2>3. CASE stream'[i] = w
    BY <1>1, <2>3, VersionTypes DEF Behind
  <2>4. CASE i \in 1..Len(stream) /\ stream'[i] = stream[i]
    <3>1. Behind(stream[i]) /\ stream[i] \in WsType
      BY <2>4, VersionTypes DEF VersionsInv
    <3>2. stream[i].rv <= ws'.rv /\ stream[i].rv # ws'.rv
      BY <1>2, <3>1, VersionTypes DEF Behind
    <3> QED BY <2>4, <3>2 DEF Behind
  <2> QED BY <2>2, <2>3, <2>4
<1> QED BY <1>2, <1>3, <1>4 DEF VersionsInv

\* Without a write the informer's versions stay what they are.
LEMMA SameVersions ==
  ASSUME VersionsInv, UNCHANGED wsVars
  PROVE  VersionsInv'
  BY DEF VersionsInv, Behind, wsVars

\* Steps that touch neither the Workspace nor the pass.
LEMMA QuietPInv ==
  ASSUME PInv, UNCHANGED <<wsVars, pc, loc>>
  PROVE  PInv'
<1>1. VersionsInv'
  BY SameVersions DEF PInv
<1>2. PassInv'
  BY DEF PInv, PassInv, Behind, wsVars
<1> QED BY <1>1, <1>2 DEF PInv

\* The informer moves on to the next version.
LEMMA DeliverPInv ==
  ASSUME TypeOK, PInv, Deliver
  PROVE  PInv'
<1>1. stream \in Seq(WsType) /\ stream # <<>>
  BY DEF TypeOK, Deliver
<1>2. /\ cache' = stream[1] /\ 1 \in 1..Len(stream)
      /\ \A i \in 1..Len(stream') : i + 1 \in 1..Len(stream) /\ stream'[i] = stream[i + 1]
  BY <1>1 DEF Deliver
<1>3. ws' = ws
  BY DEF Deliver
<1>4. Behind(cache)'
  BY <1>2, <1>3 DEF PInv, VersionsInv, Behind
<1>5. ASSUME NEW i \in 1..Len(stream') PROVE Behind(stream[i])'
  <2>1. Behind(stream[i + 1]) /\ stream'[i] = stream[i + 1]
    BY <1>2, <1>5 DEF PInv, VersionsInv
  <2> QED BY <1>3, <2>1 DEF Behind
<1>6. PassInv'
  BY DEF PInv, PassInv, Behind, Deliver
<1> QED BY <1>4, <1>5, <1>6 DEF PInv, VersionsInv

\* A pass begins on the cached version, and looks at the Pod.
LEMMA BeginPInv ==
  ASSUME TypeOK, PInv, Start \/ Examine
  PROVE  PInv'
<1>1. UNCHANGED wsVars
  BY DEF Start, Examine
<1>2. VersionsInv'
  BY <1>1, SameVersions DEF PInv
<1>3. CASE Start
  <2>1. /\ pc' = "status" /\ loc'.ws = cache /\ loc'.orig = cache
        /\ loc'.pause = FALSE
    BY <1>3 DEF Start, NoLoc
  <2>2. Behind(loc.orig)'
    BY <1>1, <2>1 DEF PInv, VersionsInv, Behind, wsVars
  <2>3. PassInv'
    BY <2>1, <2>2 DEF PassInv
  <2> QED BY <1>2, <2>3 DEF PInv
<1>4. CASE Examine
  <2> DEFINE s == StateOf(pod.phase, loc.ws.paused)
             w == RecordRunningTransition(loc.ws, s)
  <2>1. loc.ws \in WsType /\ loc \in LocType /\ now # 0
    BY CullingAssumption DEF TypeOK, LocType
  <2>2. w.rv = loc.ws.rv /\ w.gen = loc.ws.gen
    BY <2>1 DEF RecordRunningTransition, WsType
  <2>3. /\ loc'.ws = w /\ loc'.orig = loc.orig /\ loc'.pause = loc.pause
        /\ pc' \in {"write", "probe"}
        /\ pc' = "probe" => loc'.start = now
    BY <1>4, <2>1 DEF Examine, LocType
  <2> HIDE DEF w
  <2>4. PassInv
    BY DEF PInv
  <2>5. pc = "status"
    BY <1>4 DEF Examine
  <2>6. Behind(loc.orig)'
    BY <1>1, <2>3, <2>4, <2>5 DEF PassInv, Behind, wsVars
  <2>7. PassInv'
    BY <2>1, <2>2, <2>3, <2>4, <2>5, <2>6 DEF PassInv
  <2> QED BY <1>2, <2>7 DEF PInv
<1> QED BY <1>3, <1>4

\* A probe changes the activity in hand only.
LEMMA ProbePInv ==
  ASSUME TypeOK, PInv, ProbeSucceeds \/ ProbeFailed
  PROVE  PInv'
<1>1. UNCHANGED wsVars /\ pc = "probe" /\ pc' = "write"
  BY DEF ProbeSucceeds, ProbeFailed
<1>2. VersionsInv'
  BY <1>1, SameVersions DEF PInv
<1>3. loc \in LocType /\ loc.ws \in WsType
  BY DEF TypeOK, LocType
<1>4. /\ loc'.ws.rv = loc.ws.rv /\ loc'.ws.gen = loc.ws.gen
      /\ loc'.orig = loc.orig /\ loc'.start = loc.start
  <2>1. CASE ProbeSucceeds
    <3> DEFINE w == [loc.ws EXCEPT !.act = [last |-> ActivityOf(loc.ws),
                                            probe |-> loc.start, ok |-> TRUE]]
               e == Eligible(w, loc.start)
    <3>1. w.rv = loc.ws.rv /\ w.gen = loc.ws.gen
      BY <1>3 DEF WsType
    <3>2. loc' = [loc EXCEPT !.ws = w, !.pause = e, !.after = Interval]
      BY <2>1 DEF ProbeSucceeds
    <3> HIDE DEF w, e
    <3> QED BY <1>3, <3>1, <3>2 DEF LocType
  <2>2. CASE ProbeFailed
    <3> DEFINE a == [loc.ws.act EXCEPT !.probe = loc.start, !.ok = FALSE]
    <3>1. loc' = [loc EXCEPT !.ws.act = a, !.after = MinInterval]
      BY <2>2 DEF ProbeFailed
    <3> HIDE DEF a
    <3> QED BY <1>3, <3>1 DEF LocType, WsType
  <2> QED BY <2>1, <2>2
<1>5. Behind(loc.orig)'
  BY <1>1, <1>4 DEF PInv, PassInv, Behind, wsVars
<1>6. PassInv'
  BY <1>1, <1>4, <1>5 DEF PInv, PassInv
<1> QED BY <1>2, <1>6 DEF PInv

\* What a write of the Workspace adds to, field by field.
LEMMA BumpedVersions ==
  ASSUME NEW w \in WsType
  PROVE  /\ [w EXCEPT !.rv = @ + 1].rv = w.rv + 1
         /\ [w EXCEPT !.rv = @ + 1].gen = w.gen
         /\ \A p \in BOOLEAN :
              LET e == [w EXCEPT !.rv = @ + 1, !.gen = @ + 1, !.paused = p]
              IN e.rv = w.rv + 1 /\ e.gen = w.gen + 1
BY DEF WsType

\* The end of a pass: nothing is in hand.
LEMMA IdlePInv ==
  ASSUME VersionsInv', pc' = "idle"
  PROVE  PInv'
BY DEF PInv, PassInv

\* The status is written, and the pause that follows begins on what was stored.
LEMMA WriteStatusPInv ==
  ASSUME TypeOK, PInv, WriteStatus
  PROVE  PInv'
<1>1. PassInv /\ VersionsInv /\ pc = "write"
  BY DEF PInv, WriteStatus
<1>2. loc \in LocType /\ loc.ws \in WsType /\ loc.orig \in WsType /\ ws \in WsType
  BY DEF TypeOK, LocType
<1>3. Surfaced \in WsType /\ Surfaced.rv = loc.ws.rv /\ Surfaced.gen = loc.ws.gen
  BY <1>2 DEF Surfaced, LocType, WsType
<1>4. CASE ~StatusChanged /\ UNCHANGED wsVars /\ Proceed(Surfaced)
  <2>1. pc' = "idle"
    BY <1>1, <1>4 DEF StatusChanged, PassInv, Proceed
  <2> QED BY <1>1, <1>4, <2>1, SameVersions, IdlePInv
<1>5. CASE Current(loc.ws) /\ StoreWs([Surfaced EXCEPT !.rv = @ + 1]) /\ Proceed(ws')
  <2> DEFINE w == [Surfaced EXCEPT !.rv = @ + 1]
  <2>1. w \in WsType /\ w.rv = Surfaced.rv + 1 /\ w.gen = Surfaced.gen
    BY <1>3, BumpedType, BumpedVersions
  <2>2. StoreWs(w) /\ Proceed(ws') /\ ws.rv = loc.ws.rv
    BY <1>5 DEF Current
  <2> HIDE DEF w
  <2>3. ws' = w
    BY <2>2 DEF StoreWs
  <2>4. VersionsInv'
    BY <1>1, <1>3, <2>1, <2>2, StoreBehind
  <2>5. CASE pc' = "idle"
    BY <2>4, <2>5, IdlePInv
  <2>6. CASE pc' = "patch" /\ loc' = [loc EXCEPT !.ws = ws']
    <3>1. loc'.ws = ws' /\ loc'.orig = loc.orig
      BY <1>2, <2>6 DEF LocType
    <3>2. loc.ws.rv = loc.orig.rv /\ loc.ws.gen = loc.orig.gen
      BY <1>1 DEF PassInv
    <3>3. loc.ws.rv \in Nat /\ loc.orig.rv \in Nat
      BY <1>2 DEF WsType
    <3>4. PassInv'
      BY <1>3, <2>1, <2>3, <2>6, <3>1, <3>2, <3>3 DEF PassInv
    <3> QED BY <2>4, <3>4 DEF PInv
  <2> QED BY <2>2, <2>5, <2>6 DEF Proceed
<1>6. CASE pc' = "idle" /\ UNCHANGED wsVars
  BY <1>1, <1>6, SameVersions, IdlePInv
<1> QED BY <1>4, <1>5, <1>6 DEF WriteStatus

\* The pause ends the pass, whether it is accepted or not.
LEMMA PatchPInv ==
  ASSUME TypeOK, PInv, Patch
  PROVE  PInv'
<1> DEFINE w == [ws EXCEPT !.rv = @ + 1, !.gen = @ + 1, !.paused = TRUE]
<1>1. pc' = "idle" /\ (UNCHANGED wsVars \/ StoreWs(w))
  BY DEF Patch
<1>2. w \in WsType /\ w.rv = ws.rv + 1
  BY BumpedType, BumpedVersions DEF TypeOK
<1> HIDE DEF w
<1>3. VersionsInv'
  BY <1>1, <1>2, SameVersions, StoreBehind DEF PInv
<1> QED BY <1>1, <1>3, IdlePInv

\* A user's write: what a pass has in hand is now behind what is stored.
LEMMA SetPausedPInv ==
  ASSUME TypeOK, PInv, HandlePauseAction \/ Edit
  PROVE  PInv'
<1>1. PICK p \in BOOLEAN : SetPaused(p)
  BY DEF HandlePauseAction, Edit
<1> DEFINE w == [ws EXCEPT !.rv = @ + 1, !.gen = @ + 1, !.paused = p]
<1>2. StoreWs(w) /\ UNCHANGED <<pc, loc>>
  BY <1>1 DEF SetPaused
<1>3. w \in WsType /\ w.rv = ws.rv + 1
  BY BumpedType, BumpedVersions DEF TypeOK
<1> HIDE DEF w
<1>4. ws' = w
  BY <1>2 DEF StoreWs
<1>5. loc.orig \in WsType /\ loc.orig.rv \in Nat /\ loc.ws.rv \in Nat /\ ws.rv \in Nat
  BY DEF TypeOK, LocType, WsType
<1>6. VersionsInv' /\ (Behind(loc.orig) => Behind(loc.orig)')
  BY <1>2, <1>3, <1>5, StoreBehind DEF PInv
<1>7. PassInv'
  BY <1>2, <1>3, <1>4, <1>5, <1>6 DEF PInv, PassInv, Behind
<1> QED BY <1>6, <1>7 DEF PInv

\* A pass is cut short, or the whole controller starts again.
LEMMA FailurePInv ==
  ASSUME TypeOK, PInv, Abort \/ Restart
  PROVE  PInv'
<1>1. pc' = "idle"
  BY DEF Abort, Restart
<1>2. CASE Abort
  BY <1>1, <1>2, SameVersions, IdlePInv DEF Abort, PInv
<1>3. CASE Restart
  <2>1. cache' = ws /\ ws' = ws /\ stream' = <<>> /\ ws.rv \in Nat
    BY <1>3 DEF Restart, TypeOK, WsType
  <2>2. VersionsInv'
    BY <2>1 DEF VersionsInv, Behind
  <2> QED BY <1>1, <2>2, IdlePInv
<1> QED BY <1>2, <1>3

(* The versions in the cache, in flight and in hand are in step with the     *)
(* stored Workspace in every reachable state.                                *)
THEOREM VersionsInStep == Spec => []PInv
<1>1. Init => PInv
  BY DEF Init, NewWs, PInv, VersionsInv, PassInv, Behind
<1>2. TypeOK /\ PInv /\ [Next]_vars => PInv'
  <2> SUFFICES ASSUME TypeOK, PInv, [Next]_vars PROVE PInv'
    OBVIOUS
  <2>1. CASE Deliver
    BY <2>1, DeliverPInv
  <2>2. CASE Start \/ Examine
    BY <2>2, BeginPInv
  <2>3. CASE ProbeSucceeds \/ ProbeFailed
    BY <2>3, ProbePInv
  <2>4. CASE WriteStatus
    BY <2>4, WriteStatusPInv
  <2>5. CASE Patch
    BY <2>5, PatchPInv
  <2>6. CASE HandlePauseAction \/ Edit
    BY <2>6, SetPausedPInv
  <2>7. CASE Abort \/ Restart
    BY <2>7, FailurePInv
  <2>8. CASE Fire \/ Use \/ PodStep \/ Crash \/ ChangeTLS \/ Tick
    BY <2>8, QuietPInv DEF Fire, Use, PodStep, Crash, ChangeTLS, Tick
  <2>9. CASE UNCHANGED vars
    BY <2>9, QuietPInv DEF vars, wsVars
  <2> QED BY <2>1, <2>2, <2>3, <2>4, <2>5, <2>6, <2>7, <2>8, <2>9
          DEF Next, Pass, Environment
<1> QED BY <1>1, <1>2, TypeCorrect, PTL DEF Spec

(* The pause at the end of Reconcile is applied only to the spec the pass    *)
(* began with, however many writes of users, conflicts, aborted passes and   *)
(* restarts there are: the status update that precedes it moves the          *)
(* resourceVersion, so the merge patch always carries one.                   *)
THEOREM PauseRespectsUsers == Spec => PauseKeepsUserSpec
<1>1. TypeOK /\ PInv /\ [Next]_vars =>
        [(pc = "patch" /\ pc' # pc /\ ws' # ws) => ws.gen = loc.orig.gen]_vars
  <2> SUFFICES ASSUME TypeOK, PInv, Next, pc = "patch", pc' # pc, ws' # ws
               PROVE  ws.gen = loc.orig.gen
    OBVIOUS
  <2>1. Patch
    BY DEF Next, Pass, Environment, Deliver, Fire, Start, Examine, ProbeSucceeds,
           ProbeFailed, WriteStatus, HandlePauseAction, Edit, SetPaused, Use, PodStep,
           Crash, ChangeTLS, Abort, Restart, Tick, wsVars
  <2>2. loc.ws.rv = loc.orig.rv \/ loc.ws.rv = ws.rv
    BY <2>1 DEF Patch, Current, wsVars
  <2>3. loc.ws.rv \in Nat /\ loc.orig.rv \in Nat
    BY DEF TypeOK, LocType, WsType
  <2> QED BY <2>2, <2>3 DEF PInv, PassInv
<1> QED BY <1>1, TypeCorrect, VersionsInStep, PTL DEF Spec, PauseKeepsUserSpec
=============================================================================
