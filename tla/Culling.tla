------------------------------ MODULE Culling ------------------------------
(***************************************************************************)
(* Activity probes and the pause of idle Workspaces (workspace_activity.go *)
(* and the last part of Reconcile), for one Workspace whose WorkspaceKind  *)
(* has an activityProbe and a matching pauseWorkspace rule.                *)
(*                                                                         *)
(* Time is a counter that starts at 1, because the code takes a timestamp  *)
(* of 0 for "not set".  A pass reads the Workspace from the informer       *)
(* cache, the Pod as it is, runs a probe that takes time, writes the       *)
(* status and then, if need be, patches spec.paused.  Users, the Pod, the  *)
(* clock and failures act between any two of these.                        *)
(***************************************************************************)
EXTENDS Integers, Sequences

CONSTANTS
  MinInterval, Interval,   \* minProbeIntervalSeconds, probeIntervalSeconds
  Idle, MinRunning,        \* the rule's secondsSinceActive, minRunningSeconds
  Prober,                  \* "jupyter" or "exec"
  ProbesFail,              \* whether a probe of a running Pod may fail
  Timely,                  \* whether work that is due is done before time passes
  MaxTime,                 \* bound: the clock
  MaxLag,                  \* bound: Workspace events not yet in the cache
  MaxRv,                   \* bound: versions of the Workspace, when a pass begins
  MaxEdits,                \* bound: user writes of the spec
  MaxCrashes,              \* bound: a Pod that stops on its own
  MaxAborts,               \* bound: passes cut short, or controller restarts
  MaxTLS,                  \* bound: the TLS profile becoming unusable, or usable again
  MaxDisturbances          \* bound: the four of them together

ASSUME CullingAssumption ==
  /\ MinInterval \in Nat \ {0} /\ Interval \in Nat \ {0} /\ MinInterval <= Interval
  /\ Idle \in Nat \ {0} /\ MinRunning \in Nat
  /\ Prober \in {"jupyter", "exec"}
  /\ ProbesFail \in BOOLEAN /\ Timely \in BOOLEAN
  /\ MaxTime \in Nat \ {0} /\ MaxLag \in Nat /\ MaxRv \in Nat /\ MaxEdits \in Nat
  /\ MaxCrashes \in Nat /\ MaxAborts \in Nat /\ MaxTLS \in Nat
  /\ MaxDisturbances \in Nat

VARIABLES
  now,                 \* the clock
  ws, cache, stream,   \* the Workspace: server, informer cache, watch stream
  replicas, pod, use,  \* the StatefulSet's replicas, the Pod, its last use
  tls,                 \* ResolveProxyTLS would fail
  pc, loc,             \* the pass and its local variables
  queue, timer,        \* the work queue: now, and not before a time (0: none)
  used,                \* environment steps taken, against the bounds
  probed               \* history: when the last probe began, and in which run

vars == <<now, ws, cache, stream, replicas, pod, use, tls, pc, loc, queue, timer, used,
          probed>>
wsVars == <<ws, cache, stream>>
podVars == <<replicas, pod, use>>

\* gen: the version of the spec.  ran: lastRunningTime.  last, probe, ok: the
\* activity status (lastActivity, lastProbe.startTime, lastProbe.result).
NoActivity == [last |-> 0, probe |-> 0, ok |-> FALSE]
NewWs == [rv |-> 1, gen |-> 1, paused |-> FALSE, state |-> "Unknown", ran |-> 0,
          act |-> NoActivity]
NoLoc == [ws |-> NewWs, orig |-> NewWs, tls |-> FALSE, start |-> 0,
          pause |-> FALSE, after |-> 0]

Init ==
  /\ now = 1
  /\ ws = NewWs /\ cache = ws /\ stream = <<>>
  /\ replicas = 0 /\ pod = [phase |-> "none", since |-> 0] /\ use = 0
  /\ tls = FALSE
  /\ pc = "idle" /\ loc = NoLoc
  /\ queue = TRUE /\ timer = 0
  /\ used = [edits |-> 0, crashes |-> 0, aborts |-> 0, tls |-> 0]
  /\ probed = [at |-> 0, since |-> 0]
-----------------------------------------------------------------------------
(* The API server, the informer, the work queue. *)

StoreWs(w) == ws' = w /\ stream' = Append(stream, w) /\ UNCHANGED cache

\* A write is accepted only on the version it was read at.
Current(w) == ws.rv = w.rv

Deliver ==
  /\ stream # <<>>
  /\ cache' = Head(stream) /\ stream' = Tail(stream)
  /\ queue' = TRUE
  /\ UNCHANGED <<now, ws, podVars, tls, pc, loc, timer, used, probed>>

Fire ==
  /\ timer # 0 /\ now >= timer
  /\ timer' = 0 /\ queue' = TRUE
  /\ UNCHANGED <<now, wsVars, podVars, tls, pc, loc, used, probed>>

\* Requeue at once, or after a time; the queue keeps the earlier of two times.
Requeue == queue' = TRUE /\ UNCHANGED timer
RequeueAfter(d) ==
  /\ timer' = IF d = 0 THEN timer
              ELSE IF timer # 0 /\ timer <= now + d THEN timer ELSE now + d
  /\ UNCHANGED queue
-----------------------------------------------------------------------------
(* One pass. *)

\* The pass up to the StatefulSet: its replicas follow spec.paused.
Start ==
  /\ pc = "idle" /\ queue /\ Len(stream) <= MaxLag /\ ws.rv <= MaxRv
  /\ pc' = "status" /\ queue' = FALSE
  /\ loc' = [NoLoc EXCEPT !.ws = cache, !.orig = cache, !.tls = tls]
  /\ replicas' = IF cache.paused THEN 0 ELSE 1
  /\ UNCHANGED <<now, wsVars, pod, use, tls, timer, used, probed>>

\* generateWorkspaceState.  "pending" stands for every Pod that is there, not
\* terminating and not ready.
StateOf(p, paused) == CASE p = "none"        -> IF paused THEN "Paused" ELSE "Unknown"
                        [] p = "terminating" -> "Terminating"
                        [] p = "running"     -> "Running"
                        [] OTHER             -> "Pending"

RecordRunningTransition(w, s) ==
  IF s = "Running" /\ (w.state # "Running" \/ w.ran = 0)
  THEN [w EXCEPT !.state = s, !.ran = now, !.act = NoActivity]
  ELSE [w EXCEPT !.state = s]

\* Mutant of TimeUntilProbeDue: only the interval for failures is looked at.
TimeUntilProbeAllowed(act) ==
  IF act.probe = 0 \/ now - act.probe >= MinInterval THEN 0
  ELSE MinInterval - (now - act.probe)

\* timeUntilProbeDue: 0 when a probe is due.
TimeUntilProbeDue(act) ==
  LET required == IF act.ok THEN Interval ELSE MinInterval
      elapsed  == now - act.probe
  IN IF act.probe = 0 \/ elapsed >= required THEN 0 ELSE required - elapsed

\* generateWorkspaceStatus, and reconcileActivity up to the probe.
Examine ==
  /\ pc = "status"
  /\ LET s == StateOf(pod.phase, loc.ws.paused)
         w == RecordRunningTransition(loc.ws, s)
         d == TimeUntilProbeDue(w.act)
     IN \/ /\ s # "Running"
           /\ pc' = "write" /\ UNCHANGED probed
           /\ loc' = [loc EXCEPT !.ws = w, !.after = IF s = "Pending" THEN 1 ELSE 0]
        \/ /\ s = "Running" /\ d # 0
           /\ pc' = "write" /\ UNCHANGED probed
           /\ loc' = [loc EXCEPT !.ws = w, !.after = d]
        \/ /\ s = "Running" /\ d = 0
           /\ pc' = "probe" /\ probed' = [at |-> now, since |-> pod.since]
           /\ loc' = [loc EXCEPT !.ws = w, !.start = now]
  /\ UNCHANGED <<now, wsVars, podVars, tls, queue, timer, used>>

\* IsEligibleForPause, at the time the pass took before the probe.
Eligible(w, t) ==
  /\ w.act.last > 0 /\ t >= w.act.last + Idle
  /\ MinRunning > 0 => w.ran > 0 /\ t - w.ran >= MinRunning

Later(s, t) == IF s < t THEN t ELSE s

\* What a successful probe returns; 0 stands for no timestamp.  Jupyter counts
\* its own start as activity; a script says whether there is activity now.
Observed == IF Prober = "jupyter" THEN Later(use, pod.since)
            ELSE IF use = now THEN now ELSE 0

\* Mutant of ActivityOf: without a timestamp the activity is now.
ActivityOfNow(w) == IF Observed # 0 THEN Observed ELSE now

\* Without a timestamp an unset lastActivity becomes the start of the run.
ActivityOf(w) == IF Observed # 0 THEN Observed
                 ELSE IF w.act.last = 0 THEN w.ran ELSE w.act.last

\* Mutant of ProbeSucceeds: the rule is evaluated on the activity known before
\* the probe.
ProbeSucceedsStale ==
  /\ pc = "probe" /\ pod.phase = "running"
  /\ pc' = "write"
  /\ LET w == [loc.ws EXCEPT !.act = [last |-> ActivityOf(loc.ws), probe |-> loc.start,
                                      ok |-> TRUE]]
     IN loc' = [loc EXCEPT !.ws = w, !.pause = Eligible(loc.ws, loc.start),
                           !.after = Interval]
  /\ UNCHANGED <<now, wsVars, podVars, tls, queue, timer, used, probed>>

\* updateActivityStatusFromProbe, evaluatePauseDecision with allowPause.
ProbeSucceeds ==
  /\ pc = "probe" /\ pod.phase = "running"
  /\ pc' = "write"
  /\ LET w == [loc.ws EXCEPT !.act = [last |-> ActivityOf(loc.ws), probe |-> loc.start,
                                      ok |-> TRUE]]
     IN loc' = [loc EXCEPT !.ws = w, !.pause = Eligible(w, loc.start), !.after = Interval]
  /\ UNCHANGED <<now, wsVars, podVars, tls, queue, timer, used, probed>>

\* Mutant of ProbeFailed: the record holds the time of the next probe.
ProbeFailedNext ==
  /\ pc = "probe" /\ (ProbesFail \/ pod.phase # "running")
  /\ pc' = "write"
  /\ loc' = [loc EXCEPT !.ws.act = [loc.ws.act EXCEPT !.probe = loc.start + MinInterval],
                        !.after = MinInterval]
  /\ UNCHANGED <<now, wsVars, podVars, tls, queue, timer, used, probed>>

\* A probe that fails or times out changes the probe's own record only.
ProbeFailed ==
  /\ pc = "probe" /\ (ProbesFail \/ pod.phase # "running")
  /\ pc' = "write"
  /\ loc' = [loc EXCEPT !.ws.act = [loc.ws.act EXCEPT !.probe = loc.start, !.ok = FALSE],
                        !.after = MinInterval]
  /\ UNCHANGED <<now, wsVars, podVars, tls, queue, timer, used, probed>>

\* After the status: on to the pause if there is one, or the end of the pass.
Proceed(w) ==
  \/ /\ loc.pause
     /\ pc' = "patch" /\ loc' = [loc EXCEPT !.ws = w]
     /\ UNCHANGED <<queue, timer>>
  \/ /\ ~loc.pause
     /\ pc' = "idle" /\ loc' = NoLoc
     /\ IF loc.tls THEN Requeue ELSE RequeueAfter(loc.after)

\* A TLS failure is shown in the state that is stored, after it was used.
Surfaced == [loc.ws EXCEPT !.state = IF loc.tls THEN "Error" ELSE @]

\* A probe's timestamps, in milliseconds, are those of no probe before it.
StatusChanged == loc.start # 0 \/ Surfaced # loc.orig

\* Mutant of WriteStatus: a conflict is ignored.
WriteStatusForced ==
  /\ pc = "write"
  /\ StoreWs([Surfaced EXCEPT !.rv = ws.rv + 1, !.gen = ws.gen, !.paused = ws.paused])
  /\ Proceed(ws')
  /\ UNCHANGED <<now, podVars, tls, used, probed>>

\* The status is written if it changed; a conflict ends the pass.
WriteStatus ==
  /\ pc = "write"
  /\ \/ ~StatusChanged /\ UNCHANGED wsVars /\ Proceed(Surfaced)
     \/ /\ StatusChanged /\ Current(loc.ws)
        /\ StoreWs([Surfaced EXCEPT !.rv = @ + 1])
        /\ Proceed(ws')
     \/ /\ StatusChanged /\ ~Current(loc.ws)
        /\ pc' = "idle" /\ loc' = NoLoc /\ Requeue
        /\ UNCHANGED wsVars
  /\ UNCHANGED <<now, podVars, tls, used, probed>>

\* Mutant of Patch: a merge patch without a resourceVersion.
PatchUnconditional ==
  /\ pc = "patch"
  /\ StoreWs([ws EXCEPT !.rv = @ + 1, !.gen = @ + 1, !.paused = TRUE])
  /\ pc' = "idle" /\ loc' = NoLoc /\ UNCHANGED <<queue, timer>>
  /\ UNCHANGED <<now, podVars, tls, used, probed>>

\* The merge patch carries the resourceVersion if it differs from the one the
\* pass began with.
Patch ==
  /\ pc = "patch"
  /\ pc' = "idle" /\ loc' = NoLoc
  /\ IF loc.ws.rv = loc.orig.rv \/ Current(loc.ws)
     THEN /\ IF ws.paused THEN UNCHANGED wsVars
             ELSE StoreWs([ws EXCEPT !.rv = @ + 1, !.gen = @ + 1, !.paused = TRUE])
          /\ IF loc.tls THEN Requeue ELSE UNCHANGED <<queue, timer>>
     ELSE Requeue /\ UNCHANGED wsVars
  /\ UNCHANGED <<now, podVars, tls, used, probed>>
-----------------------------------------------------------------------------
(* Users, the Pod, the clock and failures. *)

Room == used.edits + used.crashes + used.aborts + used.tls < MaxDisturbances

SetPaused(p) ==
  /\ Room /\ used.edits < MaxEdits
  /\ used' = [used EXCEPT !.edits = @ + 1]
  /\ StoreWs([ws EXCEPT !.rv = @ + 1, !.gen = @ + 1, !.paused = p])
  /\ UNCHANGED <<now, podVars, tls, pc, loc, queue, timer, probed>>

\* The backend's pause and start: a JSON patch that tests spec and status.
HandlePauseAction ==
  \E p \in BOOLEAN : ws.paused = ~p /\ (~p => ws.state = "Paused") /\ SetPaused(p)

\* A user edits the spec otherwise, and may set paused on the way.
Edit == \E p \in BOOLEAN : SetPaused(p)

Use ==
  /\ pod.phase = "running" /\ use # now
  /\ use' = now
  /\ UNCHANGED <<now, wsVars, replicas, pod, tls, pc, loc, queue, timer, used, probed>>

\* The StatefulSet's controller and the kubelet; a Pod event enqueues.
PodStep ==
  /\ \/ pod.phase = "none" /\ replicas = 1 /\ pod' = [pod EXCEPT !.phase = "pending"]
     \/ pod.phase = "pending" /\ pod' = [phase |-> "running", since |-> now]
     \/ /\ pod.phase \in {"pending", "running"} /\ replicas = 0
        /\ pod' = [pod EXCEPT !.phase = "terminating"]
     \/ pod.phase = "terminating" /\ pod' = [pod EXCEPT !.phase = "none"]
  /\ queue' = TRUE
  /\ UNCHANGED <<now, wsVars, replicas, use, tls, pc, loc, timer, used, probed>>

\* The container stops, and is started again.
Crash ==
  /\ pod.phase = "running" /\ Room /\ used.crashes < MaxCrashes
  /\ used' = [used EXCEPT !.crashes = @ + 1]
  /\ pod' = [pod EXCEPT !.phase = "pending"]
  /\ queue' = TRUE
  /\ UNCHANGED <<now, wsVars, replicas, use, tls, pc, loc, timer, probed>>

ChangeTLS ==
  /\ Room /\ used.tls < MaxTLS
  /\ used' = [used EXCEPT !.tls = @ + 1]
  /\ tls' = ~tls
  /\ UNCHANGED <<now, wsVars, podVars, pc, loc, queue, timer, probed>>

\* A call fails and the pass with it.
Abort ==
  /\ pc # "idle" /\ Room /\ used.aborts < MaxAborts
  /\ used' = [used EXCEPT !.aborts = @ + 1]
  /\ pc' = "idle" /\ loc' = NoLoc /\ Requeue
  /\ UNCHANGED <<now, wsVars, podVars, tls, probed>>

Restart ==
  /\ Room /\ used.aborts < MaxAborts
  /\ used' = [used EXCEPT !.aborts = @ + 1]
  /\ pc' = "idle" /\ loc' = NoLoc
  /\ cache' = ws /\ stream' = <<>> /\ queue' = TRUE /\ timer' = 0
  /\ UNCHANGED <<now, ws, podVars, tls, probed>>

Settled ==
  /\ pc = "idle" /\ ~queue /\ stream = <<>> /\ (timer = 0 \/ now < timer)
  /\ replicas = 0 => pod.phase = "none"

Tick ==
  /\ now < MaxTime
  /\ Timely => Settled
  /\ now' = now + 1
  /\ UNCHANGED <<wsVars, podVars, tls, pc, loc, queue, timer, used, probed>>

Pass == Start \/ Examine \/ ProbeSucceeds \/ ProbeFailed \/ WriteStatus \/ Patch
Environment ==
  \/ HandlePauseAction \/ Edit \/ Use \/ PodStep \/ Crash
  \/ ChangeTLS \/ Abort \/ Restart \/ Tick

Next == Pass \/ Deliver \/ Fire \/ Environment

Spec == Init /\ [][Next]_vars
-----------------------------------------------------------------------------
(* Properties. *)

Times == 0..now
ActType == [last : Times, probe : Times, ok : BOOLEAN]
WsType == [rv : Nat, gen : Nat, paused : BOOLEAN,
           state : {"Unknown", "Paused", "Terminating", "Running", "Pending", "Error"},
           ran : Times, act : ActType]
LocType == [ws : WsType, orig : WsType, tls : BOOLEAN, start : Times,
            pause : BOOLEAN, after : 0..Interval]

(* The type invariant; no timestamp of the status is in the future.          *)
TypeOK ==
  /\ now \in 1..MaxTime
  /\ ws \in WsType /\ cache \in WsType /\ stream \in Seq(WsType)
  /\ replicas \in 0..1
  /\ pod \in [phase : {"none", "pending", "running", "terminating"}, since : Times]
  /\ use \in 0..now /\ tls \in BOOLEAN
  /\ pc \in {"idle", "status", "probe", "write", "patch"} /\ loc \in LocType
  /\ queue \in BOOLEAN /\ timer \in Nat
  /\ probed \in [at : 0..now, since : 0..now]
  /\ used \in [edits : Nat, crashes : Nat, aborts : Nat, tls : Nat]

(* The controller pauses a Workspace only on the spec it decided on: a user  *)
(* who paused or started it while the pass was probing is not overruled      *)
(* (the merge patch at the end of Reconcile).                                *)
PauseKeepsUserSpec ==
  [][(pc = "patch" /\ pc' # pc /\ ws' # ws) => ws.gen = loc.orig.gen]_vars

(* The controller decides to pause only when, at the time the pass began,    *)
(* nobody had used the Workspace for secondsSinceActive: "we never pause an  *)
(* actively-used Workspace based on stale activity data" (reconcileActivity).*)
PauseOnlyIdle ==
  [][(~loc.pause /\ loc'.pause) => use + Idle <= loc.start]_vars

(* lastRunningTime "reflects the start of the current continuous Running     *)
(* period" (recordRunningTransition): once it was recorded for the Pod's     *)
(* present run it does not move while that run goes on.                      *)
RunningTimeStable ==
  [][(pod.phase = "running" /\ pod' = pod /\ pod.since < ws.ran) => ws'.ran = ws.ran]_vars

(* The same, except after an Error was shown in place of Running: passes on  *)
(* stale versions of the Workspace do not move lastRunningTime.              *)
RunningTimeKept ==
  [][(/\ pod.phase = "running" /\ pod' = pod /\ pod.since < ws.ran
      /\ ws.state # "Error") => ws'.ran = ws.ran]_vars

(* The probes on record keep their distance: probeInterval after one that    *)
(* succeeded, minProbeInterval after one that failed (timeUntilProbeDue),    *)
(* however many passes there are in one Running period.                      *)
ProbesSpaced ==
  [][(ws.act.probe # 0 /\ ws'.act.probe # ws.act.probe /\ ws'.ran = ws.ran) =>
       ws'.act.probe - ws.act.probe >= IF ws.act.ok THEN Interval ELSE MinInterval]_vars

(* "minProbeInterval rate-limits all probes (including failing ones)"        *)
(* (timeUntilProbeDue): within one run of the Pod no two probes begin sooner *)
(* than minProbeInterval after one another.                                  *)
RateLimited ==
  [][(probed' # probed /\ probed.at # 0 /\ probed'.since = probed.since) =>
       probed'.at - probed.at >= MinInterval]_vars

\* From when the rule lets the Pod's present run be paused.
EligibleFrom == Later(Later(use, pod.since) + Idle, pod.since + MinRunning)

(* If work that is due is done at once and probes succeed, an idle Workspace *)
(* is paused within probeInterval of becoming eligible; a pass that is cut   *)
(* short, or that conflicts with a user's write, delays this by at most one  *)
(* more interval (reconcileActivity; the status is written before the pause).*)
PausedInTime ==
  (Timely /\ pod.phase = "running" /\ ~ws.paused) =>
    now <= EligibleFrom + Interval * (1 + used.edits + used.aborts)
=============================================================================
