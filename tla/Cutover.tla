------------------------------ MODULE Cutover ------------------------------
(***************************************************************************)
(* The health-gated blue/green swap of one service row, with everything    *)
(* that runs beside it on the daemon's event loop.  One step is the code   *)
(* between two awaits that touch shared state, so the actors interleave    *)
(* exactly where the coroutines can:                                       *)
(*   the reconcile tick    core/services.py, ServiceController              *)
(*   the verify task       core/cutover.py, CutoverManager._verify/_commit  *)
(*   a cancel              core/cutover.py, cancel (stop branch, drain)     *)
(*   the zombie sweep      core/sweeper.py, cleanup_zombies                 *)
(*   the proxy reconcile   core/proxy/manager.py                            *)
(*   an operator request   stop, restart, deploy, rollback routes           *)
(* A daemon crash loses the volatile variables and keeps the row, the      *)
(* endpoint, the containers and Caddy's route.                             *)
(* What the code writes into last_deploy is ReleaseGate's subject: a stamp *)
(* is only the await it takes here, a step that leaves the row alone.      *)
(***************************************************************************)
EXTENDS ServiceRow

CONSTANTS
  Requests,     \* the requests operators make: stop, restart, deploy, rollback, drain
  MaxRequests,  \* bound on their number
  MaxFaults,    \* bound on container exits, daemon crashes and task exceptions
  MaxVersion,   \* bound on the version allocator
  BootSettles   \* TRUE: no request writes over a marker that it read: a crash's before the
                \* first tick, or a tick's before its verify task is registered

ASSUME BoundAssumption ==
  /\ Requests \subseteq {"stop", "restart", "deploy", "rollback", "drain"}
  /\ MaxRequests \in Nat /\ MaxFaults \in Nat /\ MaxVersion \in Nat
  /\ BootSettles \in BOOLEAN

VARIABLES
  \* persisted by SQLite
  row,        \* the jobs row
  ep,         \* the service_endpoints row: [host, active]; host = NoPort, no row
  \* persisted by Docker and Caddy
  ctr,        \* the containers
  dial,       \* the port Caddy's route dials, NoPort when there is no route
  \* the reconcile tick
  tpc, tk,
  \* the verify task and the green it registered in _cutover_containers
  vpc, vt, greenReg,
  \* the cancel in progress
  cpc, cx,
  \* the zombie sweep: the ids it protects, the containers old enough to kill
  spc, prot, aged,
  \* the deploy or restart request being served
  dpc, dq,
  draining,   \* POST /daemon/restart has closed the drain gate
  left        \* what remains of the bounds

stored == <<row, ep, ctr, dial>>
tickVars == <<tpc, tk>>
taskVars == <<vpc, vt, greenReg>>
cancelVars == <<cpc, cx>>
sweepVars == <<spc, prot, aged>>
requestVars == <<dpc, dq>>
envVars == <<draining, left>>
vars == <<stored, tickVars, taskVars, cancelVars, sweepVars, requestVars, envVars>>

Container == [st : {"none", "live", "exited", "gone"}, gen : Nat, port : MaybePort,
              green : BOOLEAN]  \* green: it carries the nerdit-cutover label
Unborn == [st |-> "none", gen |-> 0, port |-> NoPort, green |-> FALSE]

Live(c) == c \in Containers /\ ctr[c].st = "live"
Exists(c) == c \in Containers /\ ctr[c].st \in {"live", "exited"}
Bound(p) == \E c \in Containers : Live(c) /\ ctr[c].port = p
\* COALESCE(active_host_port, host_port): what the proxy and the probes dial.
LivePort == IF ep.active # NoPort THEN ep.active ELSE ep.host

\* runtime.run: a container of generation g comes up on port p.
Started(c, g, p, isGreen) ==
  ctr' = [ctr EXCEPT ![c] = [st |-> "live", gen |-> g, port |-> p, green |-> isGreen]]
\* _destroy_container and kill + remove, for every container of S.
Destroy(S) ==
  ctr' = [c \in Containers |->
            IF c \in S /\ Exists(c) THEN [ctr[c] EXCEPT !.st = "gone"] ELSE ctr[c]]
\* set_endpoint_active_port: an UPDATE, without effect when the row is gone.
SetActive(p) == ep' = IF ep.host = NoPort THEN ep ELSE [ep EXCEPT !.active = p]

NoSnap == [status |-> "stopped", desired |-> "stopped", cid |-> NoCtr, bv |-> 0,
           prev |-> 0, maxv |-> 0, marker |-> NoMarker]
NoTick == [snap |-> NoSnap, live |-> FALSE, bport |-> NoPort, new |-> NoCtr,
           then |-> "idle"]
NoTask == [ver |-> 0, blue |-> NoCtr, green |-> NoCtr, gport |-> NoPort]
NoCancel == [by |-> "tick", greens |-> {}, snap |-> NoSnap]
NoRequest == [kind |-> "deploy", bv |-> 0, prev |-> 0, maxv |-> 0, marked |-> FALSE]

\* has_active: a verify task runs for the row.
TaskInFlight == vpc # "none"

TickTo(pc) == tpc' = pc /\ UNCHANGED tk
TickDone == tpc' = "idle" /\ tk' = NoTick
TaskTo(pc) == vpc' = pc /\ UNCHANGED <<vt, greenReg>>
TaskDone == vpc' = "none" /\ vt' = NoTask /\ greenReg' = NoCtr
CancelTo(pc) == cpc' = pc /\ UNCHANGED cx
CancelDone == cpc' = "idle" /\ cx' = NoCancel

ButTick == <<taskVars, cancelVars, sweepVars, requestVars, envVars>>
ButTask == <<tickVars, cancelVars, sweepVars, requestVars, envVars>>
ButCancel == <<tickVars, taskVars, sweepVars, requestVars, envVars>>

Init ==
  /\ \E up \in BOOLEAN, c \in Containers, s \in StablePorts,
        p \in Ports, prev \in {0, 1} :
       LET bv == prev + 1 IN
       \* a generation that serves, on its stable port or promoted on a transient
       \* one by an earlier cutover, or a first deploy that has yet to launch
       /\ p \in {s} \cup EphPorts
       /\ ~up => prev = 0 /\ p = s
       /\ row = [status |-> IF up THEN "running" ELSE "building",
                 desired |-> "running", cid |-> IF up THEN c ELSE NoCtr,
                 bv |-> bv, prev |-> prev, maxv |-> bv, marker |-> NoMarker]
       /\ ep = IF up THEN [host |-> s, active |-> IF p = s THEN NoPort ELSE p]
                     ELSE [host |-> NoPort, active |-> NoPort]
       /\ ctr = [d \in Containers |->
                   IF up /\ d = c
                   THEN [st |-> "live", gen |-> bv, port |-> p, green |-> p # s]
                   ELSE Unborn]
       /\ dial = IF up THEN p ELSE NoPort
  /\ tpc = "idle" /\ tk = NoTick
  /\ vpc = "none" /\ vt = NoTask /\ greenReg = NoCtr
  /\ cpc = "idle" /\ cx = NoCancel
  /\ spc = "idle" /\ prot = {} /\ aged = {}
  /\ dpc = "idle" /\ dq = NoRequest
  /\ draining = FALSE
  /\ left = [requests |-> MaxRequests, faults |-> MaxFaults]

---------------------------------------------------------------------------
(* The reconcile tick.  It fetches the row once and then acts on that      *)
(* snapshot, re-reading only where the code does.                          *)

\* reconcile: fetch the rows, list the live containers.
TickFetch ==
  /\ tpc = "idle" /\ Reconcilable(row)
  /\ tpc' = "gate"
  /\ tk' = [NoTick EXCEPT !.snap = row, !.live = Live(row.cid)]
  /\ UNCHANGED <<stored, ButTick>>

Stopping == tk.snap.desired = "stopped"

\* cancel's first segment: note the green, pop and kill the task.  A statement
\* the task had queued runs before the cancel's read, so it counts as done before.
CancelTask(by) ==
  /\ TaskInFlight /\ cpc = "idle"
  /\ cpc' = "read"
  /\ cx' = [NoCancel EXCEPT !.by = by, !.greens = {greenReg} \ {NoCtr}]
  /\ TaskDone

TickCancels ==
  /\ tpc = "gate" /\ Stopping /\ CancelTask("tick")
  /\ TickTo("cancel")
  /\ UNCHANGED <<stored, sweepVars, requestVars, envVars>>

\* (mutant) The stop branch tears down the tick's snapshot.
TickTearsDownSnapshot ==
  /\ \/ tpc = "gate" /\ Stopping /\ ~TaskInFlight
     \/ tpc = "cancel" /\ cpc = "idle"
  /\ TickTo("teardown")
  /\ UNCHANGED <<stored, ButTick>>

\* The stop branch re-reads the row after the cancel, if any, has finished.
TickRereads ==
  /\ \/ tpc = "gate" /\ Stopping /\ ~TaskInFlight
     \/ tpc = "cancel" /\ cpc = "idle"
  /\ IF row.status = "stopped" THEN TickDone
     ELSE tpc' = "teardown" /\ tk' = [tk EXCEPT !.snap = row]
  /\ UNCHANGED <<stored, ButTick>>

\* _release_endpoint, and then `next'.
TickReleases(next) == tpc' = "deregister" /\ tk' = [tk EXCEPT !.then = next]

\* _teardown_to_stopped: destroy, release the endpoint, write `stopped'.
TickTeardown ==
  /\ tpc = "teardown" /\ Destroy({tk.snap.cid}) /\ TickReleases("stopped")
  /\ UNCHANGED <<row, ep, dial, ButTick>>

\* maybe_cutover, layer 1: a task in flight owns the row.
TickYields ==
  /\ tpc = "gate" /\ ~Stopping /\ TaskInFlight /\ TickDone
  /\ UNCHANGED <<stored, ButTick>>

GateOpen == tpc = "gate" /\ ~Stopping /\ ~TaskInFlight

\* (mutant) Layer 4 settles a promoted row as one that never was.
TickFindsMarkerRestores ==
  /\ GateOpen /\ Matches(tk.snap)
  /\ IF ~Matches(row) THEN TickDone
     ELSE tk' = [tk EXCEPT !.snap = row] /\ tpc' = "restore"
  /\ UNCHANGED <<stored, ButTick>>

\* (mutant) Layer 4 leaves a promoted row alone, marker and all.
TickFindsMarkerSkips ==
  /\ GateOpen /\ Matches(tk.snap)
  /\ IF ~Matches(row) \/ row.cid \notin {NoCtr, row.marker.blue} THEN TickDone
     ELSE tk' = [tk EXCEPT !.snap = row] /\ tpc' = "restore"
  /\ UNCHANGED <<stored, ButTick>>

\* Layer 4: a marker without a task.  Re-read, then settle the side of the commit
\* point the row is on.
TickFindsMarker ==
  /\ GateOpen /\ Matches(tk.snap)
  /\ IF ~Matches(row) THEN TickDone
     ELSE /\ tk' = [tk EXCEPT !.snap = row]
          /\ tpc' = IF row.cid \notin {NoCtr, row.marker.blue} THEN "tail" ELSE "restore"
  /\ UNCHANGED <<stored, ButTick>>

\* 4b: replay the commit tail, kill nothing.
TickTail ==
  /\ tpc = "tail" /\ TickTo("pop")
  /\ UNCHANGED <<stored, ButTick>>

\* (mutant) 4a clears the pointer instead of restoring blue's port.
TickRestoreNull ==
  /\ tpc = "restore" /\ SetActive(NoPort) /\ TickTo("reap")
  /\ UNCHANGED <<row, ctr, dial, ButTick>>

\* 4a: blue's own port back first, ...
TickRestore ==
  /\ tpc = "restore" /\ SetActive(tk.snap.marker.bport) /\ TickTo("reap")
  /\ UNCHANGED <<row, ctr, dial, ButTick>>

\* ... then reap the labelled greens, best effort, never the row's own container, ...
TickReap ==
  /\ tpc = "reap"
  /\ \E S \in SUBSET {c \in Containers : Live(c) /\ ctr[c].green} :
       Destroy(S \ {tk.snap.cid})
  /\ TickTo("settle")
  /\ UNCHANGED <<row, ep, dial, ButTick>>

\* ... then settle the generation as failed, and only then disarm the marker.
TickSettle ==
  /\ tpc = "settle" /\ TickTo("pop")
  /\ row' = SettleFailedGeneration(row, tk.snap.marker.ver, Exists(tk.snap.cid))
  /\ UNCHANGED <<ep, ctr, dial, ButTick>>

TickPop ==
  /\ tpc = "pop" /\ TickDone
  /\ row' = MarkerPopped(row, tk.snap.marker.ver)
  /\ UNCHANGED <<ep, ctr, dial, ButTick>>

Restarting == tk.live /\ tk.snap.status = "restarting"

\* (mutant) Layers 2 and 3 come before layer 4.
TickGateFirst ==
  /\ GateOpen
  /\ TickTo(IF ~tk.live THEN "dead" ELSE IF ~Restarting THEN "live"
            ELSE IF row.desired \in Terminal THEN "swap" ELSE "stamp")
  /\ UNCHANGED <<stored, ButTick>>

\* Layers 2 and 3.  An eligible row goes to the arm, which first re-reads what is
\* desired; a refused arm returns False, and False sends the row to the
\* destroy-first swap just as ineligibility does.
TickGate ==
  /\ GateOpen /\ ~Matches(tk.snap)
  /\ TickTo(IF ~tk.live THEN "dead" ELSE IF ~Restarting THEN "live"
            ELSE IF row.desired \in Terminal THEN "swap" ELSE "stamp")
  /\ UNCHANGED <<stored, ButTick>>

TickIneligible ==
  /\ GateOpen /\ ~Matches(tk.snap) /\ Restarting /\ TickTo("swap")
  /\ UNCHANGED <<stored, ButTick>>

\* _arm: stamp verifying, re-read the row and the endpoint, write the marker.
TickStampVerifying ==
  /\ tpc = "stamp" /\ TickTo("arm")
  /\ UNCHANGED <<stored, ButTick>>

TickArm ==
  /\ tpc = "arm"
  /\ IF row.bv # tk.snap.bv THEN TickTo("swap")
     ELSE tpc' = "mark" /\ tk' = [tk EXCEPT !.bport = ep.active]
  /\ UNCHANGED <<stored, ButTick>>

TickMark ==
  /\ tpc = "mark"
  /\ row' = MarkerArmed(row, [ver |-> tk.snap.bv, blue |-> tk.snap.cid, bport |-> tk.bport])
  /\ TickTo(IF row.bv = tk.snap.bv THEN "spawn" ELSE "swap")
  /\ UNCHANGED <<ep, ctr, dial, ButTick>>

TickSpawn ==
  /\ tpc = "spawn" /\ TickDone
  /\ vpc' = "resolve"
  /\ vt' = [NoTask EXCEPT !.ver = tk.snap.bv, !.blue = tk.snap.cid]
  /\ UNCHANGED <<stored, greenReg, cancelVars, sweepVars, requestVars, envVars>>

\* The same-port swap: destroy first, launch after.
TickSwap ==
  /\ tpc = "swap" /\ Destroy({tk.snap.cid}) /\ TickTo("dead")
  /\ UNCHANGED <<row, ep, dial, ButTick>>

\* _release_endpoint: the route goes (or stays, for the proxy reconcile, when the
\* admin API is down), then the reservation.
TickDeregister ==
  /\ tpc = "deregister" /\ dial' \in {dial, NoPort} /\ TickTo("release")
  /\ UNCHANGED <<row, ep, ctr, ButTick>>

TickRelease ==
  /\ tpc = "release"
  /\ ep' = [host |-> NoPort, active |-> NoPort]
  /\ IF tk.then = "idle" THEN TickDone ELSE TickTo(tk.then)
  /\ UNCHANGED <<row, ctr, dial, ButTick>>

TickStopped ==
  /\ tpc = "stopped" /\ TickDone
  /\ row' = [row EXCEPT !.status = "stopped"]
  /\ UNCHANGED <<ep, ctr, dial, ButTick>>

\* _reconcile_dead and _launch return before acquiring anything: backing off, the
\* restart cap, an environment not ready, a port whose release is awaited or none.
TickWaits ==
  /\ tpc = "dead" /\ tk.snap.status \notin {"running", "degraded"} /\ TickDone
  /\ UNCHANGED <<stored, ButTick>>

\* acquire_service_port: keep the reservation when it can be bound, else a new one.
TickAcquire ==
  /\ tpc = "dead" /\ tk.snap.status \notin {"running", "degraded"}
  /\ \/ ep.host # NoPort /\ ~Bound(ep.host) /\ UNCHANGED ep
     \/ /\ ep.host = NoPort \/ Bound(ep.host)
        /\ \E p \in {q \in StablePorts : ~Bound(q)} : ep' = [host |-> p, active |-> NoPort]
  /\ TickTo("prepare")
  /\ UNCHANGED <<row, ctr, dial, ButTick>>

\* _settle_launch_user_error: release, fail the row, stamp whatever generation is there.
TickRefuses ==
  /\ tpc = "prepare" /\ TickReleases("refused")
  /\ UNCHANGED <<stored, ButTick>>

TickRefused ==
  /\ tpc = "refused" /\ TickTo("blame")
  /\ row' = [row EXCEPT !.status = "failed", !.desired = "failed"]
  /\ UNCHANGED <<ep, ctr, dial, ButTick>>

TickBlames ==
  /\ tpc = "blame" /\ TickDone
  /\ UNCHANGED <<stored, ButTick>>

TickStampLaunching ==
  /\ tpc = "prepare" /\ TickTo("schedule")
  /\ UNCHANGED <<stored, ButTick>>

TickSchedule ==
  /\ tpc = "schedule" /\ TickTo("run")
  /\ row' = [row EXCEPT !.status = "scheduled"]
  /\ UNCHANGED <<ep, ctr, dial, ButTick>>

\* runtime.run of the snapshot's generation on the stable port.
TickRun ==
  /\ tpc = "run" /\ ~Bound(ep.host)
  /\ \E c \in Containers :
       /\ ctr[c].st = "none" /\ Started(c, tk.snap.bv, ep.host, FALSE)
       /\ tpc' = "started" /\ tk' = [tk EXCEPT !.new = c]
  /\ UNCHANGED <<row, ep, dial, ButTick>>

TickRunFails ==
  /\ tpc = "run" /\ TickTo("count")
  /\ UNCHANGED <<stored, ButTick>>

\* settle_started: clear the cutover pointer, adopt the container, register.
TickClearPointer ==
  /\ tpc = "started" /\ SetActive(NoPort) /\ TickTo("adopt")
  /\ UNCHANGED <<row, ctr, dial, ButTick>>

TickAdopt ==
  /\ tpc = "adopt" /\ TickTo("register")
  /\ row' = [row EXCEPT !.status = "running", !.cid = tk.new]
  /\ UNCHANGED <<ep, ctr, dial, ButTick>>

TickRegister ==
  /\ tpc = "register" /\ TickDone
  /\ dial' \in {dial, ep.host}
  /\ UNCHANGED <<row, ep, ctr, ButTick>>

\* _handle_crash: remove the dead container, then the restart policy.
TickCrash ==
  /\ tpc = "dead" /\ tk.snap.status \in {"running", "degraded"}
  /\ Destroy({tk.snap.cid})
  /\ TickTo("policy") \/ TickTo("count")
  /\ UNCHANGED <<row, ep, dial, ButTick>>

\* restart_policy `no', or a one-shot that exited 0: terminal, no stamp.
TickExits ==
  /\ tpc = "policy" /\ TickReleases("idle")
  /\ \E final \in {"completed", "failed"} :
       row' = [row EXCEPT !.status = final, !.desired = final]
  /\ UNCHANGED <<ep, ctr, dial, ButTick>>

\* _count_restart: back off, or past the cap fail the row.
TickBacksOff ==
  /\ tpc = "count" /\ TickDone
  /\ row' = [row EXCEPT !.status = "restarting"]
  /\ UNCHANGED <<ep, ctr, dial, ButTick>>

TickGivesUp ==
  /\ tpc = "count" /\ TickReleases("idle")
  /\ row' = SettledTerminal(row)
  /\ UNCHANGED <<ep, ctr, dial, ButTick>>

\* _reconcile_live: nothing to judge yet, or a verdict.
TickDefers ==
  /\ tpc = "live" /\ TickDone
  /\ UNCHANGED <<stored, ButTick>>

\* _stamp_healthy_from_launching.
TickStampHealthy ==
  /\ tpc = "live" /\ TickTo("recover")
  /\ UNCHANGED <<stored, ButTick>>

TickRecover ==
  /\ tpc = "recover" /\ TickDone
  /\ row' = IF tk.snap.status # "running" THEN [row EXCEPT !.status = "running"] ELSE row
  /\ UNCHANGED <<ep, ctr, dial, ButTick>>

TickDegrades ==
  /\ tpc = "live" /\ tk.snap.status # "degraded" /\ TickDone
  /\ row' = [row EXCEPT !.status = "degraded"]
  /\ UNCHANGED <<ep, ctr, dial, ButTick>>

---------------------------------------------------------------------------
(* The verify task: _verify to its commit _commit, and the unwinds.        *)

\* (a) the environment is not ready: disarm, let a later tick arm again.
TaskNotReady ==
  /\ vpc = "resolve" /\ TaskTo("regress")
  /\ row' = MarkerPopped(row, vt.ver)
  /\ UNCHANGED <<ep, ctr, dial, ButTask>>

TaskRegress ==
  /\ vpc = "regress" /\ TaskDone
  /\ UNCHANGED <<stored, ButTask>>

\* (b) _reserve_ephemeral_port: outside every reservation.
TaskReserve ==
  /\ vpc = "resolve" /\ vpc' = "run"
  /\ \E p \in EphPorts :
       /\ p # ep.active /\ ~Bound(p)
       /\ vt' = [vt EXCEPT !.gport = p]
  /\ UNCHANGED <<stored, greenReg, ButTask>>

\* (c, d) a mount, a volume or the runtime refuses: nothing was launched.
TaskRefused ==
  /\ vpc = "run" /\ TaskTo("settle")
  /\ UNCHANGED <<stored, ButTask>>

\* (d) the green starts; its id is registered only once runtime.run has returned.
TaskRun ==
  /\ vpc = "run" /\ vpc' = "started"
  /\ \E c \in Containers :
       /\ ctr[c].st = "none" /\ Started(c, vt.ver, vt.gport, TRUE)
       /\ vt' = [vt EXCEPT !.green = c]
  /\ UNCHANGED <<row, ep, dial, greenReg, ButTask>>

TaskBind ==
  /\ vpc = "started" /\ vpc' = "probe"
  /\ greenReg' = vt.green
  /\ UNCHANGED <<stored, vt, ButTask>>

\* (e) a 2xx, or alive for the grace; else (g), destroy the green.
TaskVerified ==
  /\ vpc = "probe" /\ Live(vt.green) /\ TaskTo("point")
  /\ UNCHANGED <<stored, ButTask>>

TaskUnverified ==
  /\ vpc = "probe" /\ vpc' = "settle"
  /\ Destroy({vt.green}) /\ greenReg' = NoCtr
  /\ UNCHANGED <<row, ep, dial, vt, ButTask>>

\* f1: the database names the green first.
TaskPoint ==
  /\ vpc = "point" /\ SetActive(vt.gport) /\ TaskTo("repoint")
  /\ UNCHANGED <<row, ctr, dial, ButTask>>

\* f2: register, and read the live dial back within the budget.
TaskRepoint ==
  /\ vpc = "repoint" /\ TaskTo("await")
  /\ dial' \in {dial, vt.gport}
  /\ UNCHANGED <<row, ep, ctr, ButTask>>

\* (mutant) register is trusted, the dial not read back.
TaskTrustsDial ==
  /\ vpc = "await" /\ TaskTo("check")
  /\ UNCHANGED <<stored, ButTask>>

TaskSeesDial ==
  /\ vpc = "await" /\ dial = vt.gport /\ TaskTo("check")
  /\ UNCHANGED <<stored, ButTask>>

TaskTimesOut ==
  /\ vpc = "await" /\ TaskTo("undo")
  /\ UNCHANGED <<stored, ButTask>>

\* f2b: the green must still live.
TaskCheck ==
  /\ vpc = "check" /\ TaskTo(IF Live(vt.green) THEN "promote" ELSE "undo")
  /\ UNCHANGED <<stored, ButTask>>

\* f3: the commit point.
TaskPromote ==
  /\ vpc = "promote" /\ TaskTo("tail")
  /\ row' = [row EXCEPT !.status = "running", !.cid = vt.green]
  /\ UNCHANGED <<ep, ctr, dial, ButTask>>

\* f4, f5: the records, `healthy'.
TaskTail ==
  /\ vpc = "tail" /\ TaskTo("disarm")
  /\ UNCHANGED <<stored, ButTask>>

\* f6: disarm.
TaskDisarm ==
  /\ vpc = "disarm" /\ TaskTo("retire")
  /\ row' = MarkerPopped(row, vt.ver)
  /\ UNCHANGED <<ep, ctr, dial, ButTask>>

\* f7: destroy blue.
TaskRetire ==
  /\ vpc = "retire" /\ Destroy({vt.blue}) /\ TaskDone
  /\ UNCHANGED <<row, ep, dial, ButTask>>

\* g'1: the pointer back to the port the marker recorded for blue, ...
TaskUndo ==
  /\ vpc = "undo" /\ TaskTo("drop")
  /\ SetActive(IF row.marker.ver = vt.ver THEN row.marker.bport ELSE NoPort)
  /\ UNCHANGED <<row, ctr, dial, ButTask>>

\* g'3: ... the bounded wait over, destroy the green.
TaskDrop ==
  /\ vpc = "drop" /\ vpc' = "settle"
  /\ Destroy({vt.green}) /\ greenReg' = NoCtr
  /\ UNCHANGED <<row, ep, dial, vt, ButTask>>

\* _settle_failed: settle durably, and only then disarm.
TaskSettle ==
  /\ vpc = "settle" /\ TaskTo("pop")
  /\ row' = SettleFailedGeneration(row, vt.ver, Exists(vt.blue))
  /\ UNCHANGED <<ep, ctr, dial, ButTask>>

TaskPop ==
  /\ vpc = "pop" /\ TaskDone
  /\ row' = MarkerPopped(row, vt.ver)
  /\ UNCHANGED <<ep, ctr, dial, ButTask>>

\* _run_verify's catch-all: the marker stays armed for layer 4.
TaskRaises ==
  /\ TaskInFlight /\ TaskDone
  /\ left.faults > 0 /\ left' = [left EXCEPT !.faults = @ - 1]
  /\ UNCHANGED <<stored, tickVars, cancelVars, sweepVars, requestVars, draining>>

---------------------------------------------------------------------------
(* cancel, once the task is dead.                                          *)

\* Where a cancel that read r goes after the greens: a committed green's unfinished
\* tail, an uncommitted one's pointer, or nothing that it owns.
AfterGreens(r, greens) ==
  IF r.cid \in greens
  THEN IF Matches(r) /\ r.marker.blue # r.cid THEN "tail" ELSE "end"
  ELSE IF Armed(r) THEN "point" ELSE "end"

\* (mutant) The greens go before the row is read.
CancelKillsFirst ==
  /\ cpc = "read" /\ Destroy(cx.greens)
  /\ cpc' = AfterGreens(row, cx.greens)
  /\ cx' = [cx EXCEPT !.snap = row]
  /\ UNCHANGED <<row, ep, dial, ButCancel>>

CancelRead ==
  /\ cpc = "read"
  /\ cpc' = IF cx.greens \subseteq {row.cid} THEN AfterGreens(row, cx.greens) ELSE "destroy"
  /\ cx' = [cx EXCEPT !.snap = row]
  /\ UNCHANGED <<stored, ButCancel>>

CancelDestroy ==
  /\ cpc = "destroy" /\ Destroy(cx.greens \ {cx.snap.cid})
  /\ CancelTo(AfterGreens(cx.snap, cx.greens))
  /\ UNCHANGED <<row, ep, dial, ButCancel>>

CancelTail ==
  /\ cpc = "tail" /\ CancelTo("pop")
  /\ UNCHANGED <<stored, ButCancel>>

CancelPoint ==
  /\ cpc = "point" /\ SetActive(cx.snap.marker.bport) /\ CancelTo("pop")
  /\ UNCHANGED <<row, ctr, dial, ButCancel>>

CancelPop ==
  /\ cpc = "pop" /\ CancelTo("end")
  /\ row' = MarkerPopped(row, cx.snap.marker.ver)
  /\ UNCHANGED <<ep, ctr, dial, ButCancel>>

\* The stop branch goes on.  The drain cancels the other services' tasks, which may
\* take long, then lists the greens registered by now, ...
CancelEnd ==
  /\ cpc = "end"
  /\ IF cx.by = "tick" THEN CancelDone
     ELSE cpc' = "kill" /\ cx' = [cx EXCEPT !.greens = {greenReg} \ {NoCtr}]
  /\ UNCHANGED <<stored, ButCancel>>

\* ... and kills them, one docker call after the other.
CancelKill ==
  /\ cpc = "kill" /\ Destroy(cx.greens) /\ CancelDone
  /\ UNCHANGED <<row, ep, dial, ButCancel>>

---------------------------------------------------------------------------
(* cleanup_zombies.  A container it may kill is 30 s old at the kill, so it *)
(* lived, and its id was registered or recorded, when the pass began.      *)

SweepHook ==
  /\ spc = "idle" /\ spc' = "rows"
  /\ prot' = {greenReg} \ {NoCtr}
  /\ aged' = {c \in Containers : Live(c) /\ c # tk.new
                                 /\ ~(vpc = "started" /\ c = vt.green)}
  /\ UNCHANGED <<stored, tickVars, taskVars, cancelVars, requestVars, envVars>>

\* (mutant) Only running and scheduled rows protect their container.
SweepRowsByStatus ==
  /\ spc = "rows" /\ spc' = "kill"
  /\ prot' = prot \cup (IF row.status \in {"running", "scheduled"}
                        THEN {row.cid} \ {NoCtr} ELSE {})
  /\ UNCHANGED <<aged, stored, tickVars, taskVars, cancelVars, requestVars, envVars>>

SweepRows ==
  /\ spc = "rows" /\ spc' = "kill"
  /\ prot' = prot \cup ({row.cid} \ {NoCtr})
  /\ UNCHANGED <<aged, stored, tickVars, taskVars, cancelVars, requestVars, envVars>>

\* (mutant) The sweep leaves labelled greens to layer 4.
SweepSparesGreens ==
  /\ spc = "kill" /\ spc' = "idle" /\ prot' = {} /\ aged' = {}
  /\ Destroy({c \in aged \ prot : Live(c) /\ ~ctr[c].green})
  /\ UNCHANGED <<row, ep, dial, tickVars, taskVars, cancelVars, requestVars, envVars>>

SweepKill ==
  /\ spc = "kill" /\ spc' = "idle" /\ prot' = {} /\ aged' = {}
  /\ Destroy({c \in aged \ prot : Live(c)})
  /\ UNCHANGED <<row, ep, dial, tickVars, taskVars, cancelVars, requestVars, envVars>>

---------------------------------------------------------------------------
\* (mutant) The proxy reconcile dials the reservation, not the pointer.
RoutedReservation ==
  IF row.status \in {"running", "degraded", "restarting"} /\ ep.host # NoPort
  THEN ep.host ELSE NoPort

\* The proxy reconcile, whole under _routes_lock: it renders the database's routes.
RoutedPort ==
  IF row.status \in {"running", "degraded", "restarting"} /\ ep.host # NoPort
  THEN LivePort ELSE NoPort
ProxyReconcile ==
  /\ dial # RoutedPort /\ dial' = RoutedPort
  /\ UNCHANGED <<row, ep, ctr, tickVars, taskVars, cancelVars, sweepVars, requestVars,
                 envVars>>

---------------------------------------------------------------------------
(* Requests.  One deploy, rollback or restart is served at a time; a stop  *)
(* is a single UPDATE and may land anywhere.                               *)

Request(kind) ==
  /\ kind \in Requests /\ left.requests > 0
  /\ left' = [left EXCEPT !.requests = @ - 1]

ButRequest == <<tickVars, taskVars, cancelVars, sweepVars, draining>>

StopService ==
  /\ Request("stop")
  /\ row' = [row EXCEPT !.desired = "stopped"]
  /\ UNCHANGED <<ep, ctr, dial, requestVars, ButRequest>>

\* restart_service: two statements.
RestartDesires ==
  /\ dpc = "idle" /\ Request("restart")
  /\ dpc' = "restart" /\ UNCHANGED dq
  /\ row' = [row EXCEPT !.desired = "running"]
  /\ UNCHANGED <<ep, ctr, dial, ButRequest>>

RestartMarks ==
  /\ dpc = "restart" /\ dpc' = "idle" /\ UNCHANGED dq
  /\ row' = [row EXCEPT !.status = "restarting"]
  /\ UNCHANGED <<ep, ctr, dial, ButRequest, left>>

\* The row as a deploy or a rollback reads it.
ReadFor(kind) ==
  dq' = [kind |-> kind, bv |-> row.bv, prev |-> row.prev, maxv |-> row.maxv,
         marked |-> Armed(row)]

\* deploy: the row is read far upstream of ...
DeployReads ==
  /\ dpc = "idle" /\ Request("deploy") /\ row.maxv < MaxVersion
  /\ dpc' = "check" /\ ReadFor("deploy")
  /\ UNCHANGED <<stored, ButRequest>>

\* ... the 409 of a cutover in flight.
DeployChecks ==
  /\ dpc = "check"
  /\ IF TaskInFlight THEN dpc' = "idle" /\ dq' = NoRequest ELSE dpc' = "write" /\ UNCHANGED dq
  /\ UNCHANGED <<stored, ButRequest, left>>

\* rollback: read and 409 without an await between them.
RollbackReads ==
  /\ dpc = "idle" /\ Request("rollback") /\ row.prev # 0 /\ ~TaskInFlight
  /\ dpc' = "write" /\ ReadFor("rollback")
  /\ UNCHANGED <<stored, ButRequest>>

\* write_redeploy, and the rollback's write: a compare-and-swap, 409 on a miss.
GenerationOf(q) == IF q.kind = "deploy" THEN q.maxv + 1 ELSE q.prev
DeployWrites ==
  /\ dpc = "write" /\ dpc' = "idle" /\ dq' = NoRequest
  /\ row' = IF DeployAllowed(row, dq) /\ (BootSettles => ~dq.marked)
            THEN Redeployed(row, GenerationOf(dq), dq) ELSE row
  /\ UNCHANGED <<ep, ctr, dial, ButRequest, left>>

\* POST /daemon/restart reaches its drain deadline with the verify in flight.
DrainCancels ==
  /\ Request("drain") /\ ~draining /\ draining' = TRUE
  /\ CancelTask("drain")
  /\ UNCHANGED <<stored, tickVars, sweepVars, requestVars>>

---------------------------------------------------------------------------
(* Faults, and the restart of the daemon.                                  *)

Fault == left.faults > 0 /\ left' = [left EXCEPT !.faults = @ - 1]

ContainerExits ==
  /\ Fault
  /\ \E c \in Containers : Live(c) /\ ctr' = [ctr EXCEPT ![c].st = "exited"]
  /\ UNCHANGED <<row, ep, dial, tickVars, taskVars, cancelVars, sweepVars, requestVars,
                 draining>>

\* What dies with the daemon's process.
VolatileLost ==
  /\ TickDone /\ TaskDone /\ CancelDone
  /\ spc' = "idle" /\ prot' = {} /\ aged' = {}
  /\ dpc' = "idle" /\ dq' = NoRequest
  /\ draining' = FALSE
  /\ UNCHANGED stored

DaemonCrashes == Fault /\ VolatileLost
DaemonReexecs == draining /\ cpc = "idle" /\ VolatileLost /\ UNCHANGED left

---------------------------------------------------------------------------
Tick ==
  \/ TickFetch \/ TickCancels \/ TickRereads \/ TickTeardown \/ TickDeregister
  \/ TickRelease \/ TickStopped
  \/ TickYields \/ TickFindsMarker \/ TickTail \/ TickRestore \/ TickReap \/ TickSettle
  \/ TickPop
  \/ TickGate \/ TickIneligible \/ TickStampVerifying \/ TickArm \/ TickMark \/ TickSpawn
  \/ TickSwap \/ TickWaits \/ TickAcquire \/ TickRefuses \/ TickRefused \/ TickBlames
  \/ TickStampLaunching \/ TickSchedule \/ TickRun \/ TickRunFails \/ TickClearPointer
  \/ TickAdopt \/ TickRegister
  \/ TickCrash \/ TickExits \/ TickBacksOff \/ TickGivesUp
  \/ TickDefers \/ TickStampHealthy \/ TickRecover \/ TickDegrades

Task ==
  \/ TaskNotReady \/ TaskRegress \/ TaskReserve \/ TaskRefused \/ TaskRun \/ TaskBind
  \/ TaskVerified \/ TaskUnverified \/ TaskPoint \/ TaskRepoint \/ TaskSeesDial
  \/ TaskTimesOut \/ TaskCheck \/ TaskPromote \/ TaskTail \/ TaskDisarm \/ TaskRetire
  \/ TaskUndo \/ TaskDrop \/ TaskSettle \/ TaskPop

Cancel ==
  CancelRead \/ CancelDestroy \/ CancelTail \/ CancelPoint \/ CancelPop \/ CancelEnd
  \/ CancelKill

Sweep == SweepHook \/ SweepRows \/ SweepKill

RequestStep ==
  \/ StopService \/ RestartDesires \/ RestartMarks \/ DeployReads \/ DeployChecks
  \/ RollbackReads \/ DeployWrites \/ DrainCancels

Fails == TaskRaises \/ ContainerExits \/ DaemonCrashes \/ DaemonReexecs

Next == Tick \/ Task \/ Cancel \/ Sweep \/ ProxyReconcile \/ RequestStep \/ Fails

Spec == Init /\ [][Next]_vars

\* Every coroutine of the event loop runs again and again; operators, faults and
\* the outcome of a probe owe nothing.
Fairness ==
  /\ WF_vars(Tick) /\ WF_vars(Task) /\ WF_vars(Cancel) /\ WF_vars(Sweep)
  /\ WF_vars(ProxyReconcile) /\ WF_vars(RestartMarks) /\ WF_vars(DaemonReexecs)

FairSpec == Spec /\ Fairness

---------------------------------------------------------------------------
(* Properties.                                                             *)

TickPc == {"idle", "gate", "cancel", "teardown", "deregister", "release", "stopped",
           "tail", "restore", "reap", "settle", "pop", "stamp", "arm", "mark", "spawn",
           "swap", "dead", "prepare", "refused", "blame", "schedule", "run", "started",
           "adopt", "register", "policy", "count", "live", "recover"}
TaskPc == {"none", "resolve", "regress", "run", "started", "probe", "point", "repoint",
           "await", "check", "promote", "tail", "disarm", "retire", "undo", "drop",
           "settle", "pop"}
CancelPc == {"idle", "read", "destroy", "tail", "point", "pop", "end", "kill"}

Endpoint == [host : StablePorts \cup {NoPort}, active : MaybePort]
TickMemory == [snap : Row, live : BOOLEAN, bport : MaybePort, new : MaybeCtr,
               then : {"idle", "stopped", "refused"}]
TaskMemory == [ver : Nat, blue : MaybeCtr, green : MaybeCtr, gport : MaybePort]
CancelMemory == [by : {"tick", "drain"}, greens : SUBSET Containers, snap : Row]
RequestMemory == [kind : {"deploy", "rollback"}, bv : Nat, prev : Nat, maxv : Nat,
                  marked : BOOLEAN]

\* Every variable keeps its type; a snapshot of the row is a row.
TypeOK ==
  /\ row \in Row /\ ep \in Endpoint /\ ctr \in [Containers -> Container] /\ dial \in MaybePort
  /\ tpc \in TickPc /\ tk \in TickMemory
  /\ vpc \in TaskPc /\ vt \in TaskMemory /\ greenReg \in MaybeCtr
  /\ cpc \in CancelPc /\ cx \in CancelMemory
  /\ spc \in {"idle", "rows", "kill"} /\ prot \in SUBSET Containers /\ aged \in SUBSET Containers
  /\ dpc \in {"idle", "check", "write", "restart"} /\ dq \in RequestMemory
  /\ draining \in BOOLEAN /\ left \in [requests : Nat, faults : Nat]

\* No settle, unwind, reap, cancel, retirement or sweep takes down the live
\* container the row names; only a restart's swap and a stop's teardown do.
\* (_reap_green's belt, cancel's row read, the re-reads of layer 4 and of stop.  The
\* drain's last kill is PromotedSurvivesDrain's.)
KeepsServing ==
  [][\A c \in Containers :
       c = row.cid /\ Live(c) /\ ctr'[c].st = "gone"
         => tpc \in {"swap", "teardown"} \/ (cpc = "kill" /\ cpc' = "idle")]_vars

\* Nothing acts between two ticks: no task, no cancel, no marker to settle.
Quiet == tpc = "idle" /\ ~TaskInFlight /\ cpc = "idle" /\ ~Armed(row)

\* Whenever the row is quiet, the pointer names the port its live container
\* listens on: a wrong one 502s for ever, since a degraded row is never relaunched.
PointerNamesServing ==
  Quiet /\ row.status \in {"running", "degraded"} /\ Live(row.cid)
    => LivePort = ctr[row.cid].port

\* The discriminator of _settle_crashed_cutover: a row under an armed marker of
\* its generation names blue, or a green of that generation, never anything else.
MarkerTellsTheSide ==
  Matches(row) /\ row.cid \notin {NoCtr, row.marker.blue}
    => ctr[row.cid].green /\ ctr[row.cid].gen = row.marker.ver

\* The row has been promoted and its marker not yet popped.
Committed == Matches(row) /\ row.cid \notin {NoCtr, row.marker.blue}
\* A promoted generation is neither failed nor reverted by any settle.
CommitIsFinal ==
  [][Committed /\ dpc # "write"
       => row'.bv = row.bv /\ (row'.status = "failed" => row.status = "failed")]_vars

\* f1 before f2 before f7: when blue is destroyed the route no longer dials it,
\* whatever the proxy reconcile wrote in between.
NoDialToRetired ==
  [][\A c \in Containers :
       vpc = "retire" /\ Live(c) /\ ctr'[c].st = "gone" /\ c = vt.blue
         => dial # ctr[c].port]_vars

\* A stopped row leaves no container of its own behind, even when a verify
\* promoted a green between the tick's fetch and the stop branch.
StoppedIsDown == row.status = "stopped" => ~Live(row.cid)

\* Layer 4 settles every marker of the row's generation, whatever died holding it,
\* unless the row is already settled and so out of the reconcile's sight.
CutoverSettles == Matches(row) ~> ~Matches(row) \/ ~Reconcilable(row)

\* A stop is carried out, or another operator or the settle of a failure overrides it.
StopHonoured == row.desired = "stopped" ~> row.status = "stopped" \/ row.desired # "stopped"

\* A container no row names is collected, or the row comes to name it.
OrphansCollected ==
  \A c \in Containers : Live(c) /\ c # row.cid ~> ~Live(c) \/ c = row.cid

\* In the end a service that runs is dialled where its live container listens.
RouteConverges ==
  <>[](row.status \in {"running", "degraded"} /\ Live(row.cid) => dial = ctr[row.cid].port)

---------------------------------------------------------------------------
(* Who owns what: the inductive invariant behind KeepsServing and          *)
(* StoppedIsDown.                                                          *)

Known(c) == c \in Containers => ctr[c].st # "none"
\* Every id somebody holds was handed out, so the runtime never hands it out again.
HeldIsKnown ==
  /\ Known(row.cid) /\ Known(tk.snap.cid) /\ Known(tk.new)
  /\ Known(vt.blue) /\ Known(vt.green) /\ Known(cx.snap.cid)
  /\ \A c \in cx.greens \cup prot \cup aged : Known(c)

\* Past its gate the tick is the row's only owner, and what it holds is current.
TickOwns ==
  /\ TaskInFlight => tpc \in {"idle", "gate"}
  /\ tpc \in {"restore", "reap", "teardown"} => tk.snap.cid = row.cid
  /\ tpc = "dead" \/ (tpc = "gate" /\ ~tk.live) => ~Live(tk.snap.cid)
  /\ tpc \notin {"started", "adopt", "register"} => tk.new = NoCtr

\* Past its teardown a stop has left the row nothing that lives.
StopOwns ==
  /\ tpc = "stopped" \/ (tpc \in {"deregister", "release"} /\ tk.then = "stopped")
       => ~Live(row.cid)
  /\ StoppedIsDown

\* The green between runtime.run and the commit point, and past it.
HasGreen == vpc \in {"started", "probe", "point", "repoint", "await", "check", "promote",
                     "undo", "drop"}
HasPromoted == vpc \in {"tail", "disarm", "retire"}
TaskOwns ==
  /\ vpc \in {"none", "resolve", "regress", "run"} => vt.green = NoCtr
  /\ HasGreen => vt.green \in Containers /\ vt.green \notin {row.cid, vt.blue}
  /\ HasPromoted => vt.green = row.cid /\ vt.green # vt.blue
  /\ greenReg = (IF HasPromoted \/ (HasGreen /\ vpc # "started") THEN vt.green ELSE NoCtr)

\* A cancel's greens are the dead task's: nobody can still adopt or promote them.
CancelOwns ==
  cpc \in {"read", "destroy"} =>
    /\ tk.new \notin cx.greens /\ vt.green \notin cx.greens
    /\ cpc = "destroy" /\ row.cid \in cx.greens => row.cid = cx.snap.cid

\* What the sweep will kill is neither the row's nor about to become it.
SweepOwns ==
  /\ tk.new \notin aged
  /\ HasGreen => vt.green \notin aged \ prot
  /\ spc = "kill" => row.cid \notin aged \ prot

Ownership ==
  HeldIsKnown /\ TickOwns /\ StopOwns /\ TaskOwns /\ CancelOwns /\ SweepOwns

---------------------------------------------------------------------------
(* What comments and docstrings say, and this model refutes.               *)

\* kill_transient_containers: "Promoted green survives; raw label-based kills cover
\* only candidates with no live task".
PromotedSurvivesDrain ==
  [][\A c \in Containers :
       c = row.cid /\ Live(c) /\ ctr'[c].st = "gone" => ~(cpc = "kill" /\ cpc' = "idle")]_vars

\* cancel_cutover: "Neither branch stamps the generation `failed`: an operator-initiated
\* cancel is not a verification verdict".  Yet layer 4 of a tick that finds the marker
\* of the cancelled task settles the generation as failed: it reverts build_version.
CancelIsNoVerdict ==
  [][cpc = "destroy" /\ Live(row.cid) /\ dpc # "write" => row'.bv = row.bv]_vars

\* _arm: "CAS miss - supersession, hands off".
SupersededArmIsHandsOff == [][(tpc = "arm" \/ tpc = "mark") => tpc' # "swap"]_vars

\* _settle_failed_generation: "Roll the row's config back so it matches the
\* still-running OLD container".
RowMatchesContainer ==
  Quiet /\ row.status \in {"running", "degraded"} /\ Live(row.cid)
    => ctr[row.cid].gen = row.bv
=============================================================================
