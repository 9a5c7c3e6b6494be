---------------------------- MODULE ServicePurge ----------------------------
(***************************************************************************)
(* DELETE /services/{name}?purge=data (daemon/service_purge.py) against    *)
(* everything that holds the data tree of the name: the row's container,   *)
(* its one-off runs and releases (core/services.py, core/app_build.py),    *)
(* the reconcile tick that relaunches it, another delete of the same name, *)
(* and the next row of that name.                                          *)
(*                                                                         *)
(* One name.  A row is known by its number: a row created after a delete   *)
(* gets the next one, while the tree, the credential and the tombstones    *)
(* are keyed by the name.  A credential is known by the row it was minted  *)
(* for, a tree by the row that made it and the credential it then had: a   *)
(* database never initialises a tree that has bytes in it.  The container  *)
(* of a run is known by its slot, that of a launch by its number.  The     *)
(* cutover guards of the delete are left to Cutover, the secret claims to  *)
(* SecretScope.                                                            *)
(***************************************************************************)
EXTENDS Naturals, FiniteSets

CONSTANTS
  Deleters,     \* concurrent DELETE requests
  RunSlots,     \* executions of one-off runs, each slot used once
  ReleaseSlots, \* executions of releases, each slot used once
  MaxRows,      \* rows of the name
  MaxLaunches,  \* containers the tick launches
  MaxRestarts,  \* POST /services/{name}/restart
  MaxFaults     \* Docker calls that fail

Slots == RunSlots \cup ReleaseSlots

ASSUME PurgeAssumption ==
  /\ MaxRows \in Nat \ {0} /\ MaxLaunches \in Nat /\ MaxRestarts \in Nat /\ MaxFaults \in Nat
  /\ RunSlots \cap ReleaseSlots = {}
  /\ Deleters \cap (Slots \cup Nat) = {} /\ Slots \cap Nat = {}

VARIABLES
  kind,      \* "service" or "database"
  row,       \* the jobs row of the name: id (0 when there is none), desired, ctr
  dependent, \* an app is bound to the database
  launch,    \* the launch the tick is in: the row it read, the credential, its container
  slot,      \* _active_runs: per slot the row, and how far its execution is
  up,        \* the containers that run, launches and slots
  tree,      \* the tree at the canonical path, by its maker and the credential it was made with
  trash,     \* tombstones, by the delete that made each
  cred,      \* the credential file of the name: 0, or the row it was minted for
  wlock,     \* variable_write_lock: "free", or a "create" holds it
  del,       \* the DELETE requests
  bytes,     \* history: rows whose database was initialised
  spent      \* rows, launches, restarts and faults so far

vars == <<kind, row, dependent, launch, slot, up, tree, trash, cred, wlock, del, bytes, spent>>

NoRow == [id |-> 0, desired |-> "stopped", ctr |-> 0]
NoLaunch == [job |-> 0, cred |-> 0, ctr |-> 0]
Launches == 1..MaxLaunches
Trees == [by : 0..MaxRows, cred : 0..MaxRows]
NoTree == [by |-> 0, cred |-> 0]
\* A slot that is registered has no container; a visible one is unbound still.
SlotAt == {"free", "reg", "starting", "visible", "bound", "over"}
Request ==
  [pc : {"idle", "look", "kill", "fresh", "stopping", "teardown", "tomb", "checked",
         "secrets", "data", "over", "stuck"},
   job : 0..MaxRows, force : BOOLEAN, ctr : {0} \cup Launches, failed : BOOLEAN,
   tokill : SUBSET Slots, unkilled : SUBSET Slots, unbound : BOOLEAN, tomb : BOOLEAN,
   seen : SUBSET Slots]

TypeOK ==
  /\ kind \in {"service", "database"}
  /\ row \in [id : 0..MaxRows, desired : {"running", "stopped"}, ctr : {0} \cup Launches]
  /\ dependent \in BOOLEAN
  /\ launch \in [job : 0..MaxRows, cred : 0..MaxRows, ctr : {0} \cup Launches]
  /\ slot \in [Slots -> [job : 0..MaxRows, at : SlotAt]]
  /\ up \subseteq Launches \cup Slots
  /\ tree \in Trees /\ cred \in 0..MaxRows
  /\ trash \in [Deleters -> Trees]
  /\ wlock \in {"free", "create"}
  /\ del \in [Deleters -> Request]
  /\ bytes \subseteq 1..MaxRows
  \* The lock is held from the insert of a database row to its credential.
  /\ wlock = "create" => cred # spent.rows
  \* A container of a slot is up only once the slot is past its start.
  /\ \A s \in Slots : slot[s].at \in {"free", "reg", "starting"} => s \notin up

Idle == [pc |-> "idle", job |-> 0, force |-> FALSE, ctr |-> 0, failed |-> FALSE,
         tokill |-> {}, unkilled |-> {}, unbound |-> FALSE, tomb |-> FALSE, seen |-> {}]

Init ==
  /\ kind \in {"service", "database"}
  /\ row = [id |-> 1, desired |-> "running", ctr |-> 0]
  /\ cred = IF kind = "database" THEN 1 ELSE 0
  /\ dependent = FALSE /\ launch = NoLaunch
  /\ slot = [s \in Slots |-> [job |-> 0, at |-> "free"]]
  /\ up = {} /\ tree = NoTree /\ trash = [d \in Deleters |-> NoTree] /\ wlock = "free"
  /\ del = [d \in Deleters |-> Idle]
  /\ bytes = {}
  /\ spent = [rows |-> 1, launches |-> 0, restarts |-> 0, faults |-> 0]

Spend(what) == spent' = [spent EXCEPT ![what] = @ + 1]

---------------------------------------------------------------------------
\* The tick.

\* A container that starts finds the tree of the name, or makes it; a
\* database initialises a tree only when it has no bytes.
Mounts(job, c) ==
  /\ tree' = IF tree = NoTree THEN [by |-> job, cred |-> c] ELSE tree
  /\ bytes' = IF kind = "database" /\ tree = NoTree THEN bytes \cup {job} ELSE bytes

\* _launch up to runtime.run: a database without its credential waits.
Launch ==
  /\ launch = NoLaunch /\ spent.launches < MaxLaunches
  /\ row.id # 0 /\ row.desired = "running" /\ row.ctr \notin up
  /\ kind = "database" => cred # 0
  /\ launch' = [job |-> row.id, cred |-> cred, ctr |-> 0]
  /\ UNCHANGED <<kind, row, dependent, slot, up, tree, trash, cred, wlock, del, bytes, spent>>

ContainerStarts ==
  /\ launch # NoLaunch /\ launch.ctr = 0 /\ spent.launches < MaxLaunches
  /\ launch' = [launch EXCEPT !.ctr = spent.launches + 1]
  /\ up' = up \cup {spent.launches + 1}
  /\ Mounts(launch.job, launch.cred)
  /\ Spend("launches")
  /\ UNCHANGED <<kind, row, dependent, slot, trash, cred, wlock, del>>

\* settle_started: the write finds the row, or the container is an orphan.
LaunchSettles ==
  /\ launch.ctr # 0
  /\ IF row.id = launch.job
     THEN row' = [row EXCEPT !.ctr = launch.ctr] /\ UNCHANGED up
     ELSE up' = up \ {launch.ctr} /\ UNCHANGED row
  /\ launch' = NoLaunch
  /\ UNCHANGED <<kind, dependent, slot, tree, trash, cred, wlock, del, bytes, spent>>

\* _teardown_to_stopped of the fresh row; the tick is one task, so no launch is under way.
TickStops ==
  /\ launch = NoLaunch /\ row.id # 0 /\ row.desired = "stopped" /\ row.ctr \in up
  /\ up' = up \ {row.ctr}
  /\ UNCHANGED <<kind, row, dependent, launch, slot, tree, trash, cred, wlock, del, bytes, spent>>

---------------------------------------------------------------------------
\* Runs and releases: containers without a row.

TakenBy(job) ==
  {s \in Slots : slot[s].job = job /\ slot[s].at \in {"reg", "starting", "visible", "bound"}}

\* run_once: the route resolved the row, and the slot is claimed before the
\* first await; one run per row, a release is exempt.
RegisterRun(s) ==
  /\ kind = "service" /\ s \in RunSlots /\ slot[s].at = "free" /\ row.id # 0
  /\ TakenBy(row.id) = {}
  /\ slot' = [slot EXCEPT ![s] = [job |-> row.id, at |-> "reg"]]
  /\ UNCHANGED <<kind, row, dependent, launch, up, tree, trash, cred, wlock, del, bytes, spent>>

\* _release_impl: the fresh row, then the slot.
RegisterRelease(s) ==
  /\ kind = "service" /\ s \in ReleaseSlots /\ slot[s].at = "free" /\ row.id # 0
  /\ slot' = [slot EXCEPT ![s] = [job |-> row.id, at |-> "reg"]]
  /\ UNCHANGED <<kind, row, dependent, launch, up, tree, trash, cred, wlock, del, bytes, spent>>

Over == [job |-> 0, at |-> "over"]
\* The re-read under the slot: a run refuses a row that is gone or stopped, a
\* release one that is gone (_arm_release_pending).
Proceeds(s) == slot[s].job = row.id /\ (s \in RunSlots => row.desired = "running")

Reread(s) ==
  /\ slot[s].at = "reg"
  /\ slot' = [slot EXCEPT ![s] = IF Proceeds(s) THEN [@ EXCEPT !.at = "starting"] ELSE Over]
  /\ UNCHANGED <<kind, row, dependent, launch, up, tree, trash, cred, wlock, del, bytes, spent>>

\* Docker starts it on the mounted tree before runtime.run returns its id.
RunStarts(s) ==
  /\ slot[s].at = "starting"
  /\ slot' = [slot EXCEPT ![s].at = "visible"]
  /\ up' = up \cup {s}
  /\ Mounts(slot[s].job, 0)
  /\ UNCHANGED <<kind, row, dependent, launch, trash, cred, wlock, del, spent>>

Bind(s) ==
  /\ slot[s].at = "visible"
  /\ slot' = [slot EXCEPT ![s].at = "bound"]
  /\ UNCHANGED <<kind, row, dependent, launch, up, tree, trash, cred, wlock, del, bytes, spent>>

\* The wait returns, or the kill of a delete made it return; then the container
\* is removed and the slot is freed.
RunEnds(s) ==
  /\ slot[s].at = "bound"
  /\ slot' = [slot EXCEPT ![s] = Over]
  /\ up' = up \ {s}
  /\ UNCHANGED <<kind, row, dependent, launch, tree, trash, cred, wlock, del, bytes, spent>>

---------------------------------------------------------------------------
\* Other requests.

\* POST /databases: the row, then its credential, under variable_write_lock;
\* a plain service has its row only.
Create ==
  /\ row.id = 0 /\ spent.rows < MaxRows
  /\ kind = "database" => wlock = "free"
  /\ row' = [id |-> spent.rows + 1, desired |-> "running", ctr |-> 0]
  /\ wlock' = IF kind = "database" THEN "create" ELSE wlock
  /\ Spend("rows")
  /\ UNCHANGED <<kind, dependent, launch, slot, up, tree, trash, cred, del, bytes>>

MintCredential ==
  /\ wlock = "create"
  /\ cred' = spent.rows /\ wlock' = "free"
  /\ UNCHANGED <<kind, row, dependent, launch, slot, up, tree, trash, del, bytes, spent>>

\* POST /services/{name}/restart
RestartService ==
  /\ row.id # 0 /\ spent.restarts < MaxRestarts
  /\ row' = [row EXCEPT !.desired = "running"]
  /\ Spend("restarts")
  /\ UNCHANGED <<kind, dependent, launch, slot, up, tree, trash, cred, wlock, del, bytes>>

\* An app that names the database in [db.*] is deployed.
Depend ==
  /\ kind = "database" /\ ~dependent /\ row.id # 0
  /\ dependent' = TRUE
  /\ UNCHANGED <<kind, row, launch, slot, up, tree, trash, cred, wlock, del, bytes, spent>>

---------------------------------------------------------------------------
\* DELETE.
To(d, pc) == del' = [del EXCEPT ![d].pc = pc]
\* The answer is out, and nothing of the request is left.
Ends(d) == del' = [del EXCEPT ![d] = [Idle EXCEPT !.pc = "over"]]

\* _resolve_service and the reference guard.
Resolve(d, force) ==
  /\ del[d].pc = "idle" /\ row.id # 0
  /\ ~(dependent /\ ~force)
  /\ del' = [del EXCEPT ![d] = [Idle EXCEPT !.pc = "look", !.job = row.id, !.force = force]]
  /\ UNCHANGED <<kind, row, dependent, launch, slot, up, tree, trash, cred, wlock, bytes, spent>>

BoundBy(job) == {s \in TakenBy(job) : slot[s].at = "bound"}
UnboundBy(job) == TakenBy(job) \ BoundBy(job)

\* has_active_run: an unforced delete is refused; a forced one collects the
\* bound containers, and with none to kill it asks for unbound slots at once.
Look(d) ==
  LET job == del[d].job IN
  /\ del[d].pc = "look"
  /\ IF TakenBy(job) # {} /\ ~del[d].force THEN Ends(d)
     ELSE IF BoundBy(job) # {}
     THEN del' = [del EXCEPT ![d].pc = "kill", ![d].tokill = BoundBy(job),
                             ![d].seen = BoundBy(job)]
     ELSE del' = [del EXCEPT ![d].pc = "fresh", ![d].unbound = UnboundBy(job) # {},
                             ![d].seen = UnboundBy(job)]
  /\ UNCHANGED <<kind, row, dependent, launch, slot, up, tree, trash, cred, wlock, bytes, spent>>

\* runtime.kill of one of them; a kill that raises is remembered. After the
\* last one, has_unbound_run.
Kill(d, s, fails) ==
  LET last == del[d].tokill = {s}
      unbound == IF last THEN UnboundBy(del[d].job) ELSE {} IN
  /\ del[d].pc = "kill" /\ s \in del[d].tokill
  /\ fails => s \in up /\ spent.faults < MaxFaults
  /\ up' = IF fails THEN up ELSE up \ {s}
  /\ del' = [del EXCEPT ![d].tokill = @ \ {s},
                        ![d].unkilled = IF fails THEN @ \cup {s} ELSE @,
                        ![d].pc = IF last THEN "fresh" ELSE @,
                        ![d].unbound = unbound # {},
                        ![d].seen = @ \cup unbound]
  /\ IF fails THEN Spend("faults") ELSE UNCHANGED spent
  /\ UNCHANGED <<kind, row, dependent, launch, slot, tree, trash, cred, wlock, bytes>>

\* The fresh row, whose container is the one to tear down.
ReadFresh(d) ==
  /\ del[d].pc = "fresh"
  /\ del' = [del EXCEPT ![d].pc = "stopping",
                        ![d].ctr = IF row.id = del[d].job THEN row.ctr ELSE 0]
  /\ UNCHANGED <<kind, row, dependent, launch, slot, up, tree, trash, cred, wlock, bytes, spent>>

Wants(job, desired) == IF row.id = job THEN [row EXCEPT !.desired = desired] ELSE row

SetStopped(d) ==
  /\ del[d].pc = "stopping"
  /\ row' = Wants(del[d].job, "stopped")
  /\ To(d, "teardown")
  /\ UNCHANGED <<kind, dependent, launch, slot, up, tree, trash, cred, wlock, bytes, spent>>

\* stop, kill, remove: what Docker refuses leaves the container as it is.
Teardown(d, fails) ==
  /\ del[d].pc = "teardown"
  /\ fails => del[d].ctr \in up /\ spent.faults < MaxFaults
  /\ up' = IF fails THEN up ELSE up \ {del[d].ctr}
  /\ del' = [del EXCEPT ![d].pc = IF kind = "database" THEN "tomb" ELSE "checked",
                        ![d].failed = fails]
  /\ IF fails THEN Spend("faults") ELSE UNCHANGED spent
  /\ UNCHANGED <<kind, row, dependent, launch, slot, tree, trash, cred, wlock, bytes>>

\* _no_live_writer refutes it only when the container is known to be down.
MayWrite(d) == del[d].failed /\ del[d].ctr \in up
LiveTombstone == \E e \in Deleters : trash[e] # NoTree

\* _tombstone_data: the tree moves aside; a writer that may live, or a tree
\* that is aside already, aborts the delete and wants the database back.
Tombstone(d) ==
  /\ del[d].pc = "tomb"
  /\ \/ /\ MayWrite(d) \/ (tree = NoTree /\ LiveTombstone)
        /\ row' = Wants(del[d].job, "running") /\ Ends(d)
        /\ UNCHANGED <<tree, trash>>
     \/ /\ ~MayWrite(d) /\ tree = NoTree /\ ~LiveTombstone
        /\ To(d, "checked") /\ UNCHANGED <<row, tree, trash>>
     \/ /\ ~MayWrite(d) /\ tree # NoTree
        /\ tree' = NoTree /\ trash' = [trash EXCEPT ![d] = tree]
        /\ del' = [del EXCEPT ![d].pc = "checked", ![d].tomb = TRUE]
        /\ UNCHANGED row
  /\ UNCHANGED <<kind, dependent, launch, slot, up, cred, wlock, bytes, spent>>

\* _restore_tombstone: the rename needs the path to be free.
Restores(d) == del[d].tomb => tree = NoTree
PutBack(d) ==
  IF del[d].tomb /\ Restores(d)
  THEN tree' = trash[d] /\ trash' = [trash EXCEPT ![d] = NoTree]
  ELSE UNCHANGED <<tree, trash>>

\* A delete that goes on when its row is gone already.
DeleteOfNothing(d) ==
  /\ del[d].pc = "checked" /\ wlock = "free"
  /\ IF row.id = del[d].job /\ dependent /\ ~del[d].force
     THEN PutBack(d) /\ Ends(d) /\ row' = Wants(del[d].job, "running")
     ELSE /\ row' = IF row.id = del[d].job THEN NoRow ELSE row
          /\ To(d, IF kind = "database" THEN "secrets" ELSE "data")
          /\ UNCHANGED <<tree, trash>>
  /\ UNCHANGED <<kind, dependent, launch, slot, up, cred, wlock, bytes, spent>>

\* delete_service_checked under variable_write_lock: no row (404) and fresh
\* dependents undo the tombstone; else the row is gone and the tail runs.
CheckedDelete(d) ==
  LET gone == row.id # del[d].job
      refused == ~gone /\ dependent /\ ~del[d].force IN
  /\ del[d].pc = "checked" /\ wlock = "free"
  /\ IF gone \/ refused
     THEN /\ PutBack(d)
          /\ row' = IF refused /\ Restores(d) THEN Wants(del[d].job, "running") ELSE row
          /\ IF Restores(d) THEN Ends(d) ELSE To(d, "stuck")
     ELSE /\ row' = NoRow
          /\ To(d, IF kind = "database" THEN "secrets" ELSE "data")
          /\ UNCHANGED <<tree, trash>>
  /\ UNCHANGED <<kind, dependent, launch, slot, up, cred, wlock, bytes, spent>>

\* A purge of the file whoever has the name now.
PurgeSecretsOfTheName(d) ==
  /\ del[d].pc = "secrets" /\ wlock = "free"
  /\ cred' = 0
  /\ To(d, "data")
  /\ UNCHANGED <<kind, row, dependent, launch, slot, up, tree, trash, wlock, bytes, spent>>

\* name_retaken and _purge_secrets under the same lock.
PurgeSecrets(d) ==
  /\ del[d].pc = "secrets" /\ wlock = "free"
  /\ cred' = IF row.id = 0 THEN 0 ELSE cred
  /\ To(d, "data")
  /\ UNCHANGED <<kind, row, dependent, launch, slot, up, tree, trash, wlock, bytes, spent>>

\* A tail that trusts the kills it made.
SkipsForKillsOnly(d) == MayWrite(d) \/ del[d].unkilled \cap up # {} \/ row.id # 0

\* What makes the tail leave a service's tree where it is: container_alive,
\* run_alive, run_unbound, name_retaken.
Skips(d) ==
  \/ MayWrite(d)
  \/ del[d].unkilled \cap up # {}
  \/ del[d].unbound
  \/ row.id # 0

\* _purge_data (the probe of the name and the rmtree are one step) or
\* _reap_tombstone.
PurgeData(d) ==
  /\ del[d].pc = "data"
  /\ Ends(d)
  /\ IF kind = "database"
     THEN trash' = [trash EXCEPT ![d] = NoTree] /\ UNCHANGED tree
     ELSE tree' = (IF Skips(d) THEN tree ELSE NoTree) /\ UNCHANGED trash
  /\ UNCHANGED <<kind, row, dependent, launch, slot, up, cred, wlock, bytes, spent>>

---------------------------------------------------------------------------
Delete(d) ==
  \/ \E force \in BOOLEAN : Resolve(d, force)
  \/ Look(d)
  \/ \E s \in Slots, fails \in BOOLEAN : Kill(d, s, fails)
  \/ ReadFresh(d)
  \/ SetStopped(d)
  \/ \E fails \in BOOLEAN : Teardown(d, fails)
  \/ Tombstone(d)
  \/ CheckedDelete(d)
  \/ PurgeSecrets(d)
  \/ PurgeData(d)

Next ==
  \/ Launch \/ ContainerStarts \/ LaunchSettles \/ TickStops
  \/ \E s \in Slots : RegisterRun(s) \/ RegisterRelease(s) \/ Reread(s) \/ RunStarts(s) \/ Bind(s)
                        \/ RunEnds(s)
  \/ Create \/ MintCredential \/ RestartService \/ Depend
  \/ \E d \in Deleters : Delete(d)

Spec == Init /\ [][Next]_vars

---------------------------------------------------------------------------
\* What the deletes promise.

Removes(d) == del[d].pc = "data" /\ del'[d].pc = "over" /\ tree # NoTree /\ tree' = NoTree
\* The container of a slot runs, or Docker is about to start it.
Writes(s) == s \in up \/ slot[s].at = "starting"

\* A run or release the delete saw does not write to the tree it removes: the
\* delete killed it, or could not, or saw it before it had a container.
KnownRunsAreDown == [][\A d \in Deleters : Removes(d) => \A s \in del[d].seen : ~Writes(s)]_vars

\* A delete that lost its row takes nothing by name from the row that has it
\* now: neither the credential of a database nor the tree of a service.
LiveRowKeepsItsOwn ==
  [][row.id # 0 /\ row'.id = row.id =>
       /\ cred = row.id => cred' = cred
       /\ kind = "service" /\ tree # NoTree => tree' # NoTree]_vars

\* While a database has its row, its bytes are at the path or in a tombstone,
\* whatever deletes are refused, aborted, raced or stuck.
BytesKept == row.id \in bytes => row.id = tree.by \/ \E d \in Deleters : trash[d].by = row.id

---------------------------------------------------------------------------
(* What a comment says, and this model refutes.                          *)

\* "a delete underneath either is a torn teardown" (service_purge.py:743): no
\* run or release writes to a tree that is removed.
NoRunUnderThePurge == [][\A d \in Deleters : Removes(d) => \A s \in Slots : ~Writes(s)]_vars

\* A database is started with the credential its data was initialised with:
\* "surviving data paired with a freshly minted password would be unusable".
OpensItsData ==
  [][kind = "database" /\ launch.ctr = 0 /\ launch'.ctr # 0 => tree'.cred = launch'.cred]_vars
=============================================================================
