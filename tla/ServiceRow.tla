----------------------------- MODULE ServiceRow -----------------------------
(***************************************************************************)
(* The persisted row of one service as the cutover needs it: the fields of *)
(* a generation, and                                                       *)
(*   cid     container_id                                                  *)
(*   maxv    max_version, the allocator of versions                        *)
(*   marker  cutover_pending = {version, blue, blue_port}                  *)
(* with the SQL statements on them (db/queries/service_config.py).         *)
(***************************************************************************)
EXTENDS Generations

CONSTANTS
  Containers,   \* container ids the runtime may hand out, each at most once
  StablePorts,  \* the [services] port range of stable reservations
  EphPorts,     \* ports the operating system hands out to cutover candidates
  NoCtr,        \* NULL container_id
  NoPort        \* NULL port

ASSUME ValueAssumption ==
  /\ NoCtr \notin Containers
  /\ NoPort \notin StablePorts \cup EphPorts
  /\ StablePorts \cap EphPorts = {}

Ports == StablePorts \cup EphPorts
MaybeCtr == Containers \cup {NoCtr}
MaybePort == Ports \cup {NoPort}

\* Version 0 stands for the absent key.
Marker == [ver : Nat, blue : MaybeCtr, bport : MaybePort]
NoMarker == [ver |-> 0, blue |-> NoCtr, bport |-> NoPort]

Row == [status : Status, desired : Desired, cid : MaybeCtr, bv : Nat, prev : Nat,
        maxv : Nat, marker : Marker]

Armed(r) == r.marker.ver # 0
\* The marker belongs to the generation that owns the row.
Matches(r) == Armed(r) /\ r.marker.ver = r.bv

---------------------------------------------------------------------------
\* patch_job_config({"cutover_pending": ...}, expect_build_version = m.ver)
MarkerArmed(r, m) == IF r.bv = m.ver THEN [r EXCEPT !.marker = m] ELSE r

\* _pop_marker: only the caller's own marker goes; a newer generation's stays.
\* Its read and its compare-and-swap are one step: a write landing between them
\* mints a build_version, misses the swap, and has dropped the marker itself.
MarkerPopped(r, ver) ==
  IF Armed(r) /\ r.marker.ver = ver THEN [r EXCEPT !.marker = NoMarker] ELSE r

\* update_service_config_guarded: the allocator and the presence of a marker
\* must be what the caller read.
DeployAllowed(r, q) == r.maxv = q.maxv /\ Armed(r) = q.marked

\* The rewrite of write_redeploy and of the rollback route, from the blob the
\* caller read: generation ver takes the row, the marker is dropped.
Redeployed(r, ver, q) ==
  [r EXCEPT !.status = "restarting", !.desired = "running",
            !.bv = ver, !.prev = q.bv, !.marker = NoMarker,
            !.maxv = IF ver > q.maxv THEN ver ELSE q.maxv]
=============================================================================
