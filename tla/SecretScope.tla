----------------------------- MODULE SecretScope -----------------------------
(***************************************************************************)
(* Who may put values where a service of some name will read them          *)
(* (daemon/secret_scope.py, db/queries/secret_claims.py, the insert of     *)
(* db/queries/workloads.py, the secrets tail of daemon/service_purge.py).  *)
(*                                                                         *)
(* One name.  Its secrets live in one file, keyed by the name and injected *)
(* into whatever row has the name at launch.  A name without a row is      *)
(* reserved by a claim, and by the project that outlives its rows.  The    *)
(* file is known by the tokens whose values are in it.  Writers, deletes   *)
(* and purges of the file run under variable_write_lock; deploys and       *)
(* POST /projects do not take it.                                          *)
(***************************************************************************)
EXTENDS Naturals, FiniteSets

CONSTANTS
  Tokens,   \* submitter tokens
  Admin,    \* the admin's token
  Nobody,
  Requests, \* writes and deletes in flight
  MaxWork   \* bound on requests and deploys

Principals == Tokens \cup {Admin}

ASSUME ScopeAssumption ==
  /\ Admin \notin Tokens /\ Nobody \notin Principals \cup Requests
  /\ MaxWork \in Nat

VARIABLES
  row,     \* owner and number of the name's jobs row; Nobody when there is none
  claim,   \* secret_claims: the claimant
  project, \* projects: the owner
  file,    \* the tokens whose values the file holds; {} when it is absent
  wlock,   \* variable_write_lock: Nobody, or the request that holds it
  req,     \* requests
  work     \* requests and deploys so far

vars == <<row, claim, project, file, wlock, req, work>>

NoRow == [own |-> Nobody, id |-> 0]
HasRow == row # NoRow
Held == Principals \cup {Nobody}

\* A write: row, claim, exists, mint, write. DELETE of the scope: judge, drop,
\* release. DELETE of the service: commit, tail, purge, release.
Places == {"idle", "row", "claim", "exists", "mint", "landed", "write",
           "judge", "drop", "release", "commit", "tail", "purge", "unclaim"}

TypeOK ==
  /\ row \in [own : Held, id : 0..MaxWork]
  /\ claim \in Held /\ project \in Held
  /\ file \subseteq Principals
  /\ wlock \in Requests \cup {Nobody}
  /\ req \in [Requests -> [pc : Places, who : Held, id : 0..MaxWork, own : Held,
                           reclaimed : BOOLEAN]]
  /\ work \in 0..MaxWork
  /\ \A r \in Requests : req[r].pc # "idle" => req[r].who \in Principals
  \* A claim stands for a name without a row.
  /\ HasRow => claim = Nobody
  \* Whoever holds the lock is in its section, and nobody else is.
  /\ \A r \in Requests :
       (wlock = r) <=> req[r].pc \in Places \ {"idle", "commit", "tail"}

Idle == [pc |-> "idle", who |-> Nobody, id |-> 0, own |-> Nobody, reclaimed |-> FALSE]

Init ==
  /\ row = NoRow /\ claim = Nobody /\ project = Nobody /\ file = {} /\ wlock = Nobody
  /\ req = [r \in Requests |-> Idle] /\ work = 0

\* _owns, or the admin.
MayActFor(t, owner) == t = Admin \/ t = owner
\* A project of the name that a non-admin does not own.
Foreign(t) == t # Admin /\ project \notin {t, Nobody}

To(r, pc) == req' = [req EXCEPT ![r].pc = pc]
\* The request is answered and leaves the section.
Leaves(r) == req' = [req EXCEPT ![r] = Idle] /\ wlock' = Nobody
Enter(r, rec) ==
  /\ req[r].pc = "idle" /\ wlock = Nobody /\ work < MaxWork
  /\ req' = [req EXCEPT ![r] = rec] /\ wlock' = r /\ work' = work + 1

---------------------------------------------------------------------------

\* reserve_service_for_token: one transaction judges the claim and the
\* project, consumes the claim and, for kind=service, stamps the project; a
\* model's row joins none.
Deploy(t, stamps) ==
  /\ work < MaxWork
  /\ ~HasRow
  /\ claim # Nobody => MayActFor(t, claim)
  /\ ~Foreign(t)
  /\ row' = [own |-> t, id |-> work + 1]
  /\ claim' = Nobody
  /\ project' = IF stamps /\ project = Nobody THEN t ELSE project
  /\ work' = work + 1
  /\ UNCHANGED <<file, wlock, req>>

\* POST /projects: create_project.
CreateProject(t) ==
  /\ work < MaxWork /\ project = Nobody
  /\ t # Admin => claim \in {t, Nobody} /\ row.own \in {t, Nobody}
  /\ project' = t
  /\ work' = work + 1
  /\ UNCHANGED <<row, claim, file, wlock, req>>

\* delete_project_checked, under the lock as one step: no row is left.
DeleteProject(t) ==
  /\ work < MaxWork /\ wlock = Nobody
  /\ project # Nobody /\ MayActFor(t, project) /\ ~HasRow
  /\ project' = Nobody
  /\ work' = work + 1
  /\ UNCHANGED <<row, claim, file, wlock, req>>

---------------------------------------------------------------------------
\* POST /secrets/{name}: set_secret_values and authorize_secret_scope.
SetSecrets(r, t) ==
  /\ Enter(r, [Idle EXCEPT !.pc = "row", !.who = t])
  /\ UNCHANGED <<row, claim, project, file>>

JudgeRow(r) ==
  /\ req[r].pc = "row"
  /\ \/ ~HasRow /\ To(r, "claim") /\ UNCHANGED wlock
     \/ HasRow /\ MayActFor(req[r].who, row.own) /\ To(r, "write") /\ UNCHANGED wlock
     \/ HasRow /\ ~MayActFor(req[r].who, row.own) /\ Leaves(r)
  /\ UNCHANGED <<row, claim, project, file, work>>

JudgeClaim(r) ==
  /\ req[r].pc = "claim"
  /\ \/ claim = Nobody /\ To(r, "exists") /\ UNCHANGED wlock
     \/ claim # Nobody /\ MayActFor(req[r].who, claim) /\ To(r, "write") /\ UNCHANGED wlock
     \/ claim # Nobody /\ ~MayActFor(req[r].who, claim) /\ Leaves(r)
  /\ UNCHANGED <<row, claim, project, file, work>>

\* A file without an owner is not for a submitter to adopt.
JudgeFile(r) ==
  /\ req[r].pc = "exists"
  /\ To(r, IF req[r].who # Admin /\ file # {} THEN "landed" ELSE "mint")
  /\ UNCHANGED <<row, claim, project, file, wlock, work>>

\* A mint without the predicate on jobs.
MintOverRow(r) ==
  LET won == claim = Nobody /\ ~Foreign(req[r].who) IN
  /\ req[r].pc = "mint"
  /\ claim' = IF won THEN req[r].who ELSE claim
  /\ To(r, IF won \/ req[r].who = Admin THEN "write" ELSE "landed")
  /\ UNCHANGED <<row, project, file, wlock, work>>

\* mint_secret_claim: no claim, no row, no foreign project, in one statement;
\* an admin writes with or without it.
Mint(r) ==
  LET won == claim = Nobody /\ ~HasRow /\ ~Foreign(req[r].who) IN
  /\ req[r].pc = "mint"
  /\ claim' = IF won THEN req[r].who ELSE claim
  /\ To(r, IF won \/ req[r].who = Admin THEN "write" ELSE "landed")
  /\ UNCHANGED <<row, project, file, wlock, work>>

\* _landed_is_callers: what landed meanwhile may be the caller's own.
Landed(r) ==
  LET t == req[r].who IN
  /\ req[r].pc = "landed"
  /\ IF row.own = t \/ (~HasRow /\ ~Foreign(t) /\ claim = t)
     THEN To(r, "write") /\ UNCHANGED wlock
     ELSE Leaves(r)
  /\ UNCHANGED <<row, claim, project, file, work>>

Write(r) ==
  /\ req[r].pc = "write"
  /\ file' = file \cup {req[r].who}
  /\ Leaves(r)
  /\ UNCHANGED <<row, claim, project, work>>

---------------------------------------------------------------------------
\* DELETE /secrets/{name}: the verdict, the file, the claim, in one section.
DeleteSecrets(r, t) ==
  /\ Enter(r, [Idle EXCEPT !.pc = "judge", !.who = t])
  /\ UNCHANGED <<row, claim, project, file>>

Judge(r) ==
  LET owner == IF HasRow THEN row.own ELSE claim IN
  /\ req[r].pc = "judge"
  /\ IF MayActFor(req[r].who, owner) THEN To(r, "drop") /\ UNCHANGED wlock ELSE Leaves(r)
  /\ UNCHANGED <<row, claim, project, file, work>>

Drop(r) ==
  /\ req[r].pc = "drop"
  /\ file' = {}
  /\ To(r, "release")
  /\ UNCHANGED <<row, claim, project, wlock, work>>

ReleaseClaim(r) ==
  /\ req[r].pc \in {"release", "unclaim"}
  /\ claim' = Nobody
  /\ Leaves(r)
  /\ UNCHANGED <<row, project, file, work>>

---------------------------------------------------------------------------
\* DELETE /services/{name}: the request knows its row by id.
DeleteService(r, t) ==
  /\ req[r].pc = "idle" /\ work < MaxWork
  /\ HasRow /\ MayActFor(t, row.own)
  /\ req' = [req EXCEPT ![r] = [Idle EXCEPT !.pc = "commit", !.who = t, !.id = row.id,
                                            !.own = row.own]]
  /\ work' = work + 1
  /\ UNCHANGED <<row, claim, project, file, wlock>>

\* The probe of the file and delete_service_checked, under the lock: a file
\* that is there is claimed for the row's owner by the same transaction.
Commit(r) ==
  /\ req[r].pc = "commit" /\ wlock = Nobody
  /\ IF row.id # req[r].id
     THEN req' = [req EXCEPT ![r] = Idle] /\ UNCHANGED <<row, claim>>
     ELSE /\ row' = NoRow
          /\ claim' = IF file # {} THEN row.own ELSE claim
          /\ req' = [req EXCEPT ![r].pc = "tail", ![r].reclaimed = file # {}]
  /\ UNCHANGED <<project, file, wlock, work>>

\* ?purge does not name secrets.
KeepSecrets(r) ==
  /\ req[r].pc = "tail"
  /\ req' = [req EXCEPT ![r] = Idle]
  /\ UNCHANGED <<row, claim, project, file, wlock, work>>

\* A probe that asks for a row only.
RetakenByRow(r) == HasRow

\* name_retaken: a row, or a claim that is not the one this delete made.
Retaken(r) == HasRow \/ claim \notin IF req[r].reclaimed THEN {req[r].own, Nobody} ELSE {Nobody}

Tail(r) ==
  /\ req[r].pc = "tail" /\ wlock = Nobody
  /\ IF Retaken(r) THEN req' = [req EXCEPT ![r] = Idle] /\ UNCHANGED wlock
                   ELSE To(r, "purge") /\ wlock' = r
  /\ UNCHANGED <<row, claim, project, file, work>>

\* A tail that gives the name back though the file is still there.
PurgeUnclaims(r, fails) ==
  /\ req[r].pc = "purge"
  /\ file' = IF fails THEN file ELSE {}
  /\ IF req[r].reclaimed THEN To(r, "unclaim") /\ UNCHANGED wlock ELSE Leaves(r)
  /\ UNCHANGED <<row, claim, project, work>>

\* _purge_secrets; the claim goes only once the file is gone.
Purge(r, fails) ==
  /\ req[r].pc = "purge"
  /\ file' = IF fails THEN file ELSE {}
  /\ IF fails \/ ~req[r].reclaimed THEN Leaves(r) ELSE To(r, "unclaim") /\ UNCHANGED wlock
  /\ UNCHANGED <<row, claim, project, work>>

---------------------------------------------------------------------------
Step(r) ==
  \/ \E t \in Principals : SetSecrets(r, t) \/ DeleteSecrets(r, t) \/ DeleteService(r, t)
  \/ JudgeRow(r) \/ JudgeClaim(r) \/ JudgeFile(r) \/ Mint(r) \/ Landed(r) \/ Write(r)
  \/ Judge(r) \/ Drop(r) \/ ReleaseClaim(r)
  \/ Commit(r) \/ KeepSecrets(r) \/ Tail(r) \/ (\E fails \in BOOLEAN : Purge(r, fails))

Next ==
  \/ \E r \in Requests : Step(r)
  \/ \E t \in Principals :
       \/ \E stamps \in BOOLEAN : Deploy(t, stamps)
       \/ CreateProject(t)
       \/ DeleteProject(t)

Spec == Init /\ [][Next]_vars

---------------------------------------------------------------------------
\* A submitter's row is launched with values of its own owner or of the admin, and
\* of nobody else ("a stranger's fresh deploy of the same name would launch with
\* the old owner's values injected", service_purge.py:462).  Nothing is said of a row
\* of the admin's, who may read every value and may take over any name.
ValuesAreTheOwners == HasRow /\ row.own # Admin => file \subseteq {row.own, Admin}

\* A file never lies around for whoever comes next: its name has a row or a claim.
FileIsReserved == file # {} => HasRow \/ claim # Nobody

\* The tail of a delete purges by name, and takes nothing that was written for
\* another owner since.
PurgeTakesItsOwn ==
  [][\A r \in Requests :
       req[r].pc = "purge" /\ file' # file /\ req[r].own # Admin
         => file \subseteq {req[r].own, Admin}]_vars
=============================================================================
