---------------------------- MODULE Idempotency ----------------------------
(***************************************************************************)
(* The idempotency middleware (daemon/idempotency.py) and its table        *)
(* (db/queries/idempotency.py), for the requests that one principal sends  *)
(* with one Idempotency-Key: the first sending and its retries, which may  *)
(* overlap.  An action is the code between two awaits; a statement on the  *)
(* table is one step.  A request is cancelled when its client goes away    *)
(* while a drain shuts down; the daemon may die and come back.  Requests   *)
(* without a key, dry runs and exempt paths never reach this code.         *)
(***************************************************************************)
EXTENDS Naturals

CONSTANTS
  Requests,     \* the sendings that carry the key
  None,         \* no request
  MaxEffects,   \* durable effects of one execution
  MaxCrashes,   \* how often the daemon dies
  MaxFailures   \* how many statements of the clean-up raise

ASSUME ValueAssumption == None \notin Requests
ASSUME BoundAssumption == MaxEffects \in Nat /\ MaxCrashes \in Nat /\ MaxFailures \in Nat

VARIABLES
  record,   \* the row of the key
  pc,       \* where each request is
  claimed,  \* whether it runs under a claim of its own
  marker,   \* RequestWriteMarker.committed of its context
  flight,   \* the effect it has under way
  landed,   \* history: how many of its effects are durable
  fate,     \* history: how its execution ended, since the key was last forgotten
  told,     \* history: whose stored answer it was given
  left      \* crashes and clean-up failures left

vars == <<record, pc, claimed, marker, flight, landed, fate, told, left>>

State == {"in_progress", "completed", "interrupted"}
NoRecord == [state |-> "none", by |-> None, expired |-> FALSE]

\* The statement that inserts the claim, the handler, and what follows its end.
Executing == {"run", "settle", "cancelled"}
Place == {"claim", "read", "done"} \cup Executing

\* by: the request whose claim the row is (it stands for the columns copied from it).
TypeOK ==
  /\ record \in [state : State \cup {"none"}, by : Requests \cup {None}, expired : BOOLEAN]
  /\ record.state = "none" <=> record = NoRecord
  /\ record # NoRecord => record.by \in Requests
  /\ pc \in [Requests -> Place]
  /\ claimed \in [Requests -> BOOLEAN] /\ marker \in [Requests -> BOOLEAN]
  /\ flight \in [Requests -> {"none", "submitted", "durable"}]
  /\ landed \in [Requests -> 0 .. MaxEffects]
  /\ fate \in [Requests -> {"none", "ok", "failed", "cancelled", "crashed", "past"}]
  /\ told \in [Requests -> Requests \cup {None}]
  /\ left \in [crashes : 0 .. MaxCrashes, failures : 0 .. MaxFailures]

Init ==
  /\ record = NoRecord
  /\ pc = [r \in Requests |-> "claim"]
  /\ claimed = [r \in Requests |-> FALSE] /\ marker = [r \in Requests |-> FALSE]
  /\ flight = [r \in Requests |-> "none"] /\ landed = [r \in Requests |-> 0]
  /\ fate = [r \in Requests |-> "none"]
  /\ told = [r \in Requests |-> None]
  /\ left = [crashes |-> MaxCrashes, failures |-> MaxFailures]

Goto(r, p) == pc' = [pc EXCEPT ![r] = p]
\* The request is over, and its write marker with it.
Done(r) == Goto(r, "done") /\ marker' = [marker EXCEPT ![r] = FALSE]
Effects == <<flight, landed>>

---------------------------------------------------------------------------
(* The claim.                                                              *)

Fresh(r) == [state |-> "in_progress", by |-> r, expired |-> FALSE]

\* The row that refuses a claim: an expired one is deleted in the same transaction.
Blocks == record # NoRecord /\ ~record.expired

\* insert_idempotency_inprogress: one BEGIN IMMEDIATE transaction.
InsertInProgress(r) ==
  /\ pc[r] = "claim"
  /\ IF Blocks
       THEN Goto(r, "read") /\ UNCHANGED <<record, claimed>>
       ELSE /\ record' = Fresh(r)
            /\ claimed' = [claimed EXCEPT ![r] = TRUE]
            /\ Goto(r, "run")
  /\ UNCHANGED <<marker, Effects, fate, told, left>>

\* The claim raises and is rolled back, or the request is cancelled in it: then
\* the statements it had queued may still be executed.
InsertAborted(r) ==
  /\ pc[r] = "claim"
  /\ Done(r)
  /\ record' \in {record} \cup (IF Blocks THEN {} ELSE {Fresh(r)})
  /\ UNCHANGED <<claimed, Effects, fate, told, left>>

\* _replay: the stored answer of the execution that the row is of.
Replay(r) ==
  /\ record.state = "completed"
  /\ told' = [told EXCEPT ![r] = record.by]

\* A request for another method or path, or with another body digest, is refused;
\* so is one whose key is in progress or interrupted.
Refuse(r) == UNCHANGED told

\* The claim was refused and the row is read in a second statement.  A row that is
\* gone by then lets the request run without a claim.
ReadRecord(r) ==
  /\ pc[r] = "read"
  /\ IF record = NoRecord
       THEN Goto(r, "run") /\ UNCHANGED <<marker, told>>
       ELSE Done(r) /\ (Replay(r) \/ Refuse(r))
  /\ UNCHANGED <<record, claimed, Effects, fate, left>>

---------------------------------------------------------------------------
(* The handler, which the middleware knows only by its effects.            *)

InHandler(r) == pc[r] = "run"
Mark(r) == marker' = [marker EXCEPT ![r] = claimed[r] \/ @]   \* no marker without a claim
ButEffects == <<record, claimed, fate, told, left>>

\* A @_serialized writer submits its statements to the database thread.
SubmitWrite(r) ==
  /\ InHandler(r) /\ flight[r] = "none" /\ landed[r] < MaxEffects
  /\ flight' = [flight EXCEPT ![r] = "submitted"]
  /\ UNCHANGED <<pc, marker, landed, ButEffects>>

\* mark_request_side_effect, then the worker thread of a non-database effect.
StartSideEffect(r) ==
  /\ InHandler(r) /\ flight[r] = "none" /\ landed[r] < MaxEffects
  /\ Mark(r)
  /\ flight' = [flight EXCEPT ![r] = "submitted"]
  /\ UNCHANGED <<pc, landed, ButEffects>>

\* The thread does it, whether or not the coroutine still waits.
EffectLands(r) ==
  /\ flight[r] = "submitted"
  /\ landed' = [landed EXCEPT ![r] = @ + 1]
  /\ flight' = [flight EXCEPT ![r] = IF pc[r] = "run" THEN "durable" ELSE "none"]
  /\ UNCHANGED <<pc, marker, ButEffects>>

\* The thread finds the statements rolled back, or fails.
EffectFails(r) ==
  /\ flight[r] = "submitted"
  /\ flight' = [flight EXCEPT ![r] = "none"]
  /\ UNCHANGED <<pc, marker, landed, ButEffects>>

\* _serialized marks the request when its method returned.
WriteReturns(r) ==
  /\ InHandler(r) /\ flight[r] = "durable"
  /\ Mark(r)
  /\ flight' = [flight EXCEPT ![r] = "none"]
  /\ UNCHANGED <<pc, landed, ButEffects>>

\* The handler answers 2xx or something else, or raises.
HandlerEnds(r) ==
  /\ InHandler(r) /\ flight[r] = "none"
  /\ \E f \in {"ok", "failed"} : fate' = [fate EXCEPT ![r] = f]
  /\ IF claimed[r] THEN Goto(r, "settle") /\ UNCHANGED marker ELSE Done(r)
  /\ UNCHANGED <<record, claimed, Effects, told, left>>

\* (mutant) A cancelled write is taken to be rolled back.
MarkedIfReturned(r) == UNCHANGED marker

\* A write marks the request when the cancellation hits it: what it submitted
\* may land yet.
MarkedByCancel(r) ==
  IF flight[r] = "none" THEN UNCHANGED marker ELSE Mark(r)

\* The request is cancelled, in a write or between two.
Cancel(r) ==
  /\ InHandler(r)
  /\ fate' = [fate EXCEPT ![r] = "cancelled"]
  /\ flight' = [flight EXCEPT ![r] = IF @ = "durable" THEN "none" ELSE @]
  /\ IF claimed[r] THEN Goto(r, "cancelled") /\ MarkedByCancel(r) ELSE Done(r)
  /\ UNCHANGED <<record, claimed, landed, told, left>>

---------------------------------------------------------------------------
(* What the middleware makes of the end.  Each is one detached task, which *)
(* no cancellation reaches.                                                *)

\* The statement runs, or it raises and the error is only logged.
Attempt(new) ==
  \/ record' = new /\ UNCHANGED left
  \/ left.failures > 0 /\ left' = [left EXCEPT !.failures = @ - 1] /\ UNCHANGED record

\* complete_idempotency_record: by key, whatever the state.
Completed == IF record = NoRecord THEN record ELSE [record EXCEPT !.state = "completed"]

\* mark_idempotency_interrupted: only a claim in progress.
Interrupted ==
  IF record.state = "in_progress" THEN [record EXCEPT !.state = "interrupted"] ELSE record

\* _settle pins a 2xx answer and gives the key back for any other; so does the
\* handler's exception, whatever it wrote.  The caller may be gone by then.
Settle(r) ==
  /\ pc[r] = "settle"
  /\ Attempt(IF fate[r] = "ok" THEN Completed ELSE NoRecord)
  /\ Done(r)
  /\ UNCHANGED <<claimed, Effects, fate, told>>

\* A cancelled request keeps its key if it wrote.
AfterCancel(r) == IF marker[r] THEN Interrupted ELSE NoRecord

CleanUpCancelled(r) ==
  /\ pc[r] = "cancelled"
  /\ Attempt(AfterCancel(r))
  /\ Done(r)
  /\ UNCHANGED <<claimed, Effects, fate, told>>

---------------------------------------------------------------------------
(* Time, the sweep and the daemon's death.                                 *)

\* 24 hours are over.  No execution takes that long, so that none is under way.
\* The histories begin anew.
Expire ==
  /\ record # NoRecord /\ ~record.expired
  /\ \A r \in Requests : pc[r] \notin Executing /\ flight[r] = "none"
  /\ record' = [record EXCEPT !.expired = TRUE]
  /\ fate' = [r \in Requests |-> IF pc[r] = "done" THEN "past" ELSE "none"]
  /\ landed' = [r \in Requests |-> 0]
  /\ told' = [r \in Requests |-> None]
  /\ UNCHANGED <<pc, claimed, marker, flight, left>>

\* (mutant) The sweep only removes what ended.
SweptIfEnded == record.expired /\ record.state = "completed"

Swept == record.expired

\* sweep_expired_idempotency
Sweep ==
  /\ record # NoRecord /\ Swept
  /\ record' = NoRecord
  /\ UNCHANGED <<pc, claimed, marker, Effects, fate, told, left>>

\* The table survives; what a thread was about to do may have been done.
DaemonDies ==
  /\ left.crashes > 0 /\ left' = [left EXCEPT !.crashes = @ - 1]
  /\ \E done \in SUBSET {r \in Requests : flight[r] = "submitted"} :
       landed' = [r \in Requests |-> landed[r] + (IF r \in done THEN 1 ELSE 0)]
  /\ flight' = [r \in Requests |-> "none"]
  /\ fate' = [r \in Requests |-> IF pc[r] = "run" THEN "crashed" ELSE fate[r]]
  /\ pc' = [r \in Requests |-> IF pc[r] = "claim" THEN "claim" ELSE "done"]
  /\ marker' = [r \in Requests |-> FALSE]
  /\ UNCHANGED <<record, claimed, told>>

Step(r) ==
  \/ InsertInProgress(r) \/ InsertAborted(r) \/ ReadRecord(r)
  \/ SubmitWrite(r) \/ StartSideEffect(r) \/ EffectLands(r) \/ EffectFails(r)
  \/ WriteReturns(r) \/ HandlerEnds(r) \/ Cancel(r)
  \/ Settle(r) \/ CleanUpCancelled(r)

Next == (\E r \in Requests : Step(r)) \/ Expire \/ Sweep \/ DaemonDies

Spec == Init /\ [][Next]_vars

\* The event loop runs what can run, threads finish, time passes and the sweep is
\* periodic; a handler that goes on working comes to its end.
FairSpec ==
  /\ Spec
  /\ \A r \in Requests : WF_vars(Step(r)) /\ SF_vars(HandlerEnds(r))
  /\ WF_vars(Expire) /\ WF_vars(Sweep)

---------------------------------------------------------------------------
(* Properties.                                                             *)

\* The middleware implements OncePerKey for the executions that hold a claim: the key
\* goes back only if its execution failed or nothing of it landed or will land, and a
\* replay repeats the answer of the execution that the key stands for.
Current(r) == claimed[r] /\ fate[r] # "past"
Holder == IF record.expired THEN None ELSE record.by
Verdict ==
  IF record.state = "none" \/ record.expired THEN "free"
  ELSE CASE record.state = "in_progress" -> "held"
         [] record.state = "completed" -> "kept"
         [] record.state = "interrupted" -> "unknown"
Acted == {r \in Requests : Current(r) /\ landed[r] > 0}
Failed == {r \in Requests : claimed[r] /\ fate[r] = "failed" /\ record.by # r}
Told == [r \in Requests |-> IF told[r] # None /\ fate[told[r]] # "past" THEN told[r] ELSE None]

Once == INSTANCE OncePerKey WITH
  holder <- Holder, verdict <- Verdict, acted <- Acted, failed <- Failed, told <- Told
ImplementsOncePerKey == Once!Spec

\* No key stays taken for ever, even one whose claim a crash or a failed clean-up left
\* in progress (idempotency.py:384).
KeyComesFree == (record # NoRecord) ~> (record = NoRecord)

---------------------------------------------------------------------------
(* What the README says, and this model refutes.                           *)

\* README.md:132: "Every write is **idempotent**, so a retry never runs an action twice".
\* Of a request whose claim and record were swept in between, it is not true.
TookEffect(r) ==
  fate[r] = "ok" \/ (fate[r] \in {"cancelled", "crashed"} /\ landed[r] > 0)
RunsOnce == \A r, q \in Requests : TookEffect(r) /\ TookEffect(q) => r = q
===========================================================================
