------------------------- MODULE Idempotency_proofs -------------------------
(***************************************************************************)
(* What TLAPS proves of Idempotency, for any number of requests, effects,  *)
(* crashes and failures: its type invariant, and that it implements        *)
(* OncePerKey.                                                             *)
(***************************************************************************)
EXTENDS Idempotency, TLAPS

---------------------------------------------------------------------------
(* The inductive invariant.                                                *)

\* A request that has not been let through has done nothing, and one that has
\* was claimed for if anything is left to do for it at its end.
PlaceOK(r) ==
  /\ pc[r] \in {"claim", "read"} =>
       /\ ~claimed[r] /\ flight[r] = "none" /\ landed[r] = 0 /\ fate[r] = "none"
       /\ told[r] = None
  /\ pc[r] \in {"settle", "cancelled"} => claimed[r]
  /\ pc[r] = "settle" => flight[r] = "none" /\ fate[r] \in {"ok", "failed"}
  /\ pc[r] = "cancelled" => fate[r] = "cancelled"
  /\ fate[r] = "past" => pc[r] = "done" /\ flight[r] = "none"
  /\ flight[r] = "submitted" => landed[r] < MaxEffects

\* The key is its owner's while it runs and while anything of it may still land.
KeyIsHeld(r) ==
  claimed[r] =>
    /\ pc[r] \in Executing => record = Fresh(r)
    /\ flight[r] # "none" =>
         record.by = r /\ ~record.expired /\ record.state \in {"in_progress", "interrupted"}

\* Whatever landed is marked by the time the request is cancelled.
EffectIsMarked(r) ==
  /\ claimed[r] /\ pc[r] = "run" /\ landed[r] > 0 => marker[r] \/ flight[r] = "durable"
  /\ pc[r] = "cancelled" /\ (landed[r] > 0 \/ flight[r] # "none") => marker[r]

\* The row is of a request that was let through, since the key was last forgotten
\* unless it is to be forgotten itself.
RecordIsCurrent ==
  record # NoRecord =>
    /\ pc[record.by] \notin {"claim", "read"}
    /\ record.expired <=> fate[record.by] = "past"

RequestOK(r) == PlaceOK(r) /\ KeyIsHeld(r) /\ EffectIsMarked(r)
IInv == TypeOK /\ RecordIsCurrent /\ \A r \in Requests : RequestOK(r)

USE ValueAssumption, BoundAssumption DEF State, Executing, Place, Effects, ButEffects

Record == [state : State \cup {"none"}, by : Requests \cup {None}, expired : BOOLEAN]

LEMMA InitInv == Init => IInv
  BY DEF Init, IInv, TypeOK, NoRecord, RecordIsCurrent, RequestOK, PlaceOK, KeyIsHeld,
    EffectIsMarked

---------------------------------------------------------------------------
(* Type correctness.                                                       *)

LEMMA FreshType ==
  ASSUME NEW r \in Requests
  PROVE  Fresh(r) \in Record /\ Fresh(r).by = r /\ Fresh(r).state = "in_progress"
         /\ Fresh(r).expired = FALSE /\ Fresh(r) # NoRecord
  BY DEF Fresh, Record, NoRecord

RecordOK(rec) ==
  /\ rec \in Record
  /\ rec.state = "none" <=> rec = NoRecord
  /\ rec # NoRecord => rec.by \in Requests

LEMMA RecordType ==
  /\ RecordOK(NoRecord)
  /\ \A r \in Requests : RecordOK(Fresh(r))
  BY DEF RecordOK, Record, NoRecord, Fresh

LEMMA SettledType ==
  ASSUME RecordOK(record)
  PROVE  RecordOK(Completed) /\ RecordOK(Interrupted)
  BY DEF RecordOK, Record, NoRecord, Completed, Interrupted

ProgressOK ==
  /\ pc \in [Requests -> Place]
  /\ claimed \in [Requests -> BOOLEAN] /\ marker \in [Requests -> BOOLEAN]
  /\ flight \in [Requests -> {"none", "submitted", "durable"}]
  /\ landed \in [Requests -> 0 .. MaxEffects]
  /\ fate \in [Requests -> {"none", "ok", "failed", "cancelled", "crashed", "past"}]
  /\ told \in [Requests -> Requests \cup {None}]
  /\ left \in [crashes : 0 .. MaxCrashes, failures : 0 .. MaxFailures]

LEMMA TypeParts ==
  /\ TypeOK <=> RecordOK(record) /\ ProgressOK
  /\ TypeOK' <=> RecordOK(record)' /\ ProgressOK'
  BY DEF TypeOK, RecordOK, Record, ProgressOK

LEMMA StepRecord ==
  ASSUME TypeOK, NEW r \in Requests, Step(r)
  PROVE  RecordOK(record)'
<1>1. CASE InsertInProgress(r) \/ InsertAborted(r)
  BY <1>1, TypeParts, RecordType DEF InsertInProgress, InsertAborted
<1>2. CASE Settle(r)
  BY <1>2, TypeParts, RecordType, SettledType DEF Settle, Attempt
<1>3. CASE CleanUpCancelled(r)
  BY <1>3, TypeParts, RecordType, SettledType DEF CleanUpCancelled, Attempt, AfterCancel
<1>4. CASE record' = record
  BY <1>4, TypeParts DEF RecordOK
<1> QED
  BY <1>1, <1>2, <1>3, <1>4 DEF Step, ReadRecord, SubmitWrite, StartSideEffect, EffectLands,
    EffectFails, WriteReturns, HandlerEnds, Cancel

LEMMA StepProgress ==
  ASSUME TypeOK, NEW r \in Requests, PlaceOK(r), Step(r)
  PROVE  ProgressOK'
<1>1. CASE InsertInProgress(r)
  BY <1>1, TypeParts DEF ProgressOK, InsertInProgress, Goto
<1>2. CASE InsertAborted(r)
  BY <1>2, TypeParts DEF ProgressOK, InsertAborted, Done, Goto
<1>3. CASE ReadRecord(r)
  BY <1>3, TypeParts DEF ProgressOK, ReadRecord, Done, Goto, Replay, Refuse, RecordOK, Record
<1>4. CASE SubmitWrite(r)
  BY <1>4, TypeParts DEF ProgressOK, SubmitWrite, InHandler
<1>5. CASE StartSideEffect(r)
  BY <1>5, TypeParts DEF ProgressOK, StartSideEffect, InHandler, Mark
<1>6. CASE EffectLands(r)
  BY <1>6, TypeParts DEF ProgressOK, EffectLands, PlaceOK
<1>7. CASE EffectFails(r)
  BY <1>7, TypeParts DEF ProgressOK, EffectFails
<1>8. CASE WriteReturns(r)
  BY <1>8, TypeParts DEF ProgressOK, WriteReturns, InHandler, Mark
<1>9. CASE HandlerEnds(r)
  BY <1>9, TypeParts DEF ProgressOK, HandlerEnds, InHandler, Goto, Done
<1>10. CASE Cancel(r)
  BY <1>10, TypeParts DEF ProgressOK, Cancel, InHandler, Goto, Done, Mark, MarkedByCancel
<1>11. CASE Settle(r)
  BY <1>11, TypeParts DEF ProgressOK, Settle, Attempt, Done, Goto
<1>12. CASE CleanUpCancelled(r)
  BY <1>12, TypeParts DEF ProgressOK, CleanUpCancelled, Attempt, Done, Goto
<1> QED
  BY <1>1, <1>2, <1>3, <1>4, <1>5, <1>6, <1>7, <1>8, <1>9, <1>10, <1>11, <1>12 DEF Step

---------------------------------------------------------------------------
(* The rest of the invariant.                                              *)

Now == /\ TypeOK /\ RecordOK(record) /\ ProgressOK /\ RecordIsCurrent
       /\ \A q \in Requests : PlaceOK(q) /\ KeyIsHeld(q) /\ EffectIsMarked(q)

LEMMA StepInv ==
  ASSUME IInv, NEW r \in Requests, Step(r)
  PROVE  IInv'
<1>0. Now
  BY TypeParts DEF IInv, RequestOK, Now
<1> USE DEF Now
<1>1. CASE InsertInProgress(r)
  <2>1. ASSUME NEW q \in Requests PROVE RequestOK(q)'
    BY <1>0, <1>1 DEF RequestOK, PlaceOK, KeyIsHeld, EffectIsMarked,
      ProgressOK, InsertInProgress, Goto, RecordOK, Record, Fresh, Blocks, NoRecord
  <2>2. RecordIsCurrent'
    BY <1>0, <1>1 DEF RecordIsCurrent, PlaceOK, KeyIsHeld,
      ProgressOK, InsertInProgress, Goto, RecordOK, Record, Fresh, Blocks, NoRecord
  <2> QED
    BY <1>0, <2>1, <2>2, StepRecord, StepProgress, TypeParts DEF IInv
<1>2. CASE InsertAborted(r)
  <2>1. ASSUME NEW q \in Requests PROVE RequestOK(q)'
    BY <1>0, <1>2 DEF RequestOK, PlaceOK, KeyIsHeld, EffectIsMarked,
      ProgressOK, InsertAborted, Done, Goto, RecordOK, Record, Fresh, Blocks, NoRecord
  <2>2. RecordIsCurrent'
    BY <1>0, <1>2 DEF RecordIsCurrent, PlaceOK, KeyIsHeld,
      ProgressOK, InsertAborted, Done, Goto, RecordOK, Record, Fresh, Blocks, NoRecord
  <2> QED
    BY <1>0, <2>1, <2>2, StepRecord, StepProgress, TypeParts DEF IInv
<1>3. CASE ReadRecord(r)
  <2>1. ASSUME NEW q \in Requests PROVE RequestOK(q)'
    BY <1>0, <1>3 DEF RequestOK, PlaceOK, KeyIsHeld, EffectIsMarked,
      ProgressOK, ReadRecord, Done, Goto, Replay, Refuse
  <2>2. RecordIsCurrent'
    BY <1>0, <1>3 DEF RecordIsCurrent, PlaceOK, KeyIsHeld,
      ProgressOK, ReadRecord, Done, Goto, Replay, Refuse, RecordOK
  <2> QED
    BY <1>0, <2>1, <2>2, StepRecord, StepProgress, TypeParts DEF IInv
<1>4. CASE SubmitWrite(r)
  <2>1. ASSUME NEW q \in Requests PROVE RequestOK(q)'
    BY <1>0, <1>4 DEF RequestOK, PlaceOK, KeyIsHeld, EffectIsMarked,
      ProgressOK, SubmitWrite, InHandler, Fresh
  <2>2. RecordIsCurrent'
    BY <1>0, <1>4 DEF RecordIsCurrent, PlaceOK, KeyIsHeld,
      ProgressOK, SubmitWrite, InHandler, Fresh, RecordOK
  <2> QED
    BY <1>0, <2>1, <2>2, StepRecord, StepProgress, TypeParts DEF IInv
<1>5. CASE StartSideEffect(r)
  <2>1. ASSUME NEW q \in Requests PROVE RequestOK(q)'
    BY <1>0, <1>5 DEF RequestOK, PlaceOK, KeyIsHeld, EffectIsMarked,
      ProgressOK, StartSideEffect, InHandler, Mark, Fresh
  <2>2. RecordIsCurrent'
    BY <1>0, <1>5 DEF RecordIsCurrent, PlaceOK, KeyIsHeld,
      ProgressOK, StartSideEffect, InHandler, Mark, Fresh, RecordOK
  <2> QED
    BY <1>0, <2>1, <2>2, StepRecord, StepProgress, TypeParts DEF IInv
<1>6. CASE EffectLands(r)
  <2>1. ASSUME NEW q \in Requests PROVE RequestOK(q)'
    BY <1>0, <1>6 DEF RequestOK, PlaceOK, KeyIsHeld, EffectIsMarked,
      ProgressOK, EffectLands
  <2>2. RecordIsCurrent'
    BY <1>0, <1>6 DEF RecordIsCurrent, PlaceOK, KeyIsHeld,
      ProgressOK, EffectLands, RecordOK
  <2> QED
    BY <1>0, <2>1, <2>2, StepRecord, StepProgress, TypeParts DEF IInv
<1>7. CASE EffectFails(r)
  <2>1. ASSUME NEW q \in Requests PROVE RequestOK(q)'
    BY <1>0, <1>7 DEF RequestOK, PlaceOK, KeyIsHeld, EffectIsMarked,
      ProgressOK, EffectFails
  <2>2. RecordIsCurrent'
    BY <1>0, <1>7 DEF RecordIsCurrent, PlaceOK, KeyIsHeld,
      ProgressOK, EffectFails, RecordOK
  <2> QED
    BY <1>0, <2>1, <2>2, StepRecord, StepProgress, TypeParts DEF IInv
<1>8. CASE WriteReturns(r)
  <2>1. ASSUME NEW q \in Requests PROVE RequestOK(q)'
    BY <1>0, <1>8 DEF RequestOK, PlaceOK, KeyIsHeld, EffectIsMarked,
      ProgressOK, WriteReturns, InHandler, Mark
  <2>2. RecordIsCurrent'
    BY <1>0, <1>8 DEF RecordIsCurrent, PlaceOK, KeyIsHeld,
      ProgressOK, WriteReturns, InHandler, Mark, RecordOK
  <2> QED
    BY <1>0, <2>1, <2>2, StepRecord, StepProgress, TypeParts DEF IInv
<1>9. CASE HandlerEnds(r)
  <2>1. ASSUME NEW q \in Requests PROVE RequestOK(q)'
    BY <1>0, <1>9 DEF RequestOK, PlaceOK, KeyIsHeld, EffectIsMarked,
      ProgressOK, HandlerEnds, InHandler, Goto, Done
  <2>2. RecordIsCurrent'
    BY <1>0, <1>9 DEF RecordIsCurrent, PlaceOK, KeyIsHeld,
      ProgressOK, HandlerEnds, InHandler, Goto, Done, RecordOK
  <2> QED
    BY <1>0, <2>1, <2>2, StepRecord, StepProgress, TypeParts DEF IInv
<1>10. CASE Cancel(r)
  <2>1. ASSUME NEW q \in Requests PROVE RequestOK(q)'
    BY <1>0, <1>10 DEF RequestOK, PlaceOK, KeyIsHeld, EffectIsMarked,
      ProgressOK, Cancel, InHandler, Goto, Done, Mark, MarkedByCancel
  <2>2. RecordIsCurrent'
    BY <1>0, <1>10 DEF RecordIsCurrent, PlaceOK, KeyIsHeld,
      ProgressOK, Cancel, InHandler, Goto, Done, Mark, MarkedByCancel, RecordOK
  <2> QED
    BY <1>0, <2>1, <2>2, StepRecord, StepProgress, TypeParts DEF IInv
<1>11. CASE Settle(r)
  <2>1. ASSUME NEW q \in Requests PROVE RequestOK(q)'
    BY <1>0, <1>11 DEF RequestOK, PlaceOK, KeyIsHeld, EffectIsMarked,
      ProgressOK, Settle, Attempt, Done, Goto, RecordOK, Record, Completed, Fresh, NoRecord
  <2>2. RecordIsCurrent'
    BY <1>0, <1>11 DEF RecordIsCurrent, PlaceOK, KeyIsHeld,
      ProgressOK, Settle, Attempt, Done, Goto, RecordOK, Record, Completed, Fresh, NoRecord
  <2> QED
    BY <1>0, <2>1, <2>2, StepRecord, StepProgress, TypeParts DEF IInv
<1>12. CASE CleanUpCancelled(r)
  <2>1. ASSUME NEW q \in Requests PROVE RequestOK(q)'
    BY <1>0, <1>12 DEF RequestOK, PlaceOK, KeyIsHeld, EffectIsMarked,
      ProgressOK, CleanUpCancelled, Attempt, Done, Goto, RecordOK, Record, AfterCancel, Interrupted, Fresh, NoRecord
  <2>2. RecordIsCurrent'
    BY <1>0, <1>12 DEF RecordIsCurrent, PlaceOK, KeyIsHeld,
      ProgressOK, CleanUpCancelled, Attempt, Done, Goto, RecordOK, Record, AfterCancel, Interrupted, Fresh, NoRecord
  <2> QED
    BY <1>0, <2>1, <2>2, StepRecord, StepProgress, TypeParts DEF IInv
<1> QED
  BY <1>1, <1>2, <1>3, <1>4, <1>5, <1>6, <1>7, <1>8, <1>9, <1>10, <1>11, <1>12 DEF Step

LEMMA ExpireInv == ASSUME IInv, Expire PROVE IInv'
<1>0. Now
  BY TypeParts DEF IInv, RequestOK, Now
<1> USE DEF Now
<1>1. RecordOK(record)' /\ record'.by = record.by /\ record'.expired
      /\ record'.state = record.state /\ record' # NoRecord
  BY <1>0 DEF Expire, RecordOK, Record, NoRecord
<1>2. ProgressOK'
  BY <1>0 DEF Expire, ProgressOK
<1>3. ASSUME NEW q \in Requests PROVE RequestOK(q)'
  BY <1>0 DEF Expire, ProgressOK, RequestOK, PlaceOK, KeyIsHeld, EffectIsMarked
<1>4. RecordIsCurrent'
  BY <1>0, <1>1 DEF Expire, ProgressOK, RecordOK, RecordIsCurrent
<1> QED
  BY <1>1, <1>2, <1>3, <1>4, TypeParts DEF IInv

LEMMA SweepInv == ASSUME IInv, Sweep PROVE IInv'
<1>0. Now
  BY TypeParts DEF IInv, RequestOK, Now
<1> USE DEF Now
<1>1. RecordOK(record)' /\ ProgressOK' /\ RecordIsCurrent'
  BY <1>0, RecordType DEF Sweep, ProgressOK, RecordIsCurrent
<1>2. ASSUME NEW q \in Requests PROVE RequestOK(q)'
  BY <1>0 DEF Sweep, Swept, Fresh, RequestOK, PlaceOK, KeyIsHeld, EffectIsMarked
<1> QED
  BY <1>1, <1>2, TypeParts DEF IInv

LEMMA DieInv == ASSUME IInv, DaemonDies PROVE IInv'
<1>0. Now
  BY TypeParts DEF IInv, RequestOK, Now
<1> USE DEF Now
<1>1. PICK done \in SUBSET {r \in Requests : flight[r] = "submitted"} :
        landed' = [r \in Requests |-> landed[r] + (IF r \in done THEN 1 ELSE 0)]
  BY DEF DaemonDies
<1>2. landed' \in [Requests -> 0 .. MaxEffects]
  BY <1>0, <1>1 DEF ProgressOK, PlaceOK
<1>3. ProgressOK'
  BY <1>0, <1>2 DEF DaemonDies, ProgressOK
<1>4. ASSUME NEW q \in Requests PROVE RequestOK(q)'
  BY <1>0, <1>1 DEF DaemonDies, ProgressOK, RequestOK, PlaceOK, KeyIsHeld, EffectIsMarked
<1>5. RecordOK(record)' /\ RecordIsCurrent'
  BY <1>0 DEF DaemonDies, ProgressOK, RecordOK, Record, RecordIsCurrent, PlaceOK
<1> QED
  BY <1>3, <1>4, <1>5, TypeParts DEF IInv

LEMMA NextInv == ASSUME IInv, [Next]_vars PROVE IInv'
<1>1. CASE UNCHANGED vars
  BY <1>1 DEF vars, IInv, TypeOK, RecordIsCurrent, RequestOK, PlaceOK, KeyIsHeld, EffectIsMarked
<1> QED
  BY <1>1, StepInv, ExpireInv, SweepInv, DieInv DEF Next

LEMMA Invariant == Spec => []IInv
  BY InitInv, NextInv, PTL DEF Spec

\* The fields have their kinds, and an absent row is the empty one.
THEOREM TypeCorrect == Spec => []TypeOK
  BY Invariant, PTL DEF IInv

---------------------------------------------------------------------------
(* Idempotency implements OncePerKey.                                      *)

LEMMA InitOnce == Init => Once!Init
  BY DEF Init, Once!Init, NoRecord, Current, Holder, Verdict, Acted, Failed, Told

\* A step that leaves what the caller can see stutters.
LEMMA Unseen ==
  ASSUME Holder' = Holder, Verdict' = Verdict, Acted' = Acted, Failed' = Failed, Told' = Told
  PROVE  UNCHANGED Once!avars
  BY DEF Once!avars, Holder, Verdict, Acted, Failed, Told

\* What a claimed, unsettled request's row is to the caller.
LEMMA HeldBy ==
  ASSUME NEW r \in Requests, record = Fresh(r)
  PROVE  Holder = r /\ Verdict = "held"
  BY DEF Holder, Verdict, Fresh

\* The histories keep what the caller can see of them.
LEMMA ActedStays ==
  ASSUME claimed' = claimed, landed' = landed,
         \A q \in Requests : fate'[q] = "past" <=> fate[q] = "past"
  PROVE  Acted' = Acted
  BY DEF Acted, Current

LEMMA FailedStays ==
  ASSUME claimed' = claimed, record' = record,
         \A q \in Requests : fate'[q] # fate[q] => record.by = q \/ ~claimed[q]
  PROVE  Failed' = Failed
  BY DEF Failed

LEMMA ToldStays ==
  ASSUME ProgressOK, told' = told,
         \A q \in Requests : fate'[q] = "past" <=> fate[q] = "past"
  PROVE  Told' = Told
<1>1. \A q \in Requests : told[q] # None => told[q] \in Requests
  BY DEF ProgressOK
<1> QED
  BY <1>1 DEF Told

LEMMA RowStays ==
  ASSUME record' = record PROVE Holder' = Holder /\ Verdict' = Verdict
  BY DEF Holder, Verdict

Refined == Once!Next \/ UNCHANGED Once!avars

LEMMA HandlerStep ==
  ASSUME IInv, NEW r \in Requests,
         \/ SubmitWrite(r) \/ StartSideEffect(r) \/ EffectFails(r) \/ WriteReturns(r)
         \/ HandlerEnds(r) \/ Cancel(r)
  PROVE  Refined
<1>0. Now
  BY TypeParts DEF IInv, RequestOK, Now
<1>1. record' = record /\ claimed' = claimed /\ landed' = landed /\ told' = told
  BY DEF SubmitWrite, StartSideEffect, EffectFails, WriteReturns, HandlerEnds, Cancel
<1>2. \A q \in Requests : fate'[q] # fate[q] => q = r /\ pc[r] = "run" /\ fate'[q] # "past"
  BY <1>0 DEF Now, ProgressOK, SubmitWrite, StartSideEffect, EffectFails, WriteReturns,
    HandlerEnds, Cancel, InHandler
<1>3. pc[r] = "run" => fate[r] # "past" /\ (claimed[r] => record.by = r)
  BY <1>0 DEF Now, PlaceOK, KeyIsHeld, Fresh
<1>4. \A q \in Requests : fate'[q] = "past" <=> fate[q] = "past"
  BY <1>2, <1>3
<1>5. \A q \in Requests : fate'[q] # fate[q] => record.by = q \/ ~claimed[q]
  BY <1>2, <1>3
<1>6. Acted' = Acted
  BY <1>1, <1>4, ActedStays
<1>7. Failed' = Failed
  BY <1>1, <1>5, FailedStays
<1>8. Told' = Told
  BY <1>0, <1>1, <1>4, ToldStays DEF Now
<1> QED
  BY <1>1, <1>6, <1>7, <1>8, RowStays, Unseen DEF Refined

\* What a request started lands while the key is its own.
LEMMA LandStep ==
  ASSUME IInv, NEW r \in Requests, EffectLands(r)
  PROVE  Refined
<1>0. Now
  BY TypeParts DEF IInv, RequestOK, Now
<1>1. /\ record' = record /\ claimed' = claimed /\ told' = told /\ fate' = fate
      /\ flight[r] = "submitted"
  BY DEF EffectLands, ButEffects
<1>2. Holder' = Holder /\ Verdict' = Verdict /\ Failed' = Failed /\ Told' = Told
  BY <1>0, <1>1, RowStays, FailedStays, ToldStays DEF Now
<1>3. CASE claimed[r]
  <2>1. Holder = r /\ Verdict \in {"held", "unknown"}
    BY <1>0, <1>1, <1>3 DEF Now, KeyIsHeld, Holder, Verdict
  <2>2. Acted' = Acted \cup {r}
    <3>1. landed'[r] > 0 /\ \A q \in Requests \ {r} : landed'[q] = landed[q]
      BY <1>0 DEF Now, ProgressOK, EffectLands
    <3>2. fate[r] # "past"
      BY <1>0, <1>1 DEF Now, PlaceOK
    <3> QED
      BY <1>1, <1>3, <3>1, <3>2 DEF Acted, Current
  <2>3. Once!Act(r)
    BY <1>2, <2>1, <2>2 DEF Once!Act, Holder, Verdict, Acted, Failed, Told
  <2> QED
    BY <2>3 DEF Refined, Once!Next
<1>4. CASE ~claimed[r]
  <2>1. \A q \in Requests \ {r} : landed'[q] = landed[q]
    BY <1>0 DEF Now, ProgressOK, EffectLands
  <2>2. Acted' = Acted
    BY <1>1, <1>4, <2>1 DEF Acted, Current
  <2> QED
    BY <1>2, <2>2, Unseen DEF Refined
<1> QED
  BY <1>3, <1>4

LEMMA ClaimStep ==
  ASSUME IInv, NEW r \in Requests, InsertInProgress(r) \/ InsertAborted(r)
  PROVE  Refined
<1>0. Now
  BY TypeParts DEF IInv, RequestOK, Now
<1>1. /\ landed' = landed /\ fate' = fate /\ told' = told /\ pc[r] = "claim"
      /\ \A q \in Requests \ {r} : claimed'[q] = claimed[q]
      /\ landed[r] = 0 /\ fate[r] = "none"
  BY <1>0 DEF Now, ProgressOK, PlaceOK, InsertInProgress, InsertAborted
<1>2. Told' = Told
  BY <1>0, <1>1, ToldStays DEF Now
<1>3. Acted' = Acted
  BY <1>0, <1>1 DEF Acted, Current
<1>4. CASE record' = record
  <2>1. Failed' = Failed
    BY <1>1, <1>4 DEF Failed
  <2> QED
    BY <1>2, <1>3, <1>4, <2>1, RowStays, Unseen DEF Refined
<1>5. CASE ~Blocks /\ record' = Fresh(r)
  <2>1. Verdict = "free" /\ Verdict' = "held" /\ Holder' = r
    <3>1. record.state = "none" \/ record.expired
      BY <1>5 DEF Blocks, NoRecord
    <3>2. record'.state = "in_progress" /\ record'.by = r /\ ~record'.expired
      BY <1>5 DEF Fresh
    <3> QED
      BY <3>1, <3>2 DEF Verdict, Holder
  <2>2. \A q \in Requests : claimed[q] /\ fate[q] = "failed" => record.by # q
    BY <1>0, <1>5 DEF Now, RecordIsCurrent, RecordOK, NoRecord, Blocks
  <2>3. Failed' = Failed
    BY <1>1, <1>5, <2>2 DEF Failed, Fresh
  <2>4. Once!Take(r)
    BY <1>2, <1>3, <2>1, <2>3 DEF Once!Take, Holder, Verdict, Acted, Failed, Told
  <2> QED
    BY <2>4 DEF Refined, Once!Next
<1> QED
  BY <1>4, <1>5 DEF InsertInProgress, InsertAborted

LEMMA ReadStep ==
  ASSUME IInv, NEW r \in Requests, ReadRecord(r)
  PROVE  Refined
<1>0. Now
  BY TypeParts DEF IInv, RequestOK, Now
<1>1. record' = record /\ claimed' = claimed /\ landed' = landed /\ fate' = fate
  BY DEF ReadRecord, Effects
<1>2. Holder' = Holder /\ Verdict' = Verdict /\ Acted' = Acted /\ Failed' = Failed
  BY <1>1, RowStays, ActedStays, FailedStays
<1>3. CASE told' = told
  BY <1>0, <1>1, <1>2, <1>3, ToldStays, Unseen DEF Now, Refined
<1>4. CASE record # NoRecord /\ Replay(r)
  <2>1. /\ record.state = "completed" /\ told' = [told EXCEPT ![r] = record.by]
        /\ record.by \in Requests /\ record.by # r
    BY <1>0, <1>4 DEF Now, RecordOK, RecordIsCurrent, ReadRecord, Replay
  <2>2. CASE record.expired
    <3>1. fate[record.by] = "past" /\ told[r] = None
      BY <1>0, <1>4, <2>2 DEF Now, RecordIsCurrent, PlaceOK, ReadRecord
    <3>2. Told' = Told
      BY <1>0, <1>1, <2>1, <3>1 DEF Now, ProgressOK, Told
    <3> QED
      BY <1>2, <3>2, Unseen DEF Refined
  <2>3. CASE ~record.expired
    <3>1. Verdict = "kept" /\ Holder = record.by
      BY <2>1, <2>3 DEF Verdict, Holder
    <3>2. fate[record.by] # "past"
      BY <1>0, <1>4, <2>3 DEF Now, RecordIsCurrent
    <3>3. Told' = [Told EXCEPT ![r] = record.by]
      BY <1>0, <1>1, <2>1, <3>2 DEF Now, ProgressOK, Told
    <3>4. Once!Tell(r)
      BY <1>2, <2>1, <3>1, <3>3 DEF Once!Tell, Holder, Verdict, Acted, Failed, Told
    <3> QED
      BY <3>4 DEF Refined, Once!Next
  <2> QED
    BY <2>2, <2>3
<1> QED
  BY <1>3, <1>4 DEF ReadRecord, Refuse

\* The end of a claimed execution: its answer is kept, it is in doubt, or the key is
\* given back, if nothing landed or a failure is reported.
LEMMA EndStep ==
  ASSUME IInv, NEW r \in Requests, Settle(r) \/ CleanUpCancelled(r)
  PROVE  Refined
<1>0. Now
  BY TypeParts DEF IInv, RequestOK, Now
<1>1. /\ landed' = landed /\ fate' = fate /\ told' = told /\ claimed' = claimed
      /\ pc[r] \in {"settle", "cancelled"}
  BY DEF Settle, CleanUpCancelled, Effects
<1>2. record = Fresh(r) /\ claimed[r]
  BY <1>0, <1>1 DEF Now, PlaceOK, KeyIsHeld
<1>3. Holder = r /\ Verdict = "held"
  BY <1>2, HeldBy
<1>4. Told' = Told /\ Acted' = Acted
  BY <1>0, <1>1, ToldStays, ActedStays DEF Now
<1>5. CASE record' = record
  <2>1. Failed' = Failed
    BY <1>1, <1>5, FailedStays
  <2> QED
    BY <1>4, <1>5, <2>1, RowStays, Unseen DEF Refined
<1>6. CASE record' = Completed \/ record' = Interrupted
  <2>1. record'.by = r /\ ~record'.expired
        /\ record'.state \in {"completed", "interrupted"}
    BY <1>2, <1>6 DEF Completed, Interrupted, Fresh, NoRecord
  <2>2. Holder' = r /\ Verdict' \in {"kept", "unknown"}
    BY <2>1 DEF Holder, Verdict
  <2>3. Failed' = Failed
    BY <1>1, <1>2, <2>1 DEF Failed, Fresh
  <2>4. Once!Keep(r) \/ Once!Doubt(r)
    BY <1>3, <1>4, <2>2, <2>3 DEF Once!Keep, Once!Doubt, Holder, Verdict, Acted, Failed, Told
  <2> QED
    BY <2>4 DEF Refined, Once!Next
<1>7. CASE record' = NoRecord
  <2>1. Holder' = None /\ Verdict' = "free"
    BY <1>7 DEF Holder, Verdict, NoRecord
  <2>2. Failed' = IF fate[r] = "failed" THEN Failed \cup {r} ELSE Failed
    BY <1>0, <1>1, <1>2, <1>7 DEF Now, RecordOK, Failed, Fresh, NoRecord
  <2>3. r \in Acted => r \in Failed'
    <3>1. CASE Settle(r)
      <4>1. fate[r] = "failed"
        BY <1>0, <1>2, <1>7, <3>1 DEF Now, PlaceOK, Settle, Attempt, Completed, Fresh, NoRecord
      <4> QED
        BY <2>2, <4>1
    <3>2. CASE CleanUpCancelled(r)
      <4>1. ~marker[r]
        BY <1>2, <1>7, <3>2 DEF CleanUpCancelled, Attempt, AfterCancel, Interrupted, Fresh,
          NoRecord
      <4>2. ~(landed[r] > 0)
        BY <1>0, <3>2, <4>1 DEF Now, EffectIsMarked, CleanUpCancelled
      <4> QED
        BY <4>2 DEF Acted
    <3> QED
      BY <3>1, <3>2
  <2>4. Failed' \in {Failed, Failed \cup {r}}
    BY <2>2
  <2>5. Once!GiveBack(r)
    BY <1>3, <1>4, <2>1, <2>3, <2>4 DEF Once!GiveBack, Holder, Verdict, Acted, Failed, Told
  <2> QED
    BY <2>5 DEF Refined, Once!Next
<1> QED
  BY <1>5, <1>6, <1>7 DEF Settle, CleanUpCancelled, Attempt, AfterCancel

LEMMA ForgetStep == ASSUME IInv, Expire \/ Sweep PROVE Refined
<1>0. Now
  BY TypeParts DEF IInv, RequestOK, Now
<1>1. CASE Expire
  <2>1. record'.expired
    BY <1>0, <1>1 DEF Now, RecordOK, Record, Expire
  <2>2. Holder' = None /\ Verdict' = "free"
    BY <2>1 DEF Holder, Verdict
  <2>3. \A r \in Requests :
          landed'[r] = 0 /\ told'[r] = None /\ fate'[r] \in {"past", "none"}
    BY <1>1 DEF Expire
  <2>4. Acted' = {} /\ Failed' = {} /\ Told' = [r \in Requests |-> None]
    BY <2>3 DEF Acted, Failed, Told
  <2>5. Once!Forget
    BY <2>2, <2>4 DEF Once!Forget, Holder, Verdict, Acted, Failed, Told
  <2> QED
    BY <2>5 DEF Refined, Once!Next
<1>2. CASE Sweep
  <2>1. /\ record # NoRecord /\ record.expired /\ record' = NoRecord
        /\ landed' = landed /\ fate' = fate /\ told' = told /\ claimed' = claimed
    BY <1>2 DEF Sweep, Swept, Effects
  <2>2. Holder' = Holder /\ Verdict' = Verdict
    BY <2>1 DEF Holder, Verdict, NoRecord
  <2>3. Told' = Told /\ Acted' = Acted
    BY <1>0, <2>1, ToldStays, ActedStays DEF Now
  <2>4. fate[record.by] = "past"
    BY <1>0, <2>1 DEF Now, RecordIsCurrent
  <2>5. Failed' = Failed
    BY <2>1, <2>4 DEF Failed, NoRecord
  <2> QED
    BY <2>2, <2>3, <2>5, Unseen DEF Refined
<1> QED
  BY <1>1, <1>2

LEMMA DieStep == ASSUME IInv, DaemonDies PROVE Refined
<1>0. Now
  BY TypeParts DEF IInv, RequestOK, Now
<1>1. record' = record /\ claimed' = claimed /\ told' = told
  BY DEF DaemonDies
<1>2. \A q \in Requests : fate'[q] # fate[q] => pc[q] = "run" /\ fate'[q] = "crashed"
  BY <1>0 DEF Now, ProgressOK, DaemonDies
<1>3. \A q \in Requests : pc[q] = "run" => fate[q] # "past" /\ (claimed[q] => record.by = q)
  BY <1>0 DEF Now, PlaceOK, KeyIsHeld, Fresh
<1>4. \A q \in Requests : fate'[q] = "past" <=> fate[q] = "past"
  BY <1>2, <1>3
<1>5. Failed' = Failed
  BY <1>1, <1>2, <1>3, FailedStays
<1>6. Told' = Told
  BY <1>0, <1>1, <1>4, ToldStays DEF Now
<1>7. CASE \E r \in Requests : claimed[r] /\ flight[r] = "submitted" /\ landed'[r] > landed[r]
  <2>1. PICK r \in Requests : claimed[r] /\ flight[r] = "submitted" /\ landed'[r] > landed[r]
    BY <1>7
  <2>2. record.by = r /\ Holder = r /\ Verdict \in {"held", "unknown"} /\ fate[r] # "past"
    BY <1>0, <2>1 DEF Now, KeyIsHeld, PlaceOK, Holder, Verdict
  <2>3. \A q \in Requests \ {r} : claimed[q] => landed'[q] = landed[q]
    BY <1>0, <2>2 DEF Now, ProgressOK, KeyIsHeld, DaemonDies
  <2>4. landed'[r] > 0
    BY <1>0, <2>1 DEF Now, ProgressOK, DaemonDies
  <2>5. Acted' = Acted \cup {r}
    BY <1>1, <1>4, <2>1, <2>2, <2>3, <2>4 DEF Acted, Current
  <2>6. Once!Act(r)
    BY <1>1, <1>5, <1>6, <2>2, <2>5, RowStays DEF Once!Act, Holder, Verdict, Acted, Failed, Told
  <2> QED
    BY <2>6 DEF Refined, Once!Next
<1>8. CASE \A r \in Requests : claimed[r] => landed'[r] = landed[r]
  <2>1. Acted' = Acted
    BY <1>1, <1>4, <1>8 DEF Acted, Current
  <2> QED
    BY <1>1, <1>5, <1>6, <2>1, RowStays, Unseen DEF Refined
<1> QED
  <2>1. \A r \in Requests :
          landed'[r] = landed[r] \/ (flight[r] = "submitted" /\ landed'[r] > landed[r])
    BY <1>0 DEF Now, ProgressOK, DaemonDies
  <2> QED
    BY <1>7, <1>8, <2>1

\* Every step is one of OncePerKey's or nothing to the caller: no two executions of a key
\* take effect without a failure reported in between, however requests, cancellations,
\* crashes, expiry and the sweep interleave.
THEOREM Implemented == Spec => Once!Spec
<1>1. ASSUME IInv, [Next]_vars PROVE [Once!Next]_(Once!avars)
  <2>1. CASE UNCHANGED vars
    BY <2>1 DEF vars, Once!avars, Current, Holder, Verdict, Acted, Failed, Told
  <2>2. CASE Next
    <3>1. Refined
      BY <1>1, <2>2, HandlerStep, LandStep, ClaimStep, ReadStep, EndStep, ForgetStep, DieStep
        DEF Next, Step
    <3> QED
      BY <3>1 DEF Refined
  <2> QED
    BY <1>1, <2>1, <2>2
<1> QED
  BY <1>1, Invariant, InitOnce, PTL DEF Spec, Once!Spec

\* The refinement, as the run states it.
THEOREM ImplementedAsChecked == Spec => ImplementsOncePerKey
  BY Implemented DEF ImplementsOncePerKey
=============================================================================
