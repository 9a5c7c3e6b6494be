------------------------------ MODULE LinkMux ------------------------------
(***************************************************************************)
(* The stream table of the node link (core/link/mux.py) on one accepted    *)
(* connection (core/link/client.py).  The relay opens streams, sends their *)
(* request bodies, abandons them and reuses their ids; each stream is      *)
(* served by a task of its own that answers with head, chunks and end, or  *)
(* with an error.  A stream is known here by the order in which it was     *)
(* opened, its id is what the frames carry.  An app stream is served by an *)
(* inner task under the outer one, beside a guard that watches the share.  *)
(* What the loopback server, the app and the relay do is free.             *)
(***************************************************************************)
EXTENDS Naturals, FiniteSets

CONSTANTS
  Ids,        \* stream ids
  MaxStreams, \* how many streams the relay opens
  MaxOpen,    \* max_concurrent_streams_per_node
  Kinds,      \* the streams this instance opens: "api" (loopback) and "app"
  Wrapped     \* those whose request runs in an inner task: "app", and "api" too
              \* where asyncio.wait_for makes one (before Python 3.12)

ASSUME BoundAssumption ==
  /\ MaxStreams \in Nat /\ MaxOpen \in Nat /\ Ids # {}
  /\ Kinds \subseteq {"api", "app"} /\ Wrapped \subseteq Kinds

Streams == 1 .. MaxStreams
None == 0

VARIABLES
  opened,   \* how many streams the relay has opened
  sid,      \* the id of each
  kind,     \* what each is for
  relay,    \* the stream that the relay thinks open under an id
  table,    \* _streams: the stream registered under an id
  pc,       \* where the task of a stream is
  cancel,   \* cancel() was called on it
  complete, \* its request body is complete
  overflow, \* its request body passed the limit
  out,      \* history: what was sent up for it
  tunnel,   \* the socket
  closed    \* _closed

muxVars == <<opened, sid, kind, relay, table, pc, cancel, complete, overflow, out, tunnel, closed>>

\* _serve_request, the end of it, and what _serve does then.
Serving == {"body", "gate", "dial", "pump", "refuse", "refuse_end", "ended"}
\* What runs in the inner task of a wrapped stream.
Inner == {"dial", "pump", "ended"}
Place == {"none", "late", "exit", "done"} \cup Serving

\* What a requester has been sent: "late" is an error after an end or an error, "torn"
\* anything that no requester can make sense of.
Sent == {"nothing", "head", "end", "error", "late", "torn"}

MuxTypeOK ==
  /\ opened \in 0 .. MaxStreams
  /\ sid \in [Streams -> Ids] /\ kind \in [Streams -> {"api", "app"}]
  /\ relay \in [Ids -> 0 .. opened] /\ table \in [Ids -> 0 .. opened]
  /\ pc \in [Streams -> Place]
  /\ cancel \in [Streams -> BOOLEAN]
  /\ complete \in [Streams -> BOOLEAN] /\ overflow \in [Streams -> BOOLEAN]
  /\ \A g \in Streams : overflow[g] => complete[g]   \* marked and woken
  /\ out \in [Streams -> Sent]
  /\ tunnel \in {"up", "down"} /\ closed \in BOOLEAN

MuxInit ==
  /\ opened = 0
  /\ sid = [g \in Streams |-> CHOOSE i \in Ids : TRUE] /\ kind = [g \in Streams |-> "api"]
  /\ relay = [i \in Ids |-> None] /\ table = [i \in Ids |-> None]
  /\ pc = [g \in Streams |-> "none"]
  /\ cancel = [g \in Streams |-> FALSE]
  /\ complete = [g \in Streams |-> FALSE] /\ overflow = [g \in Streams |-> FALSE]
  /\ out = [g \in Streams |-> "nothing"]
  /\ tunnel = "up" /\ closed = FALSE

Goto(g, p) == pc' = [pc EXCEPT ![g] = p]
Registered == {i \in Ids : table[i] # None}
Alive(g) == pc[g] \notin {"none", "done"}

---------------------------------------------------------------------------
(* Uplink frames.  LinkConnection.send_frame holds a lock for one frame.   *)

AfterFrame(o, f) ==
  CASE f = "head" /\ o = "nothing" -> "head"
    [] f = "body" /\ o = "head" -> "head"
    [] f = "end" /\ o = "head" -> "end"
    [] f = "error" /\ o \in {"nothing", "head"} -> "error"
    [] f = "error" /\ o \in {"end", "error"} -> "late"
    [] OTHER -> "torn"

\* The frame goes out, or the tunnel is gone and LinkClosedError ends the task.
SendThen(g, f, next) ==
  IF tunnel = "up"
    THEN out' = [out EXCEPT ![g] = AfterFrame(@, f)] /\ Goto(g, next)
    ELSE UNCHANGED out /\ Goto(g, "exit")

\* The relay takes a terminal frame and lets go of the id, at any later time.
RelayHearsTheEnd(g) ==
  /\ out[g] \in {"end", "error", "late"} /\ relay[sid[g]] = g
  /\ relay' = [relay EXCEPT ![sid[g]] = None]
  /\ UNCHANGED <<opened, sid, kind, table, pc, cancel, complete, overflow, out, tunnel, closed>>

---------------------------------------------------------------------------
(* Inbound frames: the receive loop calls handle, which never waits for a  *)
(* stream.                                                                 *)

Inbound == tunnel = "up" /\ ~closed

\* Duplicate ids are dropped, and streams past the limit are refused.
Duplicate(i) == i \in Registered
AtCapacity == Cardinality(Registered) >= MaxOpen

\* The relay opens a stream under an id that it thinks free, with the whole body,
\* none, or chunks to follow; one that nothing can parse is answered at once.
\* The credential of the stream may fail its check (_credential_is_valid).
OpenStream ==
  /\ Inbound /\ opened < MaxStreams
  /\ \E i \in Ids, k \in Kinds, whole \in BOOLEAN, over \in BOOLEAN, refused \in BOOLEAN :
       LET g == opened + 1
           serve == ~Duplicate(i) /\ ~AtCapacity /\ ~refused
       IN  /\ relay[i] = None /\ (over => whole)
           /\ opened' = g
           /\ sid' = [sid EXCEPT ![g] = i] /\ kind' = [kind EXCEPT ![g] = k]
           /\ relay' = [relay EXCEPT ![i] = g]
           /\ table' = [table EXCEPT ![i] = IF serve THEN g ELSE @]
           /\ pc' = [pc EXCEPT ![g] = IF serve THEN "body" ELSE "none"]
           /\ complete' = [complete EXCEPT ![g] = whole]
           /\ overflow' = [overflow EXCEPT ![g] = over]
           /\ out' = [out EXCEPT ![g] = IF serve \/ Duplicate(i) THEN @ ELSE "error"]
  /\ UNCHANGED <<cancel, tunnel, closed>>

Woken(g) == complete' = [complete EXCEPT ![g] = TRUE]

\* stream_body: past the limit the stream is marked and woken, so that its task
\* answers.  A chunk within the limit changes nothing here.
AppendBody(i) ==
  /\ Inbound /\ relay[i] # None /\ i \in Registered
  /\ LET g == table[i] IN
       /\ ~complete[g]
       /\ overflow' = [overflow EXCEPT ![g] = TRUE]
       /\ Woken(g)
  /\ UNCHANGED <<opened, sid, kind, relay, table, pc, cancel, out, tunnel, closed>>

\* stream_end
EndBody(i) ==
  /\ Inbound /\ relay[i] # None /\ i \in Registered
  /\ ~complete[table[i]]
  /\ Woken(table[i])
  /\ UNCHANGED <<opened, sid, kind, relay, table, pc, cancel, overflow, out, tunnel, closed>>

Cancelled(g) == cancel' = [cancel EXCEPT ![g] = TRUE]

\* close_stream: pop and cancel.  The relay may reuse the id at once.
CloseStream(i) ==
  /\ Inbound /\ relay[i] # None
  /\ relay' = [relay EXCEPT ![i] = None]
  /\ table' = [table EXCEPT ![i] = None]
  /\ IF i \in Registered THEN Cancelled(table[i]) ELSE UNCHANGED cancel
  /\ UNCHANGED <<opened, sid, kind, pc, complete, overflow, out, tunnel, closed>>

---------------------------------------------------------------------------
(* The task of a stream: _serve.                                           *)

\* (mutant) The loopback request too is made by an inner task.
RunsOn(g) == ~cancel[g] \/ pc[g] \in Inner

\* A cancelled task unwinds at its next step, but the inner task of a wrapped stream
\* goes on until the outer one gets to cancel it.
Runs(g) == ~cancel[g] \/ (kind[g] \in Wrapped /\ pc[g] \in Inner)
TaskFrame == <<opened, sid, kind, relay, table, cancel, complete, overflow, tunnel, closed>>

\* REQUEST_BODY_TIMEOUT_S
BodyTimedOut(g) == SendThen(g, "error", "exit")

\* _serve_request: wait for the whole body and refuse one that is too large.
AwaitBody(g) ==
  /\ pc[g] = "body" /\ Runs(g)
  /\ IF complete[g]
       THEN IF overflow[g]
              THEN SendThen(g, "error", "exit")
              ELSE Goto(g, IF kind[g] = "app" THEN "gate" ELSE "dial") /\ UNCHANGED out
       ELSE BodyTimedOut(g)
  /\ UNCHANGED TaskFrame

\* _serve_app: the carriers, the hook gate and the resolver admit the stream or not.
Gate(g) ==
  /\ pc[g] = "gate" /\ Runs(g)
  /\ pc' \in {[pc EXCEPT ![g] = p] : p \in {"dial", "refuse"}}
  /\ UNCHANGED <<out, TaskFrame>>

\* _send_refusal: a constant answer in three frames.
Refuse(g) ==
  /\ pc[g] \in {"refuse", "refuse_end"} /\ Runs(g)
  /\ IF pc[g] = "refuse" THEN SendThen(g, "head", "refuse_end") ELSE SendThen(g, "end", "ended")
  /\ UNCHANGED TaskFrame

\* The request is replayed: the head arrives, or it fails (or the app's identity
\* changed between the resolver and the socket).
Dial(g) ==
  /\ pc[g] = "dial" /\ Runs(g)
  /\ \/ SendThen(g, "head", "pump")
     \/ Goto(g, "late") /\ UNCHANGED out
  /\ UNCHANGED TaskFrame

\* (mutant) A response past the limit breaks out of the loop only.
OverrunEnds(g) == SendThen(g, "error", "refuse_end")

\* A response past the limit is an error and has no end.
Overrun(g) == SendThen(g, "error", "ended")

\* _pump: a chunk, the end, a response past the limit, or a source that breaks.
Pump(g) ==
  /\ pc[g] = "pump" /\ Runs(g)
  /\ \/ SendThen(g, "body", "pump")
     \/ SendThen(g, "end", "ended")
     \/ Overrun(g)
     \/ Goto(g, "late") /\ UNCHANGED out
  /\ UNCHANGED TaskFrame

\* The response is closed behind the last frame.
CloseResponse(g) ==
  /\ pc[g] = "ended" /\ Runs(g) /\ ~cancel[g]
  /\ Goto(g, "exit")
  /\ UNCHANGED <<out, TaskFrame>>

\* stream_absolute_timeout_s, and for an app stream the guard that finds the share
\* revoked: whatever was being done is cancelled and reported.
Watchdog(g) ==
  /\ pc[g] \in Serving /\ ~cancel[g]
  /\ Goto(g, "late")
  /\ UNCHANGED <<out, TaskFrame>>

\* (mutant) A failure is only reported if nothing has been sent yet.
FailsEarlyOnly(g) ==
  IF out[g] = "nothing" THEN SendThen(g, "error", "exit") ELSE UNCHANGED out /\ Goto(g, "exit")

\* _fail_late reports a failure whether or not a head was sent.
FailLate(g) == SendThen(g, "error", "exit")

Fail(g) ==
  /\ pc[g] = "late" /\ Runs(g)
  /\ FailLate(g)
  /\ UNCHANGED TaskFrame

\* The cancellation is raised in the task and unwinds it.
CancelLands(g) ==
  /\ cancel[g] /\ pc[g] \in Serving \cup {"late"}
  /\ Goto(g, "exit")
  /\ UNCHANGED <<out, TaskFrame>>

\* (mutant) The entry goes whatever it holds.
WithoutId(g) == [table EXCEPT ![sid[g]] = None]

\* The entry goes only if it is this stream's: the id may have been reused.
Without(g) == IF table[sid[g]] = g THEN [table EXCEPT ![sid[g]] = None] ELSE table

\* The finally of _serve.
Finish(g) ==
  /\ pc[g] = "exit"
  /\ table' = Without(g)
  /\ Goto(g, "done")
  /\ UNCHANGED <<opened, sid, kind, relay, cancel, complete, overflow, out, tunnel, closed>>

---------------------------------------------------------------------------
(* The connection.                                                         *)

\* The socket goes, at the relay's wish or for a renewal.
TunnelDrops ==
  /\ tunnel = "up" /\ tunnel' = "down"
  /\ UNCHANGED <<opened, sid, kind, relay, table, pc, cancel, complete, overflow, out, closed>>

\* aclose: cancel whatever is registered.
Aclose ==
  /\ tunnel = "down" /\ ~closed /\ closed' = TRUE
  /\ table' = [i \in Ids |-> None]
  /\ cancel' = [g \in Streams |-> cancel[g] \/ \E i \in Ids : table[i] = g]
  /\ UNCHANGED <<opened, sid, kind, relay, pc, complete, overflow, out, tunnel>>

Step(g) ==
  \/ AwaitBody(g) \/ Gate(g) \/ Refuse(g) \/ Dial(g) \/ Pump(g) \/ CloseResponse(g)
  \/ Fail(g)

MuxNext ==
  \/ OpenStream
  \/ \E i \in Ids : AppendBody(i) \/ EndBody(i) \/ CloseStream(i)
  \/ \E g \in Streams :
       \/ Step(g) \/ Watchdog(g) \/ CancelLands(g) \/ Finish(g) \/ RelayHearsTheEnd(g)
  \/ TunnelDrops \/ Aclose

MuxSpec == MuxInit /\ [][MuxNext]_muxVars

\* Tasks run, timers fire and the manager closes the mux of a dead socket.
MuxFairSpec ==
  /\ MuxSpec /\ WF_muxVars(Aclose)
  /\ \A g \in Streams :
       /\ WF_muxVars(Step(g)) /\ WF_muxVars(Watchdog(g))
       /\ WF_muxVars(CancelLands(g)) /\ WF_muxVars(Finish(g))

---------------------------------------------------------------------------
(* Properties.                                                             *)

\* All is well-typed, and every task that nobody cancelled is the one registered under
\* its id, so that its frames reach it, it counts against the limit and aclose finds it:
\* also when the id was reused before the predecessor's finally ran (mux.py:633).
LiveIsTracked ==
  MuxTypeOK /\ \A g \in Streams : Alive(g) /\ ~cancel[g] => table[sid[g]] = g

\* What a requester receives is a head, chunks and one end, or an error that cuts it
\* off: a response cut short never looks complete, and nothing but one more error (of a
\* watchdog that fires while the response is being closed) follows either.
ResponseIsWhole == \A g \in Streams : out[g] # "torn"

\* A stream whose request needs no inner task is silent once the relay abandoned it, so
\* that no frame of it lands in the stream that reuses its id.
ClosedDirectIsSilent ==
  [][\A g \in Streams : cancel[g] /\ kind[g] \notin Wrapped => out'[g] = out[g]]_muxVars

\* Every stream that is served ends, and unless it was abandoned or the tunnel is gone its
\* requester has been told: no body that never completes, wedged handler or failing
\* source leaves a requester waiting or a slot taken.
Told(g) == out[g] \in {"end", "error", "late"} \/ cancel[g] \/ tunnel = "down"
EveryStreamEnds == \A g \in Streams : Alive(g) ~> (pc[g] = "done" /\ Told(g))

---------------------------------------------------------------------------
(* What a comment says, and this model refutes.                          *)

\* An abandoned stream is silent: "the daemon must stop producing for it" (frames.py:419).
\* The cancellation of a wrapped one reaches its inner task a turn later.
ClosedIsSilent == [][\A g \in Streams : cancel[g] => out'[g] = out[g]]_muxVars
=============================================================================
