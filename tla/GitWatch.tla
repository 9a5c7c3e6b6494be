------------------------------ MODULE GitWatch ------------------------------
(***************************************************************************)
(* core/gitwatch.py: the unattended redeploy of one service that follows a *)
(* branch, driven by a periodic poll and by nudges, over the redeploy      *)
(* primitive of daemon/deploy_pipeline.py.  An action is the code between  *)
(* two awaits; between any two of them the branch moves, an operator       *)
(* deploys, stops, starts or reconfigures the service, a nudge arrives.    *)
(***************************************************************************)
EXTENDS Integers

CONSTANTS
  Sources,     \* what a row may follow: a repository and a branch of it
  MaxCommit,   \* commits are numbered
  MaxPushes, MaxOperations, MaxNudges, MaxRestarts

ASSUME BoundAssumption ==
  /\ Sources # {}
  /\ MaxCommit \in Nat \ {0}
  /\ {MaxPushes, MaxOperations, MaxNudges, MaxRestarts} \subseteq Nat

Commits == 1..MaxCommit
None == 0

VARIABLES
  head,    \* the remote: the commit each source stands at
  pushed,  \* commits a source has stood at
  token,   \* the installation token is mirrored and has not expired
  row,     \* status, auto_deploy, cutover, source and its commit_sha
  due,     \* the poll's deadline and the scan's have passed
  poll,    \* the task of _inflight: where it is and what it holds
  failed,  \* _failed_sha: the commit that is not tried again
  pending, nudged, renudge,   \* _pending_nudge, _nudged, _renudge
  owed,    \* (history) a nudge was answered "matched" and no poll has begun since
  handled, \* (history) commits a poll shipped, or found shipped
  shipped, \* (history) source and commit of the last redeploy, until either moves
  spent

memory == <<due, poll, failed, pending, nudged, renudge>>
histories == <<owed, handled, shipped>>
vars == <<head, pushed, token, row, memory, histories, spent>>

Count(what) == spent' = [spent EXCEPT ![what] = @ + 1]

NoPoll == [pc |-> "none", source |-> None, sha |-> None, got |-> None,
           base |-> TRUE, auto |-> TRUE]
Nothing == <<None, None>>
Places == {"none", "gate", "probe", "look", "trigger", "clone", "read", "write"}

Poll == [pc : Places, source : Sources \cup {None}, sha : Commits \cup {None},
         got : Commits \cup {None}, base : BOOLEAN, auto : BOOLEAN]
Row == [status : {"running", "restarting", "stopped"}, auto : BOOLEAN, cutover : BOOLEAN,
        source : Sources, commit : Commits]

\* What a poll has found out when it is somewhere.
Knows(p) ==
  /\ p.pc \notin {"none", "gate"} => p.source \in Sources
  /\ p.pc \notin {"none", "gate", "probe"} => p.sha \in Commits
  /\ p.pc \in {"read", "write"} => p.got \in Commits

TypeOK ==
  /\ head \in [Sources -> Commits] /\ pushed \subseteq Commits /\ token \in BOOLEAN
  /\ row \in Row /\ poll \in Poll /\ Knows(poll)
  /\ failed \in Commits \cup {None} /\ pending \in Commits \cup {None}
  /\ nudged \subseteq Commits /\ due \in BOOLEAN /\ renudge \in BOOLEAN /\ owed \in BOOLEAN
  /\ handled \subseteq Commits /\ shipped \in (Sources \X Commits) \cup {Nothing}

Init ==
  /\ head = [s \in Sources |-> 1] /\ pushed = {1} /\ token = TRUE
  /\ row = [status |-> "running", auto |-> TRUE, cutover |-> TRUE,
            source |-> CHOOSE s \in Sources : TRUE, commit |-> 1]
  /\ due = TRUE /\ poll = NoPoll /\ failed = None
  /\ pending = None /\ nudged = {} /\ renudge = FALSE
  /\ owed = FALSE /\ handled = {} /\ shipped = Nothing
  /\ spent = [pushes |-> 0, operations |-> 0, nudges |-> 0, restarts |-> 0]

-----------------------------------------------------------------------------
(* The world: the remote, the cloud, the operator and the controller. *)

Push(s) ==
  /\ spent.pushes < MaxPushes /\ Count("pushes")
  /\ \E c \in Commits \ {head[s]} :
       head' = [head EXCEPT ![s] = c] /\ pushed' = pushed \cup {c}
  /\ shipped' = Nothing
  /\ UNCHANGED <<token, row, memory, owed, handled>>

TokenComesAndGoes ==
  /\ spent.operations < MaxOperations /\ Count("operations")
  /\ token' = ~token
  /\ UNCHANGED <<head, pushed, row, memory, histories>>

\* A deploy or redeploy by hand of whatever a source stands at: it takes the next
\* version, so the compare-and-swap of a redeploy that read the row before misses.
DeployedByHand(s) ==
  /\ spent.operations < MaxOperations /\ Count("operations")
  /\ row' = [row EXCEPT !.status = "restarting", !.source = s, !.commit = head[s]]
  /\ poll' = [poll EXCEPT !.base = FALSE]
  /\ shipped' = Nothing
  /\ UNCHANGED <<head, pushed, token, due, failed, pending, nudged, renudge, owed, handled>>

StoppedOrStarted ==
  /\ spent.operations < MaxOperations /\ Count("operations")
  /\ row' = [row EXCEPT !.status = IF @ = "stopped" THEN "restarting" ELSE "stopped"]
  /\ UNCHANGED <<head, pushed, token, memory, histories>>

\* PUT of the app config: auto_deploy, or cutover.
Reconfigured ==
  /\ spent.operations < MaxOperations /\ Count("operations")
  /\ \/ row' = [row EXCEPT !.auto = ~@]
     \/ row' = [row EXCEPT !.cutover = ~@]
  /\ UNCHANGED <<head, pushed, token, memory, histories>>

\* The reconcile tick brings the new generation up, or back to the previous one;
\* either way config['source'] stays.
Converges ==
  /\ row.status = "restarting" /\ row' = [row EXCEPT !.status = "running"]
  /\ UNCHANGED <<head, pushed, token, memory, histories, spent>>

-----------------------------------------------------------------------------
(* Scheduling. *)

Candidate == row.status = "running" /\ row.auto

TimePasses ==
  /\ ~due /\ due' = TRUE
  /\ UNCHANGED <<head, pushed, token, row, poll, failed, pending, nudged, renudge,
                 histories, spent>>

StartsPoll == poll' = [NoPoll EXCEPT !.pc = "gate"]

\* reconcile, for a row that is a candidate...
TickPolls ==
  /\ due /\ Candidate /\ poll.pc = "none"
  /\ StartsPoll
  /\ UNCHANGED <<head, pushed, token, row, due, failed, pending, nudged, renudge, histories, spent>>

\* ... and _prune, for one that is not: what was remembered of it goes, except what
\* was nudged. A pruned nudge is owed nothing.
TickPrunes ==
  /\ due /\ ~Candidate
  /\ failed' = None /\ pending' = None /\ renudge' = FALSE /\ owed' = FALSE
  /\ <<failed, pending, renudge>> # <<None, None, FALSE>>
  /\ UNCHANGED <<head, pushed, token, row, due, poll, nudged, handled, shipped, spent>>

\* (mutant) The tick's deadline is the only follow-up of a poll in flight.
NoFollowUp ==
  /\ IF poll.pc = "none" THEN StartsPoll ELSE UNCHANGED poll
  /\ UNCHANGED renudge
FollowUp ==
  IF poll.pc = "none"
    THEN StartsPoll /\ UNCHANGED renudge
    ELSE renudge' = TRUE /\ UNCHANGED poll

\* nudge, for a push of c to a source, at once, late or again: opted out, deduped or
\* matched.
Nudge(s, c) ==
  /\ spent.nudges < MaxNudges /\ Count("nudges")
  /\ row.source = s /\ row.status = "running"
  /\ IF ~row.auto \/ c \in nudged
       THEN UNCHANGED <<memory, owed>>
       ELSE /\ pending' = c /\ due' = TRUE /\ FollowUp
            /\ owed' = TRUE
            /\ UNCHANGED <<failed, nudged>>
  /\ UNCHANGED <<head, pushed, token, row, handled, shipped>>

\* _poll's finally: one follow-up for the nudges that came meanwhile.
Ends ==
  /\ IF renudge THEN due' = TRUE /\ StartsPoll
                ELSE due' = FALSE /\ poll' = NoPoll
  /\ renudge' = FALSE

\* _schedule or _backoff, and out.
GivesUp == Ends /\ UNCHANGED <<failed, pending, nudged, handled>>

\* _commit_nudge, for a poll that ends with c on the row.
Confirms(c) ==
  /\ nudged' = nudged \cup ({pending} \ {None})
  /\ pending' = None
  /\ handled' = handled \cup {c}
  /\ Ends

-----------------------------------------------------------------------------
(* One poll. *)

Goes(pc) == poll' = [poll EXCEPT !.pc = pc]
Still == UNCHANGED <<due, failed, pending, nudged, renudge, handled>>
World == UNCHANGED <<head, pushed, token, spent>>

\* Gate 1, on a fresh read: a candidate, eligible for a cutover, with a credential.
Gate ==
  /\ poll.pc = "gate" /\ owed' = FALSE
  /\ IF Candidate /\ row.cutover /\ token
       THEN poll' = [poll EXCEPT !.pc = "probe", !.source = row.source] /\ Still
       ELSE GivesUp
  /\ World /\ UNCHANGED <<row, shipped>>

\* ls_remote_head
ProbeAnswers ==
  /\ poll.pc = "probe"
  /\ poll' = [poll EXCEPT !.pc = "look", !.sha = head[poll.source]]
  /\ Still /\ World /\ UNCHANGED <<row, owed, shipped>>

ProbeFails ==
  /\ poll.pc = "probe" /\ GivesUp
  /\ World /\ UNCHANGED <<row, owed, shipped>>

MayAct == Candidate /\ row.cutover /\ row.source = poll.source

\* (mutant) A service with a failed redeploy waits for a deploy by hand.
SuppressedByAny == failed # None
Suppressed == failed = poll.sha

\* Gate 2, on another fresh read.
Look ==
  /\ poll.pc = "look"
  /\ CASE ~MayAct -> GivesUp
       [] MayAct /\ poll.sha = row.commit -> Confirms(poll.sha) /\ UNCHANGED failed
       [] MayAct /\ poll.sha # row.commit /\ Suppressed -> GivesUp
       [] OTHER -> Goes("trigger") /\ Still
  /\ World /\ UNCHANGED <<row, owed, shipped>>

\* redeploy_from_source reads the row once more, for its source only.
Trigger ==
  /\ poll.pc = "trigger"
  /\ poll' = [poll EXCEPT !.pc = "clone", !.source = row.source]
  /\ Still /\ World /\ UNCHANGED <<row, owed, shipped>>

\* The head may have moved since the probe: what is cloned is what it is now.
Clone ==
  /\ poll.pc = "clone" /\ token
  /\ poll' = [poll EXCEPT !.pc = "read", !.got = head[poll.source]]
  /\ Still /\ World /\ UNCHANGED <<row, owed, shipped>>

\* _finalize_deploy: the configuration that is carried over is read after the clone.
Read ==
  /\ poll.pc = "read"
  /\ poll' = [poll EXCEPT !.pc = "write", !.base = TRUE, !.auto = row.auto]
  /\ Still /\ World /\ UNCHANGED <<row, owed, shipped>>

\* (mutant) The row records the commit that the probe saw.
RecordsTheProbe == poll.sha
Recorded == poll.got

\* write_redeploy: its compare-and-swap sees other deploys, not a stop nor a PUT.
Write ==
  /\ poll.pc = "write" /\ poll.base
  /\ row' = [row EXCEPT !.status = "restarting", !.source = poll.source,
                        !.commit = Recorded, !.auto = poll.auto]
  /\ failed' = None /\ Confirms(poll.got)
  /\ shipped' = <<poll.source, poll.got>>
  /\ World /\ UNCHANGED owed

\* Contention (409), a token that expired, or an exception without a code.
Retries ==
  /\ poll.pc \in {"trigger", "clone", "read", "write"} /\ GivesUp
  /\ World /\ UNCHANGED <<row, owed, shipped>>

\* Any other coded failure is the commit's: the probed one is not tried again.
Pins ==
  /\ poll.pc \in {"trigger", "clone", "read", "write"}
  /\ failed' = poll.sha
  /\ Ends /\ World /\ UNCHANGED <<row, owed, pending, nudged, handled, shipped>>

Restart ==
  /\ spent.restarts < MaxRestarts /\ Count("restarts")
  /\ due' = TRUE /\ poll' = NoPoll /\ failed' = None
  /\ pending' = None /\ nudged' = {} /\ renudge' = FALSE
  /\ owed' = FALSE /\ handled' = {}
  /\ UNCHANGED <<head, pushed, token, row, shipped>>

Work == Gate \/ ProbeAnswers \/ ProbeFails \/ Look \/ Trigger \/ Clone \/ Read \/ Write
        \/ Retries \/ Pins

Next ==
  \/ \E s \in Sources : Push(s) \/ DeployedByHand(s) \/ \E c \in pushed : Nudge(s, c)
  \/ TokenComesAndGoes \/ StoppedOrStarted \/ Reconfigured \/ Converges
  \/ TimePasses \/ TickPolls \/ TickPrunes
  \/ Work \/ Restart

Spec == Init /\ [][Next]_vars

\* Time passes, the tick goes on, every await ends; and a poll that is tried again
\* and again gets past each of its steps in the end: the remote answers, no run or
\* cutover is in the way for ever.
FairSpec ==
  /\ Spec
  /\ WF_vars(Converges) /\ WF_vars(TimePasses) /\ WF_vars(TickPolls) /\ WF_vars(Work)
  /\ SF_vars(ProbeAnswers) /\ SF_vars(Trigger) /\ SF_vars(Clone) /\ SF_vars(Read)
  /\ SF_vars(Write)

-----------------------------------------------------------------------------
(* Properties. *)

\* All is well-typed, and no push is answered "matched" and then left for the next
\* interval: while a nudge is owed a poll, one is about to begin, or the one in flight
\* will be followed by another.
NudgeIsAnswered ==
  TypeOK /\ (owed => poll.pc = "gate" \/ (poll.pc # "none" /\ renudge))

\* While neither the source nor the row is moved by anybody else, no commit is
\* redeployed twice, though the head may move between the probe and the clone, nudges
\* be repeated, and the daemon be restarted (no "phantom drift").
ShipsACommitOnce == [][Write => shipped # <<poll.source, poll.got>>]_vars

\* A service that stays opted in, live and eligible ends at the head of what it
\* follows, unless the redeploy of that very commit failed.
Wanted == row.auto /\ row.cutover /\ token /\ row.status # "stopped"
ShipsTheNewest ==
  <>[]Wanted => <>[](row.commit = head[row.source] \/ failed = head[row.source])

---------------------------------------------------------------------------
(* What a comment says, and this model refutes.                          *)

\* gitwatch.py says that a nudge is "never burned by a dedupe entry laid down before
\* the sha was ever handled": the head, if remembered as nudged, was handled.
NudgedWasHandled ==
  poll.pc = "none" /\ head[row.source] \in nudged => head[row.source] \in handled
=============================================================================
