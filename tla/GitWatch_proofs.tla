-------------------------- MODULE GitWatch_proofs --------------------------
(***************************************************************************)
(* What TLAPS proves of GitWatch, for any number of sources and commits,   *)
(* of pushes, deploys, nudges and restarts.                                *)
(***************************************************************************)
EXTENDS GitWatch, TLAPS

\* While the last redeploy stands and no source has moved since, the row is at it, and a
\* poll on its way to another redeploy has seen another commit.
Fetching == {"trigger", "clone", "read", "write"}
Drifted == row.source = poll.source /\ head[poll.source] # row.commit
ShippedOK ==
  shipped # Nothing =>
    /\ shipped = <<row.source, row.commit>>
    /\ poll.pc = "look" => poll.sha = head[poll.source]
    /\ poll.pc \in Fetching => Drifted
    /\ poll.pc \in {"read", "write"} => poll.got = head[poll.source]

WatchInv == NudgeIsAnswered /\ ShippedOK

---------------------------------------------------------------------------
(* The end of a poll.                                                      *)

\* Whatever a poll ends with, the next one begins at its gate or there is none, and a
\* nudge that came meanwhile gets it.
LEMMA EndIsTyped ==
  ASSUME TypeOK, Ends
  PROVE  /\ due' \in BOOLEAN /\ renudge' = FALSE
         /\ poll' = NoPoll \/ poll' = [NoPoll EXCEPT !.pc = "gate"]
         /\ renudge => poll'.pc = "gate"
  BY DEF TypeOK, Ends, StartsPoll, NoPoll

\* A poll that has just ended, or just begun, is well-typed and has seen nothing.
LEMMA BlankIsTyped ==
  ASSUME NEW p, p = NoPoll \/ p = [NoPoll EXCEPT !.pc = "gate"]
  PROVE  p \in Poll /\ Knows(p) /\ p.pc \in {"none", "gate"}
<1>1. CASE p = NoPoll
  BY <1>1 DEF NoPoll, Poll, Knows, Places, None
<1>2. CASE p = [NoPoll EXCEPT !.pc = "gate"]
  BY <1>2 DEF NoPoll, Poll, Knows, Places, None
<1> QED BY <1>1, <1>2

\* A step that ends a poll, and moves neither the remote nor the row.
LEMMA EndKeeps ==
  ASSUME WatchInv, Ends, owed' \in BOOLEAN, owed' => owed, poll.pc = "gate" => ~owed',
         UNCHANGED <<head, pushed, token, row, shipped>>,
         failed' \in Commits \cup {None}, pending' \in Commits \cup {None},
         nudged' \subseteq Commits, handled' \subseteq Commits
  PROVE  WatchInv'
<1>1. /\ due' \in BOOLEAN /\ renudge' = FALSE
      /\ poll' = NoPoll \/ poll' = [NoPoll EXCEPT !.pc = "gate"]
      /\ renudge => poll'.pc = "gate"
  BY EndIsTyped DEF WatchInv, NudgeIsAnswered
<1>2. poll' \in Poll /\ Knows(poll') /\ poll'.pc \in {"none", "gate"}
  BY <1>1, BlankIsTyped
<1>3. TypeOK'
  BY <1>1, <1>2 DEF WatchInv, NudgeIsAnswered, TypeOK
<1>4. NudgeIsAnswered'
  BY <1>1, <1>3 DEF WatchInv, NudgeIsAnswered
<1>5. ShippedOK'
  BY <1>2 DEF WatchInv, ShippedOK, Fetching
<1> QED BY <1>4, <1>5 DEF WatchInv

LEMMA ConfirmKeeps ==
  ASSUME WatchInv, NEW c \in Commits, Confirms(c), poll.pc # "gate", UNCHANGED failed,
         UNCHANGED <<head, pushed, token, row, shipped, owed>>
  PROVE  WatchInv'
<1>1. /\ pending' \in Commits \cup {None} /\ nudged' \subseteq Commits
      /\ handled' \subseteq Commits /\ failed' \in Commits \cup {None} /\ owed' \in BOOLEAN
  BY DEF WatchInv, NudgeIsAnswered, TypeOK, Confirms
<1> QED BY <1>1, EndKeeps DEF Confirms

---------------------------------------------------------------------------
(* The world.                                                              *)

LEMMA WorldKeeps ==
  ASSUME WatchInv, NEW s \in Sources, Push(s) \/ DeployedByHand(s)
  PROVE  WatchInv'
<1>1. CASE Push(s)
  <2>1. TypeOK'
    BY <1>1 DEF WatchInv, NudgeIsAnswered, TypeOK, Push, memory
  <2> QED BY <1>1, <2>1 DEF WatchInv, NudgeIsAnswered, ShippedOK, Push, memory
<1>2. CASE DeployedByHand(s)
  <2>1. poll' \in Poll /\ Knows(poll') /\ poll'.pc = poll.pc /\ row' \in Row
    BY <1>2 DEF WatchInv, NudgeIsAnswered, TypeOK, Poll, Row, Knows, DeployedByHand
  <2>2. TypeOK'
    BY <1>2, <2>1 DEF WatchInv, NudgeIsAnswered, TypeOK, DeployedByHand
  <2> QED BY <1>2, <2>1, <2>2 DEF WatchInv, NudgeIsAnswered, ShippedOK, DeployedByHand
<1> QED BY <1>1, <1>2

LEMMA OperatorKeeps ==
  ASSUME WatchInv,
         TokenComesAndGoes \/ StoppedOrStarted \/ Reconfigured \/ Converges
  PROVE  WatchInv'
<1> USE DEF memory, histories
<1>1. /\ UNCHANGED <<head, pushed, memory, histories>> /\ token' \in BOOLEAN
      /\ row' \in Row
      /\ row'.source = row.source /\ row'.commit = row.commit
  <2> USE DEF WatchInv, NudgeIsAnswered, TypeOK, Row
  <2>1. CASE TokenComesAndGoes
    BY <2>1 DEF TokenComesAndGoes
  <2>2. CASE StoppedOrStarted
    BY <2>2 DEF StoppedOrStarted
  <2>3. CASE Reconfigured
    BY <2>3 DEF Reconfigured
  <2>4. CASE Converges
    BY <2>4 DEF Converges
  <2> QED BY <2>1, <2>2, <2>3, <2>4
<1>2. TypeOK'
  BY <1>1 DEF WatchInv, NudgeIsAnswered, TypeOK
<1> QED BY <1>1, <1>2 DEF WatchInv, NudgeIsAnswered, ShippedOK, Drifted

LEMMA NudgeKeeps ==
  ASSUME WatchInv, NEW s \in Sources, NEW c \in pushed, Nudge(s, c)
  PROVE  WatchInv'
<1>1. CASE UNCHANGED <<memory, owed>>
  BY <1>1 DEF Nudge, WatchInv, NudgeIsAnswered, TypeOK, ShippedOK, Drifted, memory
<1>2. CASE /\ pending' = c /\ due' = TRUE /\ FollowUp /\ owed' = TRUE
           /\ UNCHANGED <<failed, nudged>>
  <2>0. UNCHANGED <<head, pushed, token, row, handled, shipped>> /\ c \in Commits
    BY DEF Nudge, WatchInv, NudgeIsAnswered, TypeOK
  <2>1. CASE poll.pc = "none"
    <3>1. poll' = [NoPoll EXCEPT !.pc = "gate"] /\ UNCHANGED renudge
      BY <1>2, <2>1 DEF FollowUp, StartsPoll
    <3>2. poll' \in Poll /\ Knows(poll') /\ poll'.pc = "gate"
      BY <3>1, BlankIsTyped DEF NoPoll
    <3>3. TypeOK'
      BY <1>2, <2>0, <3>1, <3>2 DEF WatchInv, NudgeIsAnswered, TypeOK
    <3> QED BY <2>0, <3>2, <3>3 DEF WatchInv, NudgeIsAnswered, ShippedOK, Fetching
  <2>2. CASE poll.pc # "none"
    <3>1. renudge' = TRUE /\ UNCHANGED poll
      BY <1>2, <2>2 DEF FollowUp
    <3>2. TypeOK'
      BY <1>2, <2>0, <3>1 DEF WatchInv, NudgeIsAnswered, TypeOK
    <3> QED BY <2>0, <2>2, <3>1, <3>2 DEF WatchInv, NudgeIsAnswered, ShippedOK, Drifted
  <2> QED BY <2>1, <2>2
<1> QED BY <1>1, <1>2 DEF Nudge

---------------------------------------------------------------------------
(* The schedule.                                                           *)

LEMMA ScheduleKeeps ==
  ASSUME WatchInv, TimePasses \/ TickPolls \/ TickPrunes \/ Restart
  PROVE  WatchInv'
<1>1. CASE TimePasses
  BY <1>1 DEF TimePasses, WatchInv, NudgeIsAnswered, TypeOK, ShippedOK, Drifted, histories
<1>2. CASE TickPolls
  <2>1. poll' \in Poll /\ Knows(poll') /\ poll'.pc = "gate"
    BY <1>2, BlankIsTyped DEF TickPolls, StartsPoll, NoPoll
  <2>2. TypeOK'
    BY <1>2, <2>1 DEF WatchInv, NudgeIsAnswered, TypeOK, TickPolls, histories
  <2> QED BY <1>2, <2>1, <2>2
      DEF WatchInv, NudgeIsAnswered, ShippedOK, Fetching, TickPolls, histories
<1>3. CASE TickPrunes
  <2>1. /\ failed' = None /\ pending' = None /\ renudge' = FALSE /\ owed' = FALSE
        /\ UNCHANGED <<head, pushed, token, row, due, poll, nudged, handled, shipped>>
    BY <1>3 DEF TickPrunes
  <2>2. TypeOK'
    BY <2>1 DEF WatchInv, NudgeIsAnswered, TypeOK
  <2> QED BY <2>1, <2>2 DEF WatchInv, NudgeIsAnswered, ShippedOK, Drifted
<1>4. CASE Restart
  <2>1. poll' \in Poll /\ Knows(poll') /\ poll'.pc = "none"
    BY <1>4, BlankIsTyped DEF Restart, NoPoll
  <2>2. TypeOK'
    BY <1>4, <2>1 DEF WatchInv, NudgeIsAnswered, TypeOK, Restart
  <2> QED BY <1>4, <2>1, <2>2 DEF WatchInv, NudgeIsAnswered, ShippedOK, Fetching, Restart
<1> QED BY <1>1, <1>2, <1>3, <1>4

---------------------------------------------------------------------------
(* The poll.                                                               *)

LEMMA GateKeeps ==
  ASSUME WatchInv, Gate
  PROVE  WatchInv'
<1>1. CASE GivesUp
  BY <1>1, EndKeeps DEF Gate, GivesUp, World, WatchInv, NudgeIsAnswered, TypeOK
<1>2. CASE poll' = [poll EXCEPT !.pc = "probe", !.source = row.source] /\ Still
  <2>1. poll' \in Poll /\ Knows(poll') /\ poll'.pc = "probe"
    BY <1>2 DEF WatchInv, NudgeIsAnswered, TypeOK, Poll, Row, Knows, Places
  <2>2. TypeOK'
    BY <1>2, <2>1 DEF Gate, Still, World, WatchInv, NudgeIsAnswered, TypeOK
  <2> QED BY <1>2, <2>1, <2>2
      DEF Gate, Still, World, WatchInv, NudgeIsAnswered, ShippedOK, Fetching
<1> QED BY <1>1, <1>2 DEF Gate

LEMMA ProbeKeeps ==
  ASSUME WatchInv, ProbeAnswers \/ ProbeFails
  PROVE  WatchInv'
<1>1. CASE ProbeFails
  BY <1>1, EndKeeps DEF ProbeFails, GivesUp, World, WatchInv, NudgeIsAnswered, TypeOK
<1>2. CASE ProbeAnswers
  <2>1. /\ poll' = [poll EXCEPT !.pc = "look", !.sha = head[poll.source]]
        /\ poll.pc = "probe" /\ poll.source \in Sources /\ head[poll.source] \in Commits
    BY <1>2 DEF ProbeAnswers, WatchInv, NudgeIsAnswered, TypeOK, Knows
  <2>2. /\ poll' \in Poll /\ Knows(poll')
        /\ poll'.pc = "look" /\ poll'.source = poll.source /\ poll'.sha = head[poll.source]
    BY <2>1 DEF WatchInv, NudgeIsAnswered, TypeOK, Poll, Knows, Places
  <2>3. TypeOK'
    BY <1>2, <2>2 DEF ProbeAnswers, Still, World, WatchInv, NudgeIsAnswered, TypeOK
  <2> QED BY <1>2, <2>2, <2>3
      DEF ProbeAnswers, Still, World, WatchInv, NudgeIsAnswered, ShippedOK, Fetching
<1> QED BY <1>1, <1>2

LEMMA LookKeeps ==
  ASSUME WatchInv, Look
  PROVE  WatchInv'
<1>0. poll.pc = "look" /\ poll.sha \in Commits
  BY DEF Look, WatchInv, NudgeIsAnswered, TypeOK, Knows
<1>1. CASE GivesUp
  BY <1>1, EndKeeps DEF Look, GivesUp, World, WatchInv, NudgeIsAnswered, TypeOK
<1>2. CASE Confirms(poll.sha) /\ UNCHANGED failed
  BY <1>0, <1>2, ConfirmKeeps DEF Look, World
<1>3. CASE MayAct /\ poll.sha # row.commit /\ Goes("trigger") /\ Still
  <2>1. /\ poll' \in Poll /\ Knows(poll')
        /\ poll'.pc = "trigger" /\ poll'.source = poll.source
    BY <1>0, <1>3 DEF Goes, WatchInv, NudgeIsAnswered, TypeOK, Poll, Knows, Places
  <2>2. TypeOK'
    BY <1>3, <2>1 DEF Look, Still, World, WatchInv, NudgeIsAnswered, TypeOK
  <2> QED BY <1>0, <1>3, <2>1, <2>2
      DEF Look, MayAct, Still, World, WatchInv, NudgeIsAnswered, ShippedOK, Fetching, Drifted
<1> QED BY <1>1, <1>2, <1>3 DEF Look

LEMMA FetchKeeps ==
  ASSUME WatchInv, Trigger \/ Clone \/ Read
  PROVE  WatchInv'
<1> USE DEF WatchInv, NudgeIsAnswered
<1>0. poll.source \in Sources /\ row.source \in Sources /\ head[poll.source] \in Commits
  BY DEF TypeOK, Row, Knows, Trigger, Clone, Read
<1>1. CASE Trigger
  <2>1. /\ poll' \in Poll /\ Knows(poll')
        /\ poll'.pc = "clone" /\ poll'.source = row.source
    BY <1>0, <1>1 DEF Trigger, TypeOK, Poll, Knows, Places
  <2>2. TypeOK'
    BY <1>1, <2>1 DEF Trigger, Still, World, TypeOK
  <2> QED BY <1>1, <2>1, <2>2 DEF Trigger, Still, World, ShippedOK, Fetching, Drifted
<1>2. CASE Clone
  <2>1. /\ poll' \in Poll /\ Knows(poll')
        /\ poll'.pc = "read" /\ poll'.source = poll.source /\ poll'.got = head[poll.source]
    BY <1>0, <1>2 DEF Clone, TypeOK, Poll, Knows, Places
  <2>2. TypeOK'
    BY <1>2, <2>1 DEF Clone, Still, World, TypeOK
  <2> QED BY <1>2, <2>1, <2>2 DEF Clone, Still, World, ShippedOK, Fetching, Drifted
<1>3. CASE Read
  <2>1. /\ poll' \in Poll /\ Knows(poll')
        /\ poll'.pc = "write" /\ poll'.source = poll.source /\ poll'.got = poll.got
    BY <1>0, <1>3 DEF Read, TypeOK, Poll, Row, Knows, Places
  <2>2. TypeOK'
    BY <1>3, <2>1 DEF Read, Still, World, TypeOK
  <2> QED BY <1>3, <2>1, <2>2 DEF Read, Still, World, ShippedOK, Fetching, Drifted
<1> QED BY <1>1, <1>2, <1>3

LEMMA WriteKeeps ==
  ASSUME WatchInv, Write
  PROVE  WatchInv'
<1>1. poll.source \in Sources /\ poll.got \in Commits
  BY DEF Write, WatchInv, NudgeIsAnswered, TypeOK, Knows
<1>2. /\ due' \in BOOLEAN /\ renudge' = FALSE
      /\ poll' = NoPoll \/ poll' = [NoPoll EXCEPT !.pc = "gate"]
      /\ renudge => poll'.pc = "gate"
  BY EndIsTyped DEF Write, Confirms, WatchInv, NudgeIsAnswered
<1>3. poll' \in Poll /\ Knows(poll') /\ poll'.pc \in {"none", "gate"}
  BY <1>2, BlankIsTyped
<1>4. /\ row' \in Row
      /\ row'.source = poll.source /\ row'.commit = poll.got
  BY <1>1 DEF Write, Recorded, WatchInv, NudgeIsAnswered, TypeOK, Poll, Row
<1>5. TypeOK'
  BY <1>1, <1>2, <1>3, <1>4 DEF Write, Confirms, World, WatchInv, NudgeIsAnswered, TypeOK
<1>6. NudgeIsAnswered'
  BY <1>2, <1>5 DEF Write, WatchInv, NudgeIsAnswered
<1>7. ShippedOK'
  BY <1>3, <1>4 DEF Write, ShippedOK, Fetching
<1> QED BY <1>6, <1>7 DEF WatchInv

LEMMA GivenUpKeeps ==
  ASSUME WatchInv, Retries \/ Pins
  PROVE  WatchInv'
<1>1. CASE Retries
  BY <1>1, EndKeeps DEF Retries, GivesUp, World, WatchInv, NudgeIsAnswered, TypeOK
<1>2. CASE Pins
  <2>1. poll.sha \in Commits /\ poll.pc # "gate"
    BY <1>2 DEF Pins, WatchInv, NudgeIsAnswered, TypeOK, Knows
  <2> QED BY <1>2, <2>1, EndKeeps DEF Pins, World, WatchInv, NudgeIsAnswered, TypeOK
<1> QED BY <1>1, <1>2

---------------------------------------------------------------------------
(* The specification.                                                      *)

LEMMA InitWatches == Init => WatchInv
<1> SUFFICES ASSUME Init PROVE WatchInv
  OBVIOUS
<1>1. (CHOOSE s \in Sources : TRUE) \in Sources /\ 1 \in Commits
  BY BoundAssumption DEF Commits
<1>2. poll.pc = "none" /\ poll \in Poll /\ Knows(poll)
  BY BlankIsTyped DEF Init, NoPoll
<1>3. TypeOK
  BY <1>1, <1>2 DEF Init, TypeOK, Row
<1> QED BY <1>3 DEF Init, WatchInv, NudgeIsAnswered, ShippedOK

LEMMA StepWatches == WatchInv /\ [Next]_vars => WatchInv'
<1> SUFFICES ASSUME WatchInv, [Next]_vars PROVE WatchInv'
  OBVIOUS
<1>1. CASE UNCHANGED vars
  BY <1>1
  DEF vars, memory, histories, WatchInv, NudgeIsAnswered, TypeOK, Knows, ShippedOK, Drifted
<1> QED BY <1>1, WorldKeeps, OperatorKeeps, NudgeKeeps, ScheduleKeeps, GateKeeps, ProbeKeeps,
           LookKeeps, FetchKeeps, WriteKeeps, GivenUpKeeps DEF Next, Work

LEMMA WatchInvHolds == Spec => []WatchInv
  BY InitWatches, StepWatches, PTL DEF Spec

---------------------------------------------------------------------------
(* The theorems.                                                           *)

\* nudge, _poll's finally: no push is answered "matched" and then left for the next interval.
THEOREM NudgesAreAnswered == Spec => []NudgeIsAnswered
<1>1. WatchInv => NudgeIsAnswered
  BY DEF WatchInv
<1> QED BY <1>1, WatchInvHolds, PTL

\* The commit that a poll redeploys is not the one it redeployed last, unless the row or
\* the remote moved since.
THEOREM CommitsShipOnce == Spec => ShipsACommitOnce
<1>1. WatchInv /\ [Next]_vars => [Write => shipped # <<poll.source, poll.got>>]_vars
  <2> SUFFICES ASSUME WatchInv, Write, shipped = <<poll.source, poll.got>> PROVE FALSE
    OBVIOUS
  <2>1. poll.pc = "write" /\ poll.got \in Commits
    BY DEF Write, WatchInv, NudgeIsAnswered, TypeOK, Knows
  <2>2. shipped # Nothing
    BY <2>1 DEF Nothing, None, Commits
  <2> QED BY <2>1, <2>2 DEF WatchInv, ShippedOK, Fetching, Drifted
<1> QED BY <1>1, WatchInvHolds, PTL DEF Spec, ShipsACommitOnce
=============================================================================
