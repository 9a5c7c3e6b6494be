----------------------------- MODULE Link_proofs -----------------------------
(***************************************************************************)
(* What TLAPS proves of the node link: of LinkCustody, for any number of   *)
(* callers, paths and clouds, and of LinkMux, for any number of streams    *)
(* and ids, any limit and any choice of the streams that run in an inner   *)
(* task.                                                                   *)
(*                                                                         *)
(* Custody comes first.  The lock has one holder, so what a claim, a       *)
(* device start, an approved poll or an unlink relies on while it waits is *)
(* stated of the holder; only the device poll carries anything across a    *)
(* wait without it.  The stream table is in the second part.               *)
(***************************************************************************)
EXTENDS LinkMux, LinkCustody, TLAPS

Files == {NoPath, Custom}
Node == [key : Nat \ {0}, cloud : Clouds, flow : Nat]
Flow == [id : Nat \ {0}, path : Paths, key : Nat \ {0}, key_file : Files, dir : Dirs, born : Nat]

\* A request, by the route it is of and how far it is.
Request ==
  {Idle} \cup [pc : {"lock"}, op : {"claim", "start", "unlink", "push"}]
  \cup [pc : {"key"}, op : {"claim", "start"}, path : Paths, key_file : Files, dir : Dirs,
        born : Nat]
  \cup [pc : {"hop"}, op : {"claim", "start"}, path : Paths, key : Nat \ {0},
        key_file : Files, dir : Dirs, born : Nat]
  \cup [pc : {"answered"}, op : {"claim"}, path : Paths, node : Nat, key_file : Files,
        dir : Dirs, born : Nat]
  \cup [pc : {"hop"}, op : {"poll"}, flow : Flow]
  \cup [pc : {"lock", "verify"}, op : {"poll"}, flow : Flow, node : Nat]
  \cup [pc : {"hop", "lock"}, op : {"refresh"}, node : Nat \ {0}]
  \cup [pc : {"stop", "addresses", "commit", "wipe"}, op : {"unlink"}, was : BOOLEAN]

Data ==
  /\ config \in [node : NodeIds, domain : Clouds \cup {NoCloud}, key_file : Files, dir : Dirs]
  /\ boot \in [dir : Dirs, key_file : Files, node : NodeIds, live : BOOLEAN]
  /\ keyAt \in [Paths -> 0..keys] /\ keys \in 1..MaxKeys
  /\ enrolled \in Seq(Node) /\ Len(enrolled) <= MaxNodes
  /\ stamp \in Paths \cup {NoPath} /\ wipes \subseteq Paths
  /\ slot \in Flow \cup {NoFlow} /\ flows \in Nat /\ slot.id \in 0..flows
  /\ address \in NodeIds /\ home \in Paths \cup {NoPath} /\ unlinks \in Nat

\* A request that is past its lock holds it, and nobody else does.
Inside(q) ==
  \/ q.pc \in Steps \ {"idle", "lock", "hop"}
  \/ q.pc = "hop" /\ q.op \in {"claim", "start"}
Turns ==
  /\ req \in [Callers -> Request] /\ lock \in Callers \cup {Free}
  /\ \A r \in Callers : lock = r <=> Inside(req[r])

FromConfig(g) == g.path = KeyPath(g.key_file, g.dir)

\* What the holder of the lock relies on.
HolderOK(r) ==
  /\ req[r].op \in {"claim", "start"}
       => config.node = Nobody /\ req[r].born = unlinks /\ FromConfig(req[r])
  /\ req[r].pc = "hop" => keyAt[req[r].path] = req[r].key
  /\ req[r].pc = "answered"
       => req[r].node \in DOMAIN enrolled /\ enrolled[req[r].node].key = keyAt[req[r].path]
  /\ req[r].pc = "verify" => config.node = Nobody /\ req[r].flow.born = unlinks
  /\ req[r].pc \in {"addresses", "commit"} => slot = NoFlow
  /\ req[r].pc = "commit" => address = Nobody
  /\ req[r].pc = "wipe" => config.node = Nobody

\* What a poll carries across its waits.
PollOK(r) ==
  req[r].op = "poll" =>
    /\ FromConfig(req[r].flow)
    /\ req[r].pc # "hop" => /\ req[r].node \in DOMAIN enrolled
                            /\ enrolled[req[r].node].key = req[r].flow.key

\* An unlink takes the pending flow with it.
SlotOK == slot # NoFlow => FromConfig(slot) /\ slot.born = unlinks

NodeOK ==
  /\ config.node \in {Nobody} \cup DOMAIN enrolled
  /\ boot.node \in {Nobody, config.node}

\* Wherever the key path points by now, the key of the link is where it was committed.
KeyHeld ==
  config.node # Nobody /\ home # NoPath => keyAt[home] = enrolled[config.node].key

CustodyInv ==
  /\ Data /\ Turns /\ SlotOK /\ NodeOK /\ KeyHeld /\ ShowsItsOwnLink
  /\ \A r \in Callers : PollOK(r) /\ (lock = r => HolderOK(r))

---------------------------------------------------------------------------
(* Requests and the cloud.                                                 *)

Origin(g) == g.path \in Paths /\ g.key_file \in Files /\ g.dir \in Dirs /\ g.born \in Nat

\* The fields of a request follow from its route and its step.
LEMMA RequestShape ==
  ASSUME NEW q \in Request
  PROVE  /\ q.pc = "key" => q.op \in {"claim", "start"} /\ Origin(q)
         /\ q.pc = "hop" /\ q.op \in {"claim", "start"}
              => Origin(q) /\ q.key \in Nat \ {0}
         /\ q.pc = "answered" => q.op = "claim" /\ Origin(q) /\ q.node \in Nat
         /\ q.op = "poll" => /\ q.flow \in Flow /\ q.pc \in {"hop", "lock", "verify"}
                             /\ q.pc # "hop" => q.node \in Nat
         /\ q.op = "refresh" => q.node \in Nat \ {0} /\ q.pc \in {"hop", "lock"}
         /\ q.op = "unlink" => q.pc \in {"lock", "stop", "addresses", "commit", "wipe"}
         /\ q.pc = "verify" => q.op = "poll"
         /\ q.pc \in {"stop", "addresses", "commit", "wipe"}
              => q.op = "unlink" /\ q.was \in BOOLEAN
         /\ q.op \in {"claim", "start"} => q.pc \in {"lock", "key", "hop", "answered"}
         /\ q.pc \in Steps
  BY DEF Request, Idle, Origin, Steps

LEMMA InvIsTyped == ASSUME CustodyInv PROVE TypeOK
<1>1. ASSUME NEW r \in Callers
      PROVE  /\ req[r].pc \in Steps
             /\ (lock = r) = \/ req[r].pc \in Steps \ {"idle", "lock", "hop"}
                             \/ req[r].pc = "hop" /\ req[r].op \in {"claim", "start"}
  <2>1. req[r] \in Request /\ (lock = r <=> Inside(req[r]))
    BY DEF CustodyInv, Turns
  <2> QED
    BY <2>1, RequestShape DEF Inside
<1> QED
  BY <1>1 DEF CustodyInv, Data, TypeOK, Files, NodeIds

\* Moving on from one step to the next keeps the rest of the request.
LEMMA MovesOn ==
  ASSUME NEW q \in Request
  PROVE  /\ q.pc = "lock" /\ q.op = "poll" =>
              LET s == [q EXCEPT !.pc = "verify"] IN
              /\ s \in Request /\ s.pc = "verify" /\ s.op = "poll"
              /\ s.flow = q.flow /\ s.node = q.node
         /\ q.pc = "hop" /\ q.op = "refresh" =>
              LET s == [q EXCEPT !.pc = "lock"] IN
              s \in Request /\ s.pc = "lock" /\ s.op = "refresh" /\ s.node = q.node
         /\ q.op = "unlink" /\ q.pc \in {"stop", "addresses", "commit"} =>
              \A next \in {"addresses", "commit", "wipe"} :
                LET s == [q EXCEPT !.pc = next] IN
                s \in Request /\ s.pc = next /\ s.op = "unlink" /\ s.was = q.was
  BY DEF Request, Idle

\* A grant names a node with the key it was asked for, and changes no other.
LEMMA GrantsKey ==
  ASSUME Data, NEW key \in Nat \ {0}, NEW flow \in Nat, NEW n \in 1..MaxNodes,
         Grants(key, flow, n)
  PROVE  /\ enrolled' \in Seq(Node) /\ Len(enrolled') <= MaxNodes
         /\ n \in DOMAIN enrolled' /\ enrolled'[n].key = key
         /\ \A m \in DOMAIN enrolled : m \in DOMAIN enrolled' /\ enrolled'[m] = enrolled[m]
<1>1. CASE UNCHANGED enrolled /\ n \in DOMAIN enrolled /\ enrolled[n].key = key
  BY <1>1 DEF Data
<1>2. ASSUME n = Len(enrolled) + 1, n <= MaxNodes, NEW c \in Clouds,
             enrolled' = Append(enrolled, [key |-> key, cloud |-> c, flow |-> flow])
      PROVE  /\ enrolled' \in Seq(Node) /\ Len(enrolled') <= MaxNodes
             /\ n \in DOMAIN enrolled' /\ enrolled'[n].key = key
             /\ \A m \in DOMAIN enrolled : m \in DOMAIN enrolled' /\ enrolled'[m] = enrolled[m]
  <2>1. [key |-> key, cloud |-> c, flow |-> flow] \in Node
    BY DEF Node
  <2>2. enrolled \in Seq(Node)
    BY DEF Data
  <2> QED
    BY <1>2, <2>1, <2>2
<1> QED
  BY <1>1, <1>2 DEF Grants

---------------------------------------------------------------------------
(* One step.                                                               *)

\* One request moves, within its side of the lock or across it.
LEMMA TurnTaken ==
  ASSUME Turns, NEW r \in Callers, NEW q \in Request, req' = [req EXCEPT ![r] = q],
         \/ lock' = lock /\ (Inside(q) <=> Inside(req[r]))
         \/ lock = Free /\ lock' = r /\ Inside(q)
         \/ lock = r /\ lock' = Free /\ ~Inside(q)
  PROVE  /\ Turns' /\ req'[r] = q
         /\ \A s \in Callers : s # r => req'[s] = req[s]
  BY CustodyAssumption DEF Turns, Inside

USE DEF memory, ghosts, At, Return, Release, Count, FromConfig, SlotOK, NodeOK, KeyHeld,
        ShowsItsOwnLink, PollOK, HolderOK, Nobody

Grows == \A m \in DOMAIN enrolled : m \in DOMAIN enrolled' /\ enrolled'[m] = enrolled[m]

\* Nobody else's step disturbs a request: either the other one holds the lock, or it
\* touches nothing that the holder relies on.
LEMMA OthersStay ==
  ASSUME CustodyInv, NEW s \in Callers, req'[s] = req[s], Grows,
         \/ lock # s /\ lock' # s
         \/ /\ lock' = lock /\ UNCHANGED <<keyAt, unlinks, address>>
            /\ config'.node = config.node /\ slot' \in {slot, NoFlow}
  PROVE  PollOK(s)' /\ (lock' = s => HolderOK(s)')
<1>1. PollOK(s) /\ (lock = s => HolderOK(s)) /\ req[s] \in Request
  BY DEF CustodyInv, Turns
<1>2. PollOK(s)'
  BY <1>1, RequestShape DEF Grows
<1>3. ASSUME lock' = s PROVE HolderOK(s)'
  BY <1>1, <1>3, RequestShape DEF Grows
<1> QED
  BY <1>2, <1>3

\* What holds of the link whoever is asking.
World == SlotOK /\ NodeOK /\ KeyHeld /\ ShowsItsOwnLink

\* Request r becomes q on its side of the lock, or crosses it.
Turn(r, q) ==
  \/ lock' = lock /\ (Inside(q) <=> Inside(req[r]))
  \/ lock = Free /\ lock' = r /\ Inside(q)
  \/ lock = r /\ lock' = Free /\ ~Inside(q)

\* Nobody else holds the lock, or what the holder relies on stays.
Apart(r) ==
  \/ lock = r \/ lock' = r
  \/ /\ lock' = lock /\ UNCHANGED <<keyAt, unlinks, address>>
     /\ config'.node = config.node /\ slot' \in {slot, NoFlow}
  \/ lock = Free /\ lock' = Free

\* A step of request r keeps the invariant if it leaves r and the data right.
LEMMA StepTaken ==
  ASSUME CustodyInv, NEW r \in Callers, NEW q \in Request, req' = [req EXCEPT ![r] = q],
         Turn(r, q), Apart(r), Data', World', Grows,
         req'[r] = q => PollOK(r)' /\ (lock' = r => HolderOK(r)')
  PROVE  CustodyInv'
<1>1. Turns' /\ req'[r] = q /\ \A s \in Callers : s # r => req'[s] = req[s]
  BY TurnTaken DEF CustodyInv, Turn
<1>2. ASSUME NEW s \in Callers, s # r PROVE PollOK(s)' /\ (lock' = s => HolderOK(s)')
  <2>1. req'[s] = req[s]
    BY <1>1, <1>2
  <2>2. \/ lock # s /\ lock' # s
        \/ /\ lock' = lock /\ UNCHANGED <<keyAt, unlinks, address>>
           /\ config'.node = config.node /\ slot' \in {slot, NoFlow}
    BY <1>2, CustodyAssumption DEF Apart, Turn
  <2> QED
    BY <2>1, <2>2, OthersStay
<1> QED
  BY <1>1, <1>2 DEF CustodyInv, World

\* What a request may use when its turn comes.
Ready(r) ==
  /\ req[r] \in Request /\ (lock = r <=> Inside(req[r])) /\ r # Free
  /\ PollOK(r) /\ (lock = r => HolderOK(r))
  /\ Data /\ World

LEMMA TurnStarts == ASSUME CustodyInv, NEW r \in Callers PROVE Ready(r)
  BY CustodyAssumption DEF CustodyInv, Turns, Ready, World

USE DEF Ready, World

\* What the cloud enrolled.
LEMMA NodeTyped ==
  ASSUME Data
  PROVE  \A n \in DOMAIN enrolled : /\ n \in 1..MaxNodes /\ n \in NodeIds /\ n # 0
                                   /\ enrolled[n].cloud \in Clouds
                                   /\ enrolled[n].cloud # NoCloud
                                   /\ enrolled[n].key \in Nat \ {0}
<1>1. /\ enrolled \in Seq(Node) /\ DOMAIN enrolled = 1..Len(enrolled)
      /\ Len(enrolled) \in Nat /\ Len(enrolled) <= MaxNodes /\ MaxNodes \in Nat
  BY CustodyAssumption DEF Data
<1>2. ASSUME NEW n \in DOMAIN enrolled PROVE enrolled[n] \in Node
  BY <1>1
<1> QED
  BY <1>1, <1>2, CustodyAssumption DEF Node, NodeIds

---------------------------------------------------------------------------
(* Arrivals, claims and device starts: each lemma names what the request   *)
(* becomes (q), its data, what it does to the link, and its turn.          *)

LEMMA CallKeeps ==
  ASSUME CustodyInv, NEW r \in Callers, NEW op \in {"claim", "start", "unlink", "push"}, Call(r, op)
  PROVE  CustodyInv'
<1> USE DEF Call, Idle
<1> DEFINE q == [pc |-> "lock", op |-> op]
<1>0. Ready(r)
  BY TurnStarts
<1>1. q \in Request /\ req' = [req EXCEPT ![r] = q]
  BY <1>0 DEF Request, Origin
<1>2. Data'
  BY <1>0, CustodyAssumption, NodeTyped DEF Data, Origin, Flow, NodeIds, NoFlow
<1>3. World' /\ Grows
  BY <1>0, NodeTyped DEF Grows, Data
<1>4. req'[r] = q => PollOK(r)' /\ (lock' = r => HolderOK(r)')
  BY <1>0 DEF Inside, Steps
<1>5. Turn(r, q) /\ Apart(r)
  BY <1>0 DEF Turn, Apart, Inside, Steps
<1> HIDE DEF q
<1> QED
  BY <1>1, <1>2, <1>3, <1>4, <1>5, StepTaken

LEMMA CallRefreshKeeps ==
  ASSUME CustodyInv, NEW r \in Callers, CallRefresh(r)
  PROVE  CustodyInv'
<1> USE DEF CallRefresh, Idle
<1> DEFINE q == [pc |-> "hop", op |-> "refresh", node |-> config.node]
<1>0. Ready(r)
  BY TurnStarts
<1>1. q \in Request /\ req' = [req EXCEPT ![r] = q]
  BY <1>0 DEF Request, Origin, Data, NodeIds
<1>2. Data'
  BY <1>0, CustodyAssumption, NodeTyped DEF Data, Origin, Flow, NodeIds, NoFlow
<1>3. World' /\ Grows
  BY <1>0, NodeTyped DEF Grows, Data
<1>4. req'[r] = q => PollOK(r)' /\ (lock' = r => HolderOK(r)')
  BY <1>0 DEF Inside, Steps
<1>5. Turn(r, q) /\ Apart(r)
  BY <1>0 DEF Turn, Apart, Inside, Steps
<1> HIDE DEF q
<1> QED
  BY <1>1, <1>2, <1>3, <1>4, <1>5, StepTaken

LEMMA CallPollKeeps ==
  ASSUME CustodyInv, NEW r \in Callers, CallPoll(r)
  PROVE  CustodyInv'
<1> USE DEF CallPoll, Idle
<1> DEFINE q == [pc |-> "hop", op |-> "poll", flow |-> slot]
<1>0. Ready(r)
  BY TurnStarts
<1>1. q \in Request /\ req' = [req EXCEPT ![r] = q]
  BY <1>0 DEF Request, Origin, Data
<1>2. Data'
  BY <1>0, CustodyAssumption, NodeTyped DEF Data, Origin, Flow, NodeIds, NoFlow
<1>3. World' /\ Grows
  BY <1>0, NodeTyped DEF Grows, Data
<1>4. req'[r] = q => PollOK(r)' /\ (lock' = r => HolderOK(r)')
  BY <1>0 DEF Inside, Steps
<1>5. Turn(r, q) /\ Apart(r)
  BY <1>0 DEF Turn, Apart, Inside, Steps
<1> HIDE DEF q
<1> QED
  BY <1>1, <1>2, <1>3, <1>4, <1>5, StepTaken

LEMMA PreflightsKeeps ==
  ASSUME CustodyInv, NEW r \in Callers, NEW op \in {"claim", "start"}, Preflight(r, op), Linkable
  PROVE  CustodyInv'
<1> USE DEF Preflight, Linkable, DataDirPending, KeyPath
<1> DEFINE q == [pc |-> "key", op |-> op, path |-> KeyPath(config.key_file, boot.dir),
                key_file |-> config.key_file, dir |-> config.dir, born |-> unlinks]
<1>0. Ready(r)
  BY TurnStarts
<1>1. q \in Request /\ req' = [req EXCEPT ![r] = q]
  BY <1>0 DEF Request, Origin, Data, Paths, Files
<1>2. Data'
  BY <1>0, CustodyAssumption, NodeTyped DEF Data, Origin, Flow, NodeIds, NoFlow
<1>3. World' /\ Grows
  BY <1>0, NodeTyped DEF Grows, Data
<1>4. req'[r] = q => PollOK(r)' /\ (lock' = r => HolderOK(r)')
  BY <1>0 DEF Inside, Steps
<1>5. Turn(r, q) /\ Apart(r)
  BY <1>0 DEF Turn, Apart, Inside, Steps
<1> HIDE DEF q
<1> QED
  BY <1>1, <1>2, <1>3, <1>4, <1>5, StepTaken

LEMMA RefusedKeeps ==
  ASSUME CustodyInv, NEW r \in Callers, NEW op \in {"claim", "start"}, Preflight(r, op), ~Linkable
  PROVE  CustodyInv'
<1> USE DEF Preflight, Idle
<1> DEFINE q == Idle
<1>0. Ready(r)
  BY TurnStarts
<1>1. q \in Request /\ req' = [req EXCEPT ![r] = q]
  BY <1>0 DEF Request, Origin
<1>2. Data'
  BY <1>0, CustodyAssumption, NodeTyped DEF Data, Origin, Flow, NodeIds, NoFlow
<1>3. World' /\ Grows
  BY <1>0, NodeTyped DEF Grows, Data
<1>4. req'[r] = q => PollOK(r)' /\ (lock' = r => HolderOK(r)')
  BY <1>0 DEF Inside, Steps
<1>5. Turn(r, q) /\ Apart(r)
  BY <1>0 DEF Turn, Apart, Inside, Steps
<1> HIDE DEF q
<1> QED
  BY <1>1, <1>2, <1>3, <1>4, <1>5, StepTaken

LEMMA LoadKeyKeeps ==
  ASSUME CustodyInv, NEW r \in Callers, LoadKey(r)
  PROVE  CustodyInv'
<1> USE DEF LoadKey
<1> DEFINE q == [pc |-> "hop", op |-> req[r].op, path |-> req[r].path,
                key |-> (keyAt')[req[r].path], key_file |-> req[r].key_file,
                dir |-> req[r].dir, born |-> req[r].born]
<1>0. Ready(r)
  BY TurnStarts
<1>a. req[r].op \in {"claim", "start"} /\ Origin(req[r]) /\ lock = r
  BY <1>0, RequestShape DEF Inside
<1>1. q \in Request /\ req' = [req EXCEPT ![r] = q]
  <2>1. q \in Request
    BY <1>0, <1>a DEF Request, Origin, Data
  <2>2. req' = [req EXCEPT ![r] = q]
    BY <1>0, <1>a DEF Data, Origin
  <2> QED
    BY <2>1, <2>2
<1>2. Data'
  <2>1. keyAt' \in [Paths -> 0..keys'] /\ keys' \in 1..MaxKeys
    BY <1>0, <1>a, CustodyAssumption, NodeTyped, SMTT(40) DEF Data, Origin, Flow, NodeIds, NoFlow
  <2> QED
    BY <1>0, <2>1, CustodyAssumption DEF Data, NodeIds, NoFlow
<1>3. World' /\ Grows
  BY <1>0, <1>a, NodeTyped DEF Grows, Data
<1>4. req'[r] = q => PollOK(r)' /\ (lock' = r => HolderOK(r)')
  BY <1>0, <1>a DEF Inside, Steps
<1>5. Turn(r, q) /\ Apart(r)
  BY <1>0, <1>a DEF Turn, Apart, Inside, Steps
<1> HIDE DEF q
<1> QED
  BY <1>1, <1>2, <1>3, <1>4, <1>5, StepTaken

LEMMA GiveUpKeeps ==
  ASSUME CustodyInv, NEW r \in Callers, GiveUp(r)
  PROVE  CustodyInv'
<1> USE DEF GiveUp, Idle
<1> DEFINE q == Idle
<1>0. Ready(r)
  BY TurnStarts
<1>a. lock = r
  BY <1>0, RequestShape DEF Inside
<1>1. q \in Request /\ req' = [req EXCEPT ![r] = q]
  BY <1>0, <1>a DEF Request, Origin
<1>2. Data'
  BY <1>0, <1>a, CustodyAssumption, NodeTyped DEF Data, Origin, Flow, NodeIds, NoFlow
<1>3. World' /\ Grows
  BY <1>0, <1>a, NodeTyped DEF Grows, Data
<1>4. req'[r] = q => PollOK(r)' /\ (lock' = r => HolderOK(r)')
  BY <1>0, <1>a DEF Inside, Steps
<1>5. Turn(r, q) /\ Apart(r)
  BY <1>0, <1>a DEF Turn, Apart, Inside, Steps
<1> HIDE DEF q
<1> QED
  BY <1>1, <1>2, <1>3, <1>4, <1>5, StepTaken

LEMMA MintKeeps ==
  ASSUME CustodyInv, NEW r \in Callers, Mint(r)
  PROVE  CustodyInv'
<1> USE DEF Mint, Idle
<1> DEFINE q == Idle
<1>0. Ready(r)
  BY TurnStarts
<1>a. lock = r /\ Origin(req[r]) /\ req[r].key \in Nat \ {0}
  BY <1>0, RequestShape DEF Inside
<1>1. q \in Request /\ req' = [req EXCEPT ![r] = q]
  BY <1>0, <1>a DEF Request, Origin
<1>2. Data'
  BY <1>0, <1>a, CustodyAssumption, NodeTyped DEF Data, Origin, Flow, NodeIds, NoFlow
<1>3. World' /\ Grows
  BY <1>0, <1>a, NodeTyped DEF Grows, Data
<1>4. req'[r] = q => PollOK(r)' /\ (lock' = r => HolderOK(r)')
  BY <1>0, <1>a DEF Inside, Steps
<1>5. Turn(r, q) /\ Apart(r)
  BY <1>0, <1>a DEF Turn, Apart, Inside, Steps
<1> HIDE DEF q
<1> QED
  BY <1>1, <1>2, <1>3, <1>4, <1>5, StepTaken

LEMMA ClaimKeeps ==
  ASSUME CustodyInv, NEW r \in Callers, Claim(r)
  PROVE  CustodyInv'
<1> USE DEF Claim, Idle, CommitIdentity
<1> DEFINE q == Idle
<1>0. Ready(r)
  BY TurnStarts
<1>a. lock = r /\ Origin(req[r]) /\ req[r].node \in Nat
  BY <1>0, RequestShape DEF Inside
<1>1. q \in Request /\ req' = [req EXCEPT ![r] = q]
  BY <1>0, <1>a DEF Request, Origin
<1>2. Data'
  <2>1. config' \in [node : NodeIds, domain : Clouds \cup {NoCloud}, key_file : Files, dir : Dirs]
    BY <1>0, <1>a, CustodyAssumption, NodeTyped, ZenonT(60) DEF Data, Origin, Flow, NodeIds, NoFlow
  <2>2. stamp' \in Paths \cup {NoPath} /\ home' \in Paths \cup {NoPath}
    BY <1>0, <1>a, CustodyAssumption, NodeTyped DEF Data, Origin, Flow, NodeIds, NoFlow
  <2> QED
    BY <1>0, <2>1, <2>2, CustodyAssumption DEF Data, NodeIds, NoFlow
<1>3. World' /\ Grows
  BY <1>0, <1>a, NodeTyped DEF Grows, Data
<1>4. req'[r] = q => PollOK(r)' /\ (lock' = r => HolderOK(r)')
  BY <1>0, <1>a DEF Inside, Steps
<1>5. Turn(r, q) /\ Apart(r)
  BY <1>0, <1>a DEF Turn, Apart, Inside, Steps
<1> HIDE DEF q
<1> QED
  BY <1>1, <1>2, <1>3, <1>4, <1>5, StepTaken

LEMMA PollRefusedKeeps ==
  ASSUME CustodyInv, NEW r \in Callers, PollRefused(r)
  PROVE  CustodyInv'
<1> USE DEF PollRefused, Idle, Settle
<1> DEFINE q == Idle
<1>0. Ready(r)
  BY TurnStarts
<1>a. lock # r /\ req[r].flow \in Flow
  BY <1>0, RequestShape DEF Inside
<1>1. q \in Request /\ req' = [req EXCEPT ![r] = q]
  BY <1>0, <1>a DEF Request, Origin
<1>2. Data'
  <2>1. slot' \in {slot, NoFlow}
    BY <1>0, <1>a, CustodyAssumption, NodeTyped DEF Data, Origin, Flow, NodeIds, NoFlow
  <2> QED
    BY <1>0, <2>1, CustodyAssumption DEF Data, NodeIds, NoFlow
<1>3. World' /\ Grows
  BY <1>0, <1>a, NodeTyped DEF Grows, Data
<1>4. req'[r] = q => PollOK(r)' /\ (lock' = r => HolderOK(r)')
  BY <1>0, <1>a DEF Inside, Steps
<1>5. Turn(r, q) /\ Apart(r)
  BY <1>0, <1>a DEF Turn, Apart, Inside, Steps
<1> HIDE DEF q
<1> QED
  BY <1>1, <1>2, <1>3, <1>4, <1>5, StepTaken

LEMMA ExchangeKeeps ==
  ASSUME CustodyInv, NEW r \in Callers, Exchange(r)
  PROVE  CustodyInv'
<1> USE DEF Exchange
<1>0. Ready(r)
  BY TurnStarts
<1>a. lock = r /\ Origin(req[r]) /\ req[r].key \in Nat \ {0}
  BY <1>0, RequestShape DEF Inside
<1>n. PICK n \in 1..MaxNodes :
        /\ Grants(req[r].key, 0, n)
        /\ req' = [req EXCEPT ![r] =
             [pc |-> "answered", op |-> "claim", path |-> req[r].path, node |-> n,
              key_file |-> req[r].key_file, dir |-> req[r].dir, born |-> req[r].born]]
  OBVIOUS
<1>b. /\ enrolled' \in Seq(Node) /\ Len(enrolled') <= MaxNodes
      /\ n \in DOMAIN enrolled' /\ enrolled'[n].key = req[r].key /\ Grows
  BY <1>0, <1>a, <1>n, GrantsKey DEF Grows
<1> DEFINE q == [pc |-> "answered", op |-> "claim", path |-> req[r].path, node |-> n,
                key_file |-> req[r].key_file, dir |-> req[r].dir, born |-> req[r].born]
<1>1. q \in Request /\ req' = [req EXCEPT ![r] = q]
  <2>1. q \in Request
    BY <1>0, <1>a, <1>n, <1>b DEF Request, Origin
  <2>2. req' = [req EXCEPT ![r] = q]
    BY <1>n
  <2> QED
    BY <2>1, <2>2
<1>2. Data'
  <2>1. enrolled' \in Seq(Node) /\ Len(enrolled') <= MaxNodes
    BY <1>b
  <2> QED
    BY <1>0, <2>1, CustodyAssumption DEF Data, NodeIds, NoFlow
<1>3. World' /\ Grows
  BY <1>0, <1>a, <1>n, <1>b, NodeTyped DEF Grows, Data
<1>4. req'[r] = q => PollOK(r)' /\ (lock' = r => HolderOK(r)')
  BY <1>0, <1>a, <1>n, <1>b DEF Inside, Steps
<1>5. Turn(r, q) /\ Apart(r)
  BY <1>0, <1>a, <1>n, <1>b DEF Turn, Apart, Inside, Steps
<1> HIDE DEF q
<1> QED
  BY <1>1, <1>2, <1>3, <1>4, <1>5, StepTaken

LEMMA PollApprovedKeeps ==
  ASSUME CustodyInv, NEW r \in Callers, PollApproved(r)
  PROVE  CustodyInv'
<1> USE DEF PollApproved
<1>0. Ready(r)
  BY TurnStarts
<1>a. lock # r /\ req[r].flow \in Flow /\ req[r].flow.key \in Nat \ {0} /\ req[r].flow.id \in Nat
  BY <1>0, RequestShape DEF Inside, Flow
<1>n. PICK n \in 1..MaxNodes :
        /\ Grants(req[r].flow.key, req[r].flow.id, n)
        /\ req' = [req EXCEPT ![r] =
             [pc |-> "lock", op |-> "poll", flow |-> req[r].flow, node |-> n]]
  OBVIOUS
<1>b. /\ enrolled' \in Seq(Node) /\ Len(enrolled') <= MaxNodes
      /\ n \in DOMAIN enrolled' /\ enrolled'[n].key = req[r].flow.key /\ Grows
  BY <1>0, <1>a, <1>n, GrantsKey DEF Grows
<1> DEFINE q == [pc |-> "lock", op |-> "poll", flow |-> req[r].flow, node |-> n]
<1>1. q \in Request /\ req' = [req EXCEPT ![r] = q]
  <2>1. q \in Request
    BY <1>0, <1>a, <1>n, <1>b DEF Request, Origin
  <2>2. req' = [req EXCEPT ![r] = q]
    BY <1>n
  <2> QED
    BY <2>1, <2>2
<1>2. Data'
  <2>1. enrolled' \in Seq(Node) /\ Len(enrolled') <= MaxNodes
    BY <1>b
  <2> QED
    BY <1>0, <2>1, CustodyAssumption DEF Data, NodeIds, NoFlow
<1>3. World' /\ Grows
  BY <1>0, <1>a, <1>n, <1>b, NodeTyped DEF Grows, Data
<1>4. req'[r] = q => PollOK(r)' /\ (lock' = r => HolderOK(r)')
  BY <1>0, <1>a, <1>n, <1>b DEF Inside, Steps
<1>5. Turn(r, q) /\ Apart(r)
  BY <1>0, <1>a, <1>n, <1>b DEF Turn, Apart, Inside, Steps
<1> HIDE DEF q
<1> QED
  BY <1>1, <1>2, <1>3, <1>4, <1>5, StepTaken

---------------------------------------------------------------------------
(* The device poll past its approval.                                      *)

LEMMA PollVerifiesKeeps ==
  ASSUME CustodyInv, NEW r \in Callers, PollLocks(r),
         slot = req[r].flow, config.node = Nobody, keyAt[req[r].flow.path] # 0
  PROVE  CustodyInv'
<1> USE DEF PollLocks
<1> DEFINE q == [req[r] EXCEPT !.pc = "verify"]
<1>0. Ready(r)
  BY TurnStarts
<1>a. lock # r /\ req[r].flow \in Flow
  BY <1>0, RequestShape DEF Inside
<1>b. /\ q \in Request /\ q.pc = "verify" /\ q.op = "poll"
      /\ q.flow = req[r].flow /\ q.node = req[r].node
  BY <1>0, MovesOn
<1>1. q \in Request /\ req' = [req EXCEPT ![r] = q]
  BY <1>0, <1>a, <1>b DEF Request, Origin
<1>2. Data'
  BY <1>0, <1>a, <1>b, CustodyAssumption, NodeTyped DEF Data, Origin, Flow, NodeIds, NoFlow
<1>3. World' /\ Grows
  BY <1>0, <1>a, <1>b, NodeTyped DEF Grows, Data
<1>4. req'[r] = q => PollOK(r)' /\ (lock' = r => HolderOK(r)')
  BY <1>0, <1>a, <1>b DEF Inside, Steps, NoFlow, Flow
<1>5. Turn(r, q) /\ Apart(r)
  BY <1>0, <1>a, <1>b DEF Turn, Apart, Inside, Steps
<1> HIDE DEF q
<1> QED
  BY <1>1, <1>2, <1>3, <1>4, <1>5, StepTaken

LEMMA PollLostKeeps ==
  ASSUME CustodyInv, NEW r \in Callers, PollLocks(r),
         ~(slot = req[r].flow /\ config.node = Nobody /\ keyAt[req[r].flow.path] # 0)
  PROVE  CustodyInv'
<1> USE DEF PollLocks, Settle, Idle
<1> DEFINE q == Idle
<1>0. Ready(r)
  BY TurnStarts
<1>a. lock # r /\ req[r].flow \in Flow
  BY <1>0, RequestShape DEF Inside
<1>1. q \in Request /\ req' = [req EXCEPT ![r] = q]
  BY <1>0, <1>a DEF Request, Origin
<1>2. Data'
  <2>1. slot' \in {slot, NoFlow}
    BY <1>0, <1>a, CustodyAssumption, NodeTyped DEF Data, Origin, Flow, NodeIds, NoFlow
  <2> QED
    BY <1>0, <2>1, CustodyAssumption, SMTT(40) DEF Data, NodeIds, NoFlow
<1>3. World' /\ Grows
  BY <1>0, <1>a, NodeTyped DEF Grows, Data
<1>4. req'[r] = q => PollOK(r)' /\ (lock' = r => HolderOK(r)')
  BY <1>0, <1>a DEF Inside, Steps
<1>5. Turn(r, q) /\ Apart(r)
  BY <1>0, <1>a DEF Turn, Apart, Inside, Steps
<1> HIDE DEF q
<1> QED
  BY <1>1, <1>2, <1>3, <1>4, <1>5, StepTaken

LEMMA PollCommitsKeeps ==
  ASSUME CustodyInv, NEW r \in Callers, PollCommits(r)
  PROVE  CustodyInv'
<1> USE DEF PollCommits, CommitIdentity, Settle, Idle
<1> DEFINE q == Idle
<1>0. Ready(r)
  BY TurnStarts
<1>a. lock = r /\ req[r].flow \in Flow /\ req[r].node \in Nat
  BY <1>0, RequestShape DEF Inside
<1>1. q \in Request /\ req' = [req EXCEPT ![r] = q]
  BY <1>0, <1>a DEF Request, Origin
<1>2. Data'
  <2>1. config' \in [node : NodeIds, domain : Clouds \cup {NoCloud}, key_file : Files, dir : Dirs]
    BY <1>0, <1>a, NodeTyped DEF Data
  <2>2. stamp' \in Paths \cup {NoPath} /\ home' \in Paths \cup {NoPath}
    BY <1>0, <1>a, NodeTyped DEF Data, Flow
  <2>3. slot' \in {slot, NoFlow}
    BY <1>0, <1>a, CustodyAssumption, NodeTyped DEF Data, Origin, Flow, NodeIds, NoFlow
  <2> QED
    BY <1>0, <2>1, <2>2, <2>3, CustodyAssumption, SMTT(40) DEF Data, NodeIds, NoFlow
<1>3. World' /\ Grows
  BY <1>0, <1>a, NodeTyped DEF Grows, Data
<1>4. req'[r] = q => PollOK(r)' /\ (lock' = r => HolderOK(r)')
  BY <1>0, <1>a DEF Inside, Steps
<1>5. Turn(r, q) /\ Apart(r)
  BY <1>0, <1>a DEF Turn, Apart, Inside, Steps
<1> HIDE DEF q
<1> QED
  BY <1>1, <1>2, <1>3, <1>4, <1>5, StepTaken

---------------------------------------------------------------------------
(* Refresh and push.                                                       *)

LEMMA MetadataFetchedKeeps ==
  ASSUME CustodyInv, NEW r \in Callers, FetchMetadata(r), req' = [req EXCEPT ![r].pc = "lock"]
  PROVE  CustodyInv'
<1> USE DEF FetchMetadata
<1> DEFINE q == [req[r] EXCEPT !.pc = "lock"]
<1>0. Ready(r)
  BY TurnStarts
<1>a. lock # r
  BY <1>0, RequestShape DEF Inside
<1>b. q \in Request /\ q.pc = "lock" /\ q.op = "refresh"
  BY <1>0, MovesOn
<1>1. q \in Request /\ req' = [req EXCEPT ![r] = q]
  <2>1. q \in Request
    BY <1>0, <1>a, <1>b DEF Request, Origin
  <2>2. req' = [req EXCEPT ![r] = q]
    BY <1>0 DEF Request
  <2> QED
    BY <2>1, <2>2
<1>2. Data'
  BY <1>0, <1>a, <1>b, CustodyAssumption, NodeTyped DEF Data, Origin, Flow, NodeIds, NoFlow
<1>3. World' /\ Grows
  BY <1>0, <1>a, <1>b, NodeTyped DEF Grows, Data
<1>4. req'[r] = q => PollOK(r)' /\ (lock' = r => HolderOK(r)')
  BY <1>0, <1>a, <1>b DEF Inside, Steps
<1>5. Turn(r, q) /\ Apart(r)
  BY <1>0, <1>a, <1>b DEF Turn, Apart, Inside, Steps
<1> HIDE DEF q
<1> QED
  BY <1>1, <1>2, <1>3, <1>4, <1>5, StepTaken

LEMMA MetadataLostKeeps ==
  ASSUME CustodyInv, NEW r \in Callers, FetchMetadata(r), req' = [req EXCEPT ![r] = Idle]
  PROVE  CustodyInv'
<1> USE DEF FetchMetadata, Idle
<1> DEFINE q == Idle
<1>0. Ready(r)
  BY TurnStarts
<1>a. lock # r
  BY <1>0, RequestShape DEF Inside
<1>1. q \in Request /\ req' = [req EXCEPT ![r] = q]
  BY <1>0, <1>a DEF Request, Origin
<1>2. Data'
  BY <1>0, <1>a, CustodyAssumption, NodeTyped DEF Data, Origin, Flow, NodeIds, NoFlow
<1>3. World' /\ Grows
  BY <1>0, <1>a, NodeTyped DEF Grows, Data
<1>4. req'[r] = q => PollOK(r)' /\ (lock' = r => HolderOK(r)')
  BY <1>0, <1>a DEF Inside, Steps
<1>5. Turn(r, q) /\ Apart(r)
  BY <1>0, <1>a DEF Turn, Apart, Inside, Steps
<1> HIDE DEF q
<1> QED
  BY <1>1, <1>2, <1>3, <1>4, <1>5, StepTaken

LEMMA RefreshKeeps ==
  ASSUME CustodyInv, NEW r \in Callers, Refresh(r)
  PROVE  CustodyInv'
<1> USE DEF Refresh, Idle
<1> DEFINE q == Idle
<1>0. Ready(r)
  BY TurnStarts
<1>a. lock # r /\ req[r].node \in Nat \ {0}
  BY <1>0, RequestShape DEF Inside
<1>1. q \in Request /\ req' = [req EXCEPT ![r] = q]
  BY <1>0, <1>a DEF Request, Origin
<1>2. Data'
  <2>1. config' \in [node : NodeIds, domain : Clouds \cup {NoCloud}, key_file : Files, dir : Dirs]
    BY <1>0, <1>a, NodeTyped DEF Data
  <2> QED
    BY <1>0, <2>1, CustodyAssumption DEF Data, NodeIds, NoFlow
<1>3. World' /\ Grows
  BY <1>0, <1>a, NodeTyped DEF Grows, Data
<1>4. req'[r] = q => PollOK(r)' /\ (lock' = r => HolderOK(r)')
  BY <1>0, <1>a DEF Inside, Steps
<1>5. Turn(r, q) /\ Apart(r)
  BY <1>0, <1>a DEF Turn, Apart, Inside, Steps
<1> HIDE DEF q
<1> QED
  BY <1>1, <1>2, <1>3, <1>4, <1>5, StepTaken

LEMMA PushKeeps ==
  ASSUME CustodyInv, NEW r \in Callers, Push(r)
  PROVE  CustodyInv'
<1> USE DEF Push, Idle
<1> DEFINE q == Idle
<1>0. Ready(r)
  BY TurnStarts
<1>1. q \in Request /\ req' = [req EXCEPT ![r] = q]
  BY <1>0 DEF Request, Origin
<1>2. Data'
  <2>1. address' \in NodeIds
    BY <1>0, CustodyAssumption, NodeTyped DEF Data, Origin, Flow, NodeIds, NoFlow
  <2> QED
    BY <1>0, <2>1, CustodyAssumption DEF Data, NodeIds, NoFlow
<1>3. World' /\ Grows
  BY <1>0, NodeTyped DEF Grows, Data
<1>4. req'[r] = q => PollOK(r)' /\ (lock' = r => HolderOK(r)')
  BY <1>0 DEF Inside, Steps
<1>5. Turn(r, q) /\ Apart(r)
  BY <1>0 DEF Turn, Apart, Inside, Steps
<1> HIDE DEF q
<1> QED
  BY <1>1, <1>2, <1>3, <1>4, <1>5, StepTaken

---------------------------------------------------------------------------
(* Unlink.                                                                 *)

LEMMA UnlinkLocksKeeps ==
  ASSUME CustodyInv, NEW r \in Callers, UnlinkLocks(r)
  PROVE  CustodyInv'
<1> USE DEF UnlinkLocks
<1> DEFINE q == [pc |-> "stop", op |-> "unlink", was |-> config.node # Nobody \/ boot.live]
<1>0. Ready(r)
  BY TurnStarts
<1>1. q \in Request /\ req' = [req EXCEPT ![r] = q]
  BY <1>0 DEF Request, Origin, Data
<1>2. Data'
  BY <1>0, CustodyAssumption, NodeTyped DEF Data, Origin, Flow, NodeIds, NoFlow
<1>3. World' /\ Grows
  BY <1>0, NodeTyped DEF Grows, Data
<1>4. req'[r] = q => PollOK(r)' /\ (lock' = r => HolderOK(r)')
  BY <1>0 DEF Inside, Steps
<1>5. Turn(r, q) /\ Apart(r)
  BY <1>0 DEF Turn, Apart, Inside, Steps
<1> HIDE DEF q
<1> QED
  BY <1>1, <1>2, <1>3, <1>4, <1>5, StepTaken

LEMMA StopTunnelKeeps ==
  ASSUME CustodyInv, NEW r \in Callers, StopTunnel(r)
  PROVE  CustodyInv'
<1> USE DEF StopTunnel
<1> DEFINE q == [req[r] EXCEPT !.pc = "addresses"]
<1>0. Ready(r)
  BY TurnStarts
<1>a. lock = r
  BY <1>0, RequestShape DEF Inside
<1>b. q \in Request /\ q.pc = "addresses" /\ q.op = "unlink"
  BY <1>0, MovesOn
<1>1. q \in Request /\ req' = [req EXCEPT ![r] = q]
  BY <1>0, <1>a, <1>b DEF Request, Origin
<1>2. Data'
  <2>1. boot' \in [dir : Dirs, key_file : Files, node : NodeIds, live : BOOLEAN]
    BY <1>0, <1>a, <1>b, CustodyAssumption, NodeTyped DEF Data, Origin, Flow, NodeIds, NoFlow
  <2>2. slot' = NoFlow
    BY <1>0, <1>a, <1>b, CustodyAssumption, NodeTyped DEF Data, Origin, Flow, NodeIds, NoFlow
  <2> QED
    BY <1>0, <2>1, <2>2, CustodyAssumption DEF Data, NodeIds, NoFlow
<1>3. World' /\ Grows
  BY <1>0, <1>a, <1>b, NodeTyped DEF Grows, Data
<1>4. req'[r] = q => PollOK(r)' /\ (lock' = r => HolderOK(r)')
  BY <1>0, <1>a, <1>b DEF Inside, Steps, NodeIds
<1>5. Turn(r, q) /\ Apart(r)
  BY <1>0, <1>a, <1>b DEF Turn, Apart, Inside, Steps
<1> HIDE DEF q
<1> QED
  BY <1>1, <1>2, <1>3, <1>4, <1>5, StepTaken

LEMMA ClearAddressesKeeps ==
  ASSUME CustodyInv, NEW r \in Callers, ClearAddresses(r)
  PROVE  CustodyInv'
<1> USE DEF ClearAddresses
<1> DEFINE q == [req[r] EXCEPT !.pc = "commit"]
<1>0. Ready(r)
  BY TurnStarts
<1>a. lock = r
  BY <1>0, RequestShape DEF Inside
<1>b. q \in Request /\ q.pc = "commit" /\ q.op = "unlink"
  BY <1>0, MovesOn
<1>1. q \in Request /\ req' = [req EXCEPT ![r] = q]
  BY <1>0, <1>a, <1>b DEF Request, Origin
<1>2. Data'
  BY <1>0, <1>a, <1>b, CustodyAssumption, NodeTyped, SMTT(40)
     DEF Data, Origin, Flow, NodeIds, NoFlow
<1>3. World' /\ Grows
  BY <1>0, <1>a, <1>b, NodeTyped DEF Grows, Data
<1>4. req'[r] = q => PollOK(r)' /\ (lock' = r => HolderOK(r)')
  BY <1>0, <1>a, <1>b DEF Inside, Steps, NodeIds
<1>5. Turn(r, q) /\ Apart(r)
  BY <1>0, <1>a, <1>b DEF Turn, Apart, Inside, Steps
<1> HIDE DEF q
<1> QED
  BY <1>1, <1>2, <1>3, <1>4, <1>5, StepTaken

LEMMA CommitUnlinkKeeps ==
  ASSUME CustodyInv, NEW r \in Callers, CommitUnlink(r)
  PROVE  CustodyInv'
<1> USE DEF CommitUnlink
<1> DEFINE q == [req[r] EXCEPT !.pc = "wipe"]
<1>0. Ready(r)
  BY TurnStarts
<1>a. lock = r
  BY <1>0, RequestShape DEF Inside
<1>b. q \in Request /\ q.pc = "wipe" /\ q.op = "unlink"
  BY <1>0, MovesOn
<1>1. q \in Request /\ req' = [req EXCEPT ![r] = q]
  BY <1>0, <1>a, <1>b DEF Request, Origin
<1>2. Data'
  <2>1. boot' \in [dir : Dirs, key_file : Files, node : NodeIds, live : BOOLEAN]
    BY <1>0, <1>a, <1>b, CustodyAssumption, NodeTyped DEF Data, Origin, Flow, NodeIds, NoFlow
  <2>2. config' \in [node : NodeIds, domain : Clouds \cup {NoCloud}, key_file : Files, dir : Dirs]
    BY <1>0, <1>a, <1>b, CustodyAssumption, NodeTyped DEF Data, Origin, Flow, NodeIds, NoFlow
  <2> QED
    BY <1>0, <2>1, <2>2, CustodyAssumption, SMTT(40) DEF Data, NodeIds, NoFlow
<1>3. World' /\ Grows
  BY <1>0, <1>a, <1>b, NodeTyped DEF Grows, Data
<1>4. req'[r] = q => PollOK(r)' /\ (lock' = r => HolderOK(r)')
  BY <1>0, <1>a, <1>b DEF Inside, Steps, NodeIds
<1>5. Turn(r, q) /\ Apart(r)
  BY <1>0, <1>a, <1>b DEF Turn, Apart, Inside, Steps
<1> HIDE DEF q
<1> QED
  BY <1>1, <1>2, <1>3, <1>4, <1>5, StepTaken

LEMMA WipeKeeps ==
  ASSUME CustodyInv, NEW r \in Callers, Wipe(r)
  PROVE  CustodyInv'
<1> USE DEF Wipe, Idle
<1> DEFINE q == Idle
<1>0. Ready(r)
  BY TurnStarts
<1>a. lock = r /\ config.node = Nobody
  BY <1>0, RequestShape DEF Inside
<1>1. q \in Request /\ req' = [req EXCEPT ![r] = q]
  BY <1>0, <1>a DEF Request, Origin
<1>2. Data'
  <2>1. keyAt' \in [Paths -> 0..keys']
    BY <1>0, <1>a, CustodyAssumption, NodeTyped DEF Data, Origin, Flow, NodeIds, NoFlow
  <2>2. wipes' \subseteq Paths
    BY <1>0, <1>a DEF Data, WipeTargets, KeyPath, Paths, Files
  <2> QED
    BY <1>0, <2>1, <2>2, CustodyAssumption DEF Data, NodeIds, NoFlow
<1>3. World' /\ Grows
  BY <1>0, <1>a, NodeTyped DEF Grows, Data
<1>4. req'[r] = q => PollOK(r)' /\ (lock' = r => HolderOK(r)')
  BY <1>0, <1>a DEF Inside, Steps
<1>5. Turn(r, q) /\ Apart(r)
  BY <1>0, <1>a DEF Turn, Apart, Inside, Steps
<1> HIDE DEF q
<1> QED
  BY <1>1, <1>2, <1>3, <1>4, <1>5, StepTaken

---------------------------------------------------------------------------
(* The rest of the world.                                                  *)

\* A step that no request takes.
LEMMA OthersStep ==
  ASSUME CustodyInv, UNCHANGED <<req, lock, unlinks, address>>, config'.node = config.node,
         lock = Free \/ UNCHANGED keyAt, slot' \in {slot, NoFlow},
         Data', SlotOK', NodeOK', KeyHeld', ShowsItsOwnLink', Grows
  PROVE  CustodyInv'
<1>1. Turns'
  BY DEF CustodyInv, Turns
<1>2. ASSUME NEW r \in Callers PROVE PollOK(r)' /\ (lock' = r => HolderOK(r)')
  BY <1>2, OthersStay, CustodyAssumption
<1> QED
  BY <1>1, <1>2 DEF CustodyInv

LEMMA PollExpiredKeeps == ASSUME CustodyInv, PollExpired PROVE CustodyInv'
<1> USE DEF PollExpired
<1>1. Data /\ SlotOK /\ NodeOK /\ KeyHeld /\ ShowsItsOwnLink
  BY DEF CustodyInv
<1>2. Data'
  BY <1>1 DEF Data, NoFlow
<1>3. SlotOK' /\ NodeOK' /\ KeyHeld' /\ ShowsItsOwnLink' /\ Grows
  BY <1>1 DEF Grows
<1> QED
  BY <1>2, <1>3, OthersStep

LEMMA PutKeyPathKeeps == ASSUME CustodyInv, PutKeyPath PROVE CustodyInv'
<1> USE DEF PutKeyPath
<1>1. Data /\ SlotOK /\ NodeOK /\ KeyHeld /\ ShowsItsOwnLink
  BY DEF CustodyInv
<1>2. Data'
  <2>1. /\ config' \in [node : NodeIds, domain : Clouds \cup {NoCloud}, key_file : Files,
                        dir : Dirs]
        /\ config'.node = config.node
    BY <1>1 DEF Data, Files
  <2> QED
    BY <1>1, <2>1 DEF Data
<1>3. config'.node = config.node /\ config'.domain = config.domain
  BY <1>1 DEF Data
<1>4. SlotOK' /\ NodeOK' /\ KeyHeld' /\ ShowsItsOwnLink' /\ Grows
  BY <1>1, <1>3 DEF Grows
<1> QED
  BY <1>2, <1>3, <1>4, OthersStep

LEMMA SwapKeyKeeps ==
  ASSUME CustodyInv, NEW p \in Paths, SwapKey(p) PROVE CustodyInv'
<1> USE DEF SwapKey
<1>1. Data /\ SlotOK /\ NodeOK /\ KeyHeld /\ ShowsItsOwnLink
  BY DEF CustodyInv
<1>2. Data'
  <2>1. keys' \in 1..MaxKeys /\ keys' >= keys /\ keys \in Nat
    BY <1>1, CustodyAssumption DEF Data
  <2>2. PICK k \in 0..keys' : keyAt' = [keyAt EXCEPT ![p] = k]
    BY <1>1, <2>1, SMTT(40) DEF Data
  <2>3. keyAt' \in [Paths -> 0..keys']
    BY <1>1, <2>1, <2>2 DEF Data
  <2>4. home' \in Paths \cup {NoPath}
    BY <1>1 DEF Data
  <2> QED
    BY <1>1, <2>1, <2>3, <2>4 DEF Data
<1>3. KeyHeld'
  BY <1>1, CustodyAssumption DEF Data
<1>4. SlotOK' /\ NodeOK' /\ ShowsItsOwnLink' /\ Grows
  BY <1>1 DEF Grows
<1> QED
  BY <1>2, <1>3, <1>4, OthersStep

LEMMA RestartKeeps == ASSUME CustodyInv, Restart PROVE CustodyInv'
<1> USE DEF Restart
<1>1. Data /\ SlotOK /\ NodeOK /\ KeyHeld /\ ShowsItsOwnLink
  BY DEF CustodyInv
<1>2. NextBootPath \in Paths
  BY <1>1 DEF Data, NextBootPath, KeyPath, Paths, Files
<1>3. PICK live \in BOOLEAN :
        LET makes == live /\ keyAt[NextBootPath] = 0
        IN /\ live => config.node # Nobody
           /\ makes => keys < MaxKeys
           /\ keys' = IF makes THEN keys + 1 ELSE keys
           /\ keyAt' = [keyAt EXCEPT ![NextBootPath] = IF makes THEN keys + 1 ELSE @]
           /\ boot' = [dir |-> config.dir, key_file |-> config.key_file,
                       node |-> config.node, live |-> live]
  OBVIOUS
<1>4. Data'
  <2>1. keyAt' \in [Paths -> 0..keys'] /\ keys' \in 1..MaxKeys
    BY <1>1, <1>2, <1>3, CustodyAssumption DEF Data
  <2>2. boot' \in [dir : Dirs, key_file : Files, node : NodeIds, live : BOOLEAN]
    BY <1>1, <1>3 DEF Data
  <2> QED
    BY <1>1, <2>1, <2>2 DEF Data, NoFlow
<1>5. Turns' /\ \A r \in Callers : req'[r] = Idle /\ lock' # r
  BY CustodyAssumption DEF Turns, Inside, Request, Idle, Steps
<1>6. KeyHeld'
  BY <1>1, <1>2, <1>3, NodeTyped DEF Data
<1>7. SlotOK' /\ NodeOK' /\ ShowsItsOwnLink'
  BY <1>1, <1>3
<1>8. \A r \in Callers : PollOK(r)'
  BY <1>5 DEF Idle
<1> QED
  BY <1>4, <1>5, <1>6, <1>7, <1>8 DEF CustodyInv

---------------------------------------------------------------------------
(* The specification.                                                      *)

LEMMA InitHolds == ASSUME Init PROVE CustodyInv
<1> USE DEF Init
<1>1. Data
  <2>1. (CHOOSE d \in Dirs : TRUE) \in Dirs
    BY CustodyAssumption
  <2>2. enrolled \in Seq(Node) /\ Len(enrolled) = 0
    OBVIOUS
  <2> QED
    BY <2>1, <2>2, CustodyAssumption DEF Data, NodeIds, Files, Paths, NoFlow
<1>2. Turns /\ \A r \in Callers : req[r] = Idle /\ lock # r
  BY CustodyAssumption DEF Turns, Inside, Request, Idle, Steps
<1>3. SlotOK /\ NodeOK /\ KeyHeld /\ ShowsItsOwnLink
  OBVIOUS
<1>4. \A r \in Callers : PollOK(r)
  BY <1>2 DEF Idle
<1> QED
  BY <1>1, <1>2, <1>3, <1>4 DEF CustodyInv

LEMMA AnswerKeeps == ASSUME CustodyInv, NEW r \in Callers, Answer(r) PROVE CustodyInv'
<1>1. CASE Preflight(r, "claim") \/ Preflight(r, "start")
  BY <1>1, PreflightsKeeps, RefusedKeeps
<1>2. CASE LoadKey(r) \/ GiveUp(r) \/ Exchange(r) \/ Mint(r) \/ Claim(r)
  BY <1>2, LoadKeyKeeps, GiveUpKeeps, ExchangeKeeps, MintKeeps, ClaimKeeps
<1>3. CASE PollApproved(r) \/ PollRefused(r) \/ PollLocks(r) \/ PollCommits(r)
  BY <1>3, PollApprovedKeeps, PollRefusedKeeps, PollVerifiesKeeps, PollLostKeeps,
     PollCommitsKeeps
<1>4. CASE FetchMetadata(r)
  BY <1>4, MetadataFetchedKeeps, MetadataLostKeeps DEF FetchMetadata
<1>5. CASE Refresh(r) \/ Push(r)
  BY <1>5, RefreshKeeps, PushKeeps
<1>6. CASE UnlinkLocks(r) \/ StopTunnel(r) \/ ClearAddresses(r) \/ CommitUnlink(r) \/ Wipe(r)
  BY <1>6, UnlinkLocksKeeps, StopTunnelKeeps, ClearAddressesKeeps, CommitUnlinkKeeps, WipeKeeps
<1> QED
  BY <1>1, <1>2, <1>3, <1>4, <1>5, <1>6 DEF Answer

LEMMA NextKeeps == ASSUME CustodyInv, [Next]_vars PROVE CustodyInv'
<1>1. ASSUME NEW r \in Callers, NEW op \in {"claim", "start", "unlink", "push"}, Call(r, op)
      PROVE  CustodyInv'
  BY <1>1, CallKeeps
<1>2. ASSUME NEW r \in Callers, CallRefresh(r) \/ CallPoll(r) \/ Answer(r) PROVE CustodyInv'
  BY <1>2, CallRefreshKeeps, CallPollKeeps, AnswerKeeps
<1>3. CASE PollExpired \/ PutKeyPath \/ (\E p \in Paths : SwapKey(p)) \/ Restart
  BY <1>3, PollExpiredKeeps, PutKeyPathKeeps, SwapKeyKeeps, RestartKeeps
<1>4. CASE UNCHANGED vars
  BY <1>4 DEF vars, CustodyInv, Data, Turns
<1> QED
  BY <1>1, <1>2, <1>3, <1>4 DEF Next

\* The inductive invariant: who is inside the lock, and what it may rely on while it waits.
THEOREM CustodyInvHolds == Spec => []CustodyInv
<1>1. Init => CustodyInv
  BY InitHolds
<1>2. CustodyInv /\ [Next]_vars => CustodyInv'
  BY NextKeeps
<1> QED
  BY <1>1, <1>2, PTL DEF Spec

\* Every variable keeps its type, and a request past its lock is the one that holds it.
THEOREM TypeCorrect == Spec => []TypeOK
<1>1. CustodyInv => TypeOK
  BY InvIsTyped
<1> QED
  BY <1>1, CustodyInvHolds, PTL

\* A linked daemon whose key file nobody moved or touched by hand finds in it the key of its
\* node, whatever unlinks, retried wipes, crashes and other requests for an identity do.
THEOREM LinkedKeysAreKept == Spec => []KeyOutlivesTheLink
<1>1. CustodyInv => KeyOutlivesTheLink
  <2> SUFFICES ASSUME CustodyInv PROVE KeyOutlivesTheLink
    OBVIOUS
  <2>1. NextBootPath \in Paths
    BY DEF CustodyInv, Data, NextBootPath, KeyPath, Paths, Files
  <2> QED
    BY <2>1, CustodyAssumption DEF CustodyInv, KeyOutlivesTheLink
<1> QED
  BY <1>1, CustodyInvHolds, PTL

\* The hosted domain and the stored addresses are those of the linked node.
THEOREM LinksShowTheirOwn == Spec => []ShowsItsOwnLink
<1>1. CustodyInv => ShowsItsOwnLink
  BY DEF CustodyInv
<1> QED
  BY <1>1, CustodyInvHolds, PTL

\* Only a claim or an approved poll links, each with its own grant.
LEMMA OnlyGrantsLink ==
  ASSUME CustodyInv, [Next]_vars
  PROVE  \/ config'.node \in {Nobody, config.node}
         \/ \E r \in Callers :
              \/ Claim(r) /\ ~ConfigMoved(req[r])
              \/ /\ PollCommits(r) /\ ~ConfigMoved(req[r].flow)
                 /\ keyAt[req[r].flow.path] = req[r].flow.key
<1> USE DEF CustodyInv, Data
<1>1. ASSUME NEW r \in Callers, NEW op \in {"claim", "start", "unlink", "push"}, Call(r, op)
      PROVE  config'.node = config.node
  BY <1>1 DEF Call
<1>2. ASSUME NEW r \in Callers, CallRefresh(r) \/ CallPoll(r) PROVE config'.node = config.node
  BY <1>2 DEF CallRefresh, CallPoll
<1>3. ASSUME NEW r \in Callers,
             \/ Preflight(r, "claim") \/ Preflight(r, "start") \/ LoadKey(r) \/ GiveUp(r)
             \/ Exchange(r) \/ Mint(r) \/ PollApproved(r) \/ PollRefused(r) \/ PollLocks(r)
             \/ FetchMetadata(r) \/ Refresh(r) \/ Push(r) \/ UnlinkLocks(r) \/ StopTunnel(r)
             \/ ClearAddresses(r) \/ Wipe(r)
      PROVE  config'.node = config.node
  BY <1>3 DEF Preflight, LoadKey, GiveUp, Exchange, Mint, PollApproved, PollRefused, PollLocks,
              FetchMetadata, Refresh, Push, UnlinkLocks, StopTunnel, ClearAddresses, Wipe
<1>4. ASSUME NEW r \in Callers, CommitUnlink(r) PROVE config'.node = Nobody
  BY <1>4 DEF CommitUnlink
<1>5. ASSUME NEW r \in Callers, Claim(r)
      PROVE  config'.node = config.node \/ ~ConfigMoved(req[r])
  BY <1>5 DEF Claim
<1>6. ASSUME NEW r \in Callers, PollCommits(r)
      PROVE  \/ config'.node = config.node
             \/ ~ConfigMoved(req[r].flow) /\ keyAt[req[r].flow.path] = req[r].flow.key
  BY <1>6 DEF PollCommits
<1>7. CASE PollExpired \/ PutKeyPath \/ (\E p \in Paths : SwapKey(p)) \/ Restart
  BY <1>7 DEF PollExpired, PutKeyPath, SwapKey, Restart
<1>8. CASE UNCHANGED vars
  BY <1>8 DEF vars
<1> QED
  BY <1>1, <1>2, <1>3, <1>4, <1>5, <1>6, <1>7, <1>8 DEF Next, Answer

\* What such a step commits: the node whose key is where the next boot looks for it, for a
\* request as young as the last unlink.
LEMMA GrantCommits ==
  ASSUME CustodyInv, NEW r \in Callers,
         \/ Claim(r) /\ ~ConfigMoved(req[r])
         \/ /\ PollCommits(r) /\ ~ConfigMoved(req[r].flow)
            /\ keyAt[req[r].flow.path] = req[r].flow.key
  PROVE  /\ config.node = Nobody /\ asked' = unlinks
         /\ keyAt'[NextBootPath'] = enrolled'[config'.node].key
<1>0. Ready(r)
  BY TurnStarts
<1> USE DEF ConfigMoved, CommitIdentity, NextBootPath
<1>1. ASSUME Claim(r), ~ConfigMoved(req[r])
      PROVE  /\ config.node = Nobody /\ asked' = unlinks
             /\ keyAt'[NextBootPath'] = enrolled'[config'.node].key
  <2>1. lock = r
    BY <1>0, <1>1, RequestShape DEF Inside, Claim, Steps
  <2>2. config'.node = req[r].node /\ config'.key_file = config.key_file /\ config'.dir = config.dir
    BY <1>0, <1>1 DEF Claim, Data
  <2> QED
    BY <1>0, <1>1, <2>1, <2>2 DEF Claim
<1>2. ASSUME PollCommits(r), ~ConfigMoved(req[r].flow), keyAt[req[r].flow.path] = req[r].flow.key
      PROVE  /\ config.node = Nobody /\ asked' = unlinks
             /\ keyAt'[NextBootPath'] = enrolled'[config'.node].key
  <2>1. lock = r
    BY <1>0, <1>2, RequestShape DEF Inside, PollCommits, Steps
  <2>2. config'.node = req[r].node /\ config'.key_file = config.key_file /\ config'.dir = config.dir
    BY <1>0, <1>2 DEF PollCommits, Data
  <2> QED
    BY <1>0, <1>2, <2>1, <2>2 DEF PollCommits
<1> QED
  BY <1>1, <1>2

\* The step that links leaves the enrolled key where the next boot reads it, although the key
\* path can be moved and the file be swapped while the cloud is asked.
THEOREM LinksProveTheirKey == Spec => LinksTheKeyItProved
<1>1. ASSUME CustodyInv, [Next]_vars
      PROVE  [config.node = Nobody /\ config'.node # Nobody
                => keyAt'[NextBootPath'] = enrolled'[config'.node].key]_vars
  BY <1>1, OnlyGrantsLink, GrantCommits
<1> QED
  BY <1>1, CustodyInvHolds, PTL DEF Spec, LinksTheKeyItProved

\* Nothing replaces an identity, and no request older than the last unlink links again.
THEOREM LinksAreAskedFor == Spec => LinksOnlyOnAsking
<1>1. ASSUME CustodyInv, [Next]_vars
      PROVE  [config'.node \notin {Nobody, config.node}
                => config.node = Nobody /\ asked' = unlinks]_vars
  BY <1>1, OnlyGrantsLink, GrantCommits
<1> QED
  BY <1>1, CustodyInvHolds, PTL DEF Spec, LinksOnlyOnAsking

---------------------------------------------------------------------------
(* The stream table.  The invariant adds to the types and to the tracking  *)
(* of live streams what every place of a task knows of the frames that     *)
(* went out before it.                                                     *)

\* Nothing is known of a stream that was not opened yet.
NotYet(g) == pc[g] = "none" /\ ~cancel[g] /\ out[g] = "nothing"
StreamsToCome == \A g \in Streams : g > opened => NotYet(g)

\* Every live task is registered until it is cancelled.
Tracked == \A g \in Streams : Alive(g) /\ ~cancel[g] => table[sid[g]] = g

\* The frames a stream has sent when its task is at a place: the first frame is a
\* head or an error, a body needs a head, and an end comes once.
SentAt(p, o) ==
  /\ o # "torn"
  /\ p \in {"body", "gate", "dial", "refuse"} => o = "nothing"
  /\ p \in {"refuse_end", "pump"} => o = "head"
  /\ p = "ended" => o \in {"end", "error"}
  /\ p = "late" => o \in {"nothing", "head", "end", "error"}
OutputOK == \A g \in Streams : SentAt(pc[g], out[g])

MuxInv == MuxTypeOK /\ StreamsToCome /\ Tracked /\ OutputOK

---------------------------------------------------------------------------
\* What any step of a task does to its stream: its place moves on, frames may go out.
Moves(g, p, o) ==
  /\ pc' = [pc EXCEPT ![g] = p] /\ out' = [out EXCEPT ![g] = o]
  /\ UNCHANGED <<opened, sid, kind, relay, table, cancel, complete, overflow, tunnel, closed>>

\* A frame that goes out, or does not: the two ends of SendThen.
LEMMA Sends ==
  ASSUME MuxTypeOK, NEW g \in Streams, NEW f, NEW next, SendThen(g, f, next),
         UNCHANGED TaskFrame
  PROVE  \/ Moves(g, next, AfterFrame(out[g], f))
         \/ Moves(g, "exit", out[g])
<1>1. out = [out EXCEPT ![g] = out[g]]
  BY DEF MuxTypeOK
<1> QED BY <1>1 DEF SendThen, Goto, Moves, TaskFrame, MuxTypeOK

\* A move of a live task to a place that fits what was sent keeps the invariant.
LEMMA MoveKeeps ==
  ASSUME MuxInv, NEW g \in Streams, NEW p \in Place, NEW o \in Sent,
         Alive(g), p # "none", SentAt(p, o), Moves(g, p, o)
  PROVE  MuxInv'
<1>1. MuxTypeOK'
  BY DEF MuxInv, Moves, MuxTypeOK
<1>2. StreamsToCome'
  BY DEF MuxInv, Moves, MuxTypeOK, StreamsToCome, NotYet, Alive
<1>3. Tracked'
  BY DEF MuxInv, Moves, MuxTypeOK, Tracked, Alive
<1>4. OutputOK'
  BY DEF MuxInv, Moves, MuxTypeOK, OutputOK
<1> QED BY <1>1, <1>2, <1>3, <1>4 DEF MuxInv

\* Every step of a task is such a move.
LEMMA TaskMoves ==
  ASSUME MuxInv, NEW g \in Streams,
         Step(g) \/ Watchdog(g) \/ CancelLands(g)
  PROVE  \E p \in Place \ {"none"}, o \in Sent :
           /\ Alive(g) /\ SentAt(p, o) /\ Moves(g, p, o)
           /\ o # out[g] => Runs(g)
<1> DEFINE Goal == \E p \in Place \ {"none"}, o \in Sent :
             /\ Alive(g) /\ SentAt(p, o) /\ Moves(g, p, o)
             /\ o # out[g] => Runs(g)
<1> USE DEF Place, Serving, Sent, Alive
<1>0. SentAt(pc[g], out[g]) /\ out[g] \in Sent /\ pc[g] \in Place /\ MuxTypeOK
  BY DEF MuxInv, OutputOK, MuxTypeOK
<1>1. ASSUME NEW p \in Place \ {"none"}, Goto(g, p), UNCHANGED <<out, TaskFrame>>,
             Alive(g), SentAt(p, out[g])
      PROVE  Goal
  <2>1. Moves(g, p, out[g])
    BY <1>0, <1>1 DEF Goto, Moves, TaskFrame, MuxTypeOK
  <2> QED BY <1>0, <1>1, <2>1
<1>2. ASSUME NEW f, NEW next \in Place \ {"none"}, SendThen(g, f, next),
             UNCHANGED TaskFrame, Alive(g), Runs(g),
             SentAt(next, AfterFrame(out[g], f))
      PROVE  Goal
  <2>1. AfterFrame(out[g], f) \in Sent
    BY DEF AfterFrame
  <2>2. SentAt("exit", out[g])
    BY <1>0 DEF SentAt
  <2> QED BY <1>0, <1>2, <2>1, <2>2, Sends
<1>3. CASE AwaitBody(g)
  <2>1. out[g] = "nothing"
    BY <1>0, <1>3 DEF AwaitBody, SentAt
  <2>2. SentAt("exit", AfterFrame(out[g], "error"))
    BY <2>1 DEF SentAt, AfterFrame
  <2>3. SentAt("gate", out[g]) /\ SentAt("dial", out[g])
    BY <2>1 DEF SentAt
  <2> QED BY <1>1, <1>2, <1>3, <2>2, <2>3 DEF AwaitBody, BodyTimedOut
<1>4. CASE Gate(g)
  <2>1. SentAt("dial", out[g]) /\ SentAt("refuse", out[g])
    BY <1>0, <1>4 DEF Gate, SentAt
  <2>2. PICK p \in {"dial", "refuse"} : Goto(g, p)
    BY <1>4 DEF Gate, Goto
  <2> QED BY <1>1, <1>4, <2>1, <2>2 DEF Gate
<1>5. CASE Refuse(g)
  <2>1. pc[g] = "refuse" => SentAt("refuse_end", AfterFrame(out[g], "head"))
    BY <1>0 DEF SentAt, AfterFrame
  <2>2. pc[g] = "refuse_end" => SentAt("ended", AfterFrame(out[g], "end"))
    BY <1>0 DEF SentAt, AfterFrame
  <2> QED BY <1>2, <1>5, <2>1, <2>2 DEF Refuse
<1>6. CASE Dial(g)
  <2>1. SentAt("pump", AfterFrame(out[g], "head")) /\ SentAt("late", out[g])
    BY <1>0, <1>6 DEF Dial, SentAt, AfterFrame
  <2> QED BY <1>1, <1>2, <1>6, <2>1 DEF Dial
<1>7. CASE Pump(g)
  <2>1. /\ SentAt("pump", AfterFrame(out[g], "body"))
        /\ SentAt("ended", AfterFrame(out[g], "end"))
        /\ SentAt("ended", AfterFrame(out[g], "error")) /\ SentAt("late", out[g])
    BY <1>0, <1>7 DEF Pump, SentAt, AfterFrame
  <2> QED BY <1>1, <1>2, <1>7, <2>1 DEF Pump, Overrun
<1>8. CASE CloseResponse(g)
  <2>1. SentAt("exit", out[g])
    BY <1>0 DEF SentAt
  <2> QED BY <1>1, <1>8, <2>1 DEF CloseResponse
<1>9. CASE Fail(g)
  <2>1. SentAt("exit", AfterFrame(out[g], "error"))
    BY <1>0, <1>9 DEF Fail, SentAt, AfterFrame
  <2> QED BY <1>2, <1>9, <2>1 DEF Fail, FailLate
<1>10. CASE Watchdog(g)
  <2>1. SentAt("late", out[g])
    BY <1>0, <1>10 DEF Watchdog, SentAt
  <2> QED BY <1>1, <1>10, <2>1 DEF Watchdog
<1>11. CASE CancelLands(g)
  <2>1. SentAt("exit", out[g])
    BY <1>0 DEF SentAt
  <2> QED BY <1>1, <1>11, <2>1 DEF CancelLands
<1> QED BY <1>3, <1>4, <1>5, <1>6, <1>7, <1>8, <1>9, <1>10, <1>11 DEF Step

\* The finally of _serve lets go of its own entry only.
LEMMA FinishKeeps ==
  ASSUME MuxInv, NEW g \in Streams, Finish(g)
  PROVE  MuxInv'
<1>1. MuxTypeOK'
  BY DEF MuxInv, Finish, Without, Goto, MuxTypeOK, Place, None
<1>2. StreamsToCome'
  BY DEF MuxInv, Finish, Goto, MuxTypeOK, StreamsToCome, NotYet
<1>3. Tracked'
  BY DEF MuxInv, Finish, Without, Goto, MuxTypeOK, Tracked, Alive
<1>4. OutputOK'
  BY DEF MuxInv, Finish, Goto, MuxTypeOK, OutputOK, SentAt
<1> QED BY <1>1, <1>2, <1>3, <1>4 DEF MuxInv

---------------------------------------------------------------------------
(* The frames of the relay, and the connection.                            *)

LEMMA OpenStreamKeeps ==
  ASSUME MuxInv, OpenStream
  PROVE  MuxInv'
<1> DEFINE g == opened + 1
<1>1. /\ g \in Streams /\ opened \in Nat /\ g > opened /\ NotYet(g)
      /\ \A h \in Streams : h > g => h > opened
  BY BoundAssumption DEF MuxInv, MuxTypeOK, OpenStream, Streams, StreamsToCome
<1>2. PICK i \in Ids, k \in Kinds, whole \in BOOLEAN, over \in BOOLEAN, refused \in BOOLEAN :
        LET n == opened + 1
            serve == ~Duplicate(i) /\ ~AtCapacity /\ ~refused
        IN  /\ relay[i] = None /\ (over => whole)
            /\ opened' = n
            /\ sid' = [sid EXCEPT ![n] = i] /\ kind' = [kind EXCEPT ![n] = k]
            /\ relay' = [relay EXCEPT ![i] = n]
            /\ table' = [table EXCEPT ![i] = IF serve THEN n ELSE @]
            /\ pc' = [pc EXCEPT ![n] = IF serve THEN "body" ELSE "none"]
            /\ complete' = [complete EXCEPT ![n] = whole]
            /\ overflow' = [overflow EXCEPT ![n] = over]
            /\ out' = [out EXCEPT ![n] = IF serve \/ Duplicate(i) THEN @ ELSE "error"]
  BY DEF OpenStream
<1>0. UNCHANGED <<cancel, tunnel, closed>>
  BY DEF OpenStream
<1> DEFINE serve == ~Duplicate(i) /\ ~AtCapacity /\ ~refused
<1>3. MuxTypeOK'
  <2>1. /\ opened' \in 0 .. MaxStreams /\ opened \in 0 .. opened' /\ g \in 0 .. opened'
        /\ 0 .. opened \subseteq 0 .. opened'
    BY <1>1, <1>2, BoundAssumption DEF Streams
  <2>2. relay' \in [Ids -> 0 .. opened'] /\ table' \in [Ids -> 0 .. opened']
    BY <1>1, <1>2, <2>1 DEF MuxInv, MuxTypeOK
  <2>3. /\ sid' \in [Streams -> Ids] /\ kind' \in [Streams -> {"api", "app"}]
        /\ pc' \in [Streams -> Place] /\ out' \in [Streams -> Sent]
        /\ complete' \in [Streams -> BOOLEAN] /\ overflow' \in [Streams -> BOOLEAN]
        /\ \A h \in Streams : overflow'[h] => complete'[h]
    BY <1>1, <1>2, BoundAssumption DEF MuxInv, MuxTypeOK, Place, Serving, Sent
  <2> QED BY <1>0, <2>1, <2>2, <2>3 DEF MuxInv, MuxTypeOK
<1>4. StreamsToCome'
  BY <1>0, <1>1, <1>2 DEF MuxInv, MuxTypeOK, StreamsToCome, NotYet
<1>5. Tracked'
  <2>1. serve => table[i] = None
    BY <1>2 DEF Duplicate, Registered
  <2>2. ASSUME NEW h \in Streams, Alive(h)', ~cancel'[h]
        PROVE  table'[sid'[h]] = h
    <3>1. CASE h = g
      BY <1>0, <1>1, <1>2, <2>2, <3>1 DEF MuxInv, MuxTypeOK, Alive
    <3>2. CASE h # g
      <4>1. Alive(h) /\ ~cancel[h] /\ sid'[h] = sid[h] /\ sid[h] \in Ids
        BY <1>0, <1>1, <1>2, <2>2, <3>2 DEF MuxInv, MuxTypeOK, Alive
      <4>2. table[sid[h]] = h /\ h # None
        BY <4>1 DEF MuxInv, Tracked, Streams, None
      <4> QED BY <1>0, <1>2, <2>1, <4>1, <4>2 DEF MuxInv, MuxTypeOK
    <3> QED BY <3>1, <3>2
  <2> QED BY <2>2 DEF Tracked
<1>6. OutputOK'
  BY <1>0, <1>1, <1>2 DEF MuxInv, MuxTypeOK, OutputOK, SentAt, NotYet
<1> QED BY <1>3, <1>4, <1>5, <1>6 DEF MuxInv

LEMMA BodyKeeps ==
  ASSUME MuxInv, NEW i \in Ids, AppendBody(i) \/ EndBody(i)
  PROVE  MuxInv'
<1>1. table[i] \in Streams
  BY BoundAssumption DEF MuxInv, MuxTypeOK, AppendBody, EndBody, Registered,
        None, Streams
<1>2. MuxTypeOK'
  BY <1>1 DEF MuxInv, MuxTypeOK, AppendBody, EndBody, Woken
<1> QED BY <1>2 DEF MuxInv, AppendBody, EndBody, StreamsToCome, NotYet, Tracked,
      Alive, OutputOK

\* The relay abandons a stream: it loses its entry and is cancelled.
LEMMA CloseKeeps ==
  ASSUME MuxInv, NEW i \in Ids, CloseStream(i)
  PROVE  MuxInv'
<1>1. i \in Registered => table[i] \in Streams /\ ~(table[i] > opened)
  BY BoundAssumption DEF MuxInv, MuxTypeOK, Registered, None, Streams
<1>2. i \notin Registered => table[i] = None
  BY DEF Registered
<1>3. MuxTypeOK'
  <2>1. relay' \in [Ids -> 0 .. opened'] /\ table' \in [Ids -> 0 .. opened']
    BY DEF MuxInv, MuxTypeOK, CloseStream, None
  <2>2. cancel' \in [Streams -> BOOLEAN]
    BY <1>1 DEF MuxInv, MuxTypeOK, CloseStream, Cancelled
  <2> QED BY <2>1, <2>2 DEF MuxInv, MuxTypeOK, CloseStream
<1>4. StreamsToCome'
  BY <1>1 DEF MuxInv, MuxTypeOK, CloseStream, Cancelled, StreamsToCome, NotYet
<1>5. Tracked'
  <2>1. ASSUME NEW h \in Streams, Alive(h), ~cancel[h], sid[h] = i
        PROVE  cancel'[h]
    <3>1. table[i] = h /\ h # None
      BY <2>1 DEF MuxInv, Tracked, Streams, None
    <3>2. cancel' = [cancel EXCEPT ![h] = TRUE]
      BY <1>2, <3>1 DEF CloseStream, Cancelled
    <3> QED BY <3>2 DEF MuxInv, MuxTypeOK
  <2> QED BY <1>1, <2>1 DEF MuxInv, MuxTypeOK, Tracked, CloseStream, Cancelled,
        Alive
<1>6. OutputOK'
  BY DEF MuxInv, CloseStream, OutputOK
<1> QED BY <1>3, <1>4, <1>5, <1>6 DEF MuxInv

\* The connection closes: whatever is registered is cancelled with its entry.
LEMMA AcloseKeeps ==
  ASSUME MuxInv, Aclose
  PROVE  MuxInv'
<1>1. MuxTypeOK'
  BY BoundAssumption DEF MuxInv, MuxTypeOK, Aclose, None
<1>2. StreamsToCome'
  BY BoundAssumption DEF MuxInv, MuxTypeOK, Aclose, StreamsToCome, NotYet, Streams
<1>3. Tracked'
  BY DEF MuxInv, MuxTypeOK, Aclose, Tracked, Alive
<1>4. OutputOK'
  BY DEF MuxInv, Aclose, OutputOK
<1> QED BY <1>1, <1>2, <1>3, <1>4 DEF MuxInv

LEMMA MuxInitKeeps ==
  ASSUME MuxInit
  PROVE  MuxInv
<1>1. MuxTypeOK
  <2>1. (CHOOSE i \in Ids : TRUE) \in Ids
    BY BoundAssumption
  <2>2. sid \in [Streams -> Ids]
    BY <2>1 DEF MuxInit
  <2>3. relay \in [Ids -> 0 .. opened] /\ table \in [Ids -> 0 .. opened]
    BY DEF MuxInit, None
  <2>4. opened \in 0 .. MaxStreams
    BY BoundAssumption DEF MuxInit
  <2>5. /\ kind \in [Streams -> {"api", "app"}] /\ pc \in [Streams -> Place]
        /\ cancel \in [Streams -> BOOLEAN] /\ out \in [Streams -> Sent]
    BY DEF MuxInit, Place, Sent
  <2>6. /\ complete \in [Streams -> BOOLEAN] /\ overflow \in [Streams -> BOOLEAN]
        /\ \A g \in Streams : overflow[g] => complete[g]
    BY DEF MuxInit
  <2> QED BY <2>2, <2>3, <2>4, <2>5, <2>6 DEF MuxInit, MuxTypeOK
<1>2. StreamsToCome /\ OutputOK
  BY DEF MuxInit, StreamsToCome, NotYet, OutputOK, SentAt
<1>3. Tracked
  BY DEF MuxInit, Tracked, Alive
<1> QED BY <1>1, <1>2, <1>3 DEF MuxInv

LEMMA MuxStepKeeps ==
  ASSUME MuxInv, [MuxNext]_muxVars
  PROVE  MuxInv'
<1>1. CASE OpenStream
  BY <1>1, OpenStreamKeeps
<1>2. ASSUME NEW i \in Ids, AppendBody(i) \/ EndBody(i) \/ CloseStream(i)
      PROVE  MuxInv'
  BY <1>2, BodyKeeps, CloseKeeps
<1>3. ASSUME NEW g \in Streams, Step(g) \/ Watchdog(g) \/ CancelLands(g)
      PROVE  MuxInv'
  BY <1>3, TaskMoves, MoveKeeps
<1>4. ASSUME NEW g \in Streams, Finish(g) PROVE MuxInv'
  BY <1>4, FinishKeeps
<1>5. ASSUME NEW g \in Streams, RelayHearsTheEnd(g) PROVE MuxInv'
  <2>1. MuxTypeOK'
    BY <1>5 DEF MuxInv, MuxTypeOK, RelayHearsTheEnd, None
  <2> QED BY <1>5, <2>1 DEF MuxInv, RelayHearsTheEnd, StreamsToCome, NotYet, Tracked,
        Alive, OutputOK
<1>6. CASE TunnelDrops
  BY <1>6 DEF MuxInv, MuxTypeOK, TunnelDrops, StreamsToCome, NotYet, Tracked, Alive,
        OutputOK
<1>7. CASE Aclose
  BY <1>7, AcloseKeeps
<1>8. CASE UNCHANGED muxVars
  BY <1>8 DEF MuxInv, MuxTypeOK, muxVars, StreamsToCome, NotYet, Tracked, Alive, OutputOK
<1> QED BY <1>1, <1>2, <1>3, <1>4, <1>5, <1>6, <1>7, <1>8 DEF MuxNext

LEMMA MuxInvHolds == MuxSpec => []MuxInv
<1>1. MuxInit => MuxInv
  BY MuxInitKeeps
<1>2. MuxInv /\ [MuxNext]_muxVars => MuxInv'
  BY MuxStepKeeps
<1> QED BY <1>1, <1>2, PTL DEF MuxSpec

---------------------------------------------------------------------------
(* The theorems.                                                           *)

\* mux.py: whichever stream had an id before, and whenever its finally runs, the task that
\* serves a stream now is the one its frames reach and aclose cancels.
THEOREM LiveStreamsAreTracked == MuxSpec => []LiveIsTracked
<1>0. MuxSpec => []MuxInv
  BY MuxInvHolds
<1>1. MuxInv => LiveIsTracked
  BY DEF MuxInv, Tracked, LiveIsTracked
<1> QED BY <1>0, <1>1, PTL

\* _serve, _pump, _fail_late: no order of answer, failure, time-out and abandonment makes
\* a response that is torn.
THEOREM ResponsesAreWhole == MuxSpec => []ResponseIsWhole
<1>0. MuxSpec => []MuxInv
  BY MuxInvHolds
<1>1. MuxInv => ResponseIsWhole
  BY DEF MuxInv, OutputOK, SentAt, ResponseIsWhole
<1> QED BY <1>0, <1>1, PTL

\* close_stream and aclose: after them a stream without an inner task sends nothing.
THEOREM ClosedStreamsAreSilent == MuxSpec => ClosedDirectIsSilent
<1>0. MuxSpec => []MuxInv
  BY MuxInvHolds
<1>1. ASSUME MuxInv, [MuxNext]_muxVars, NEW g \in Streams, cancel[g],
      kind[g] \notin Wrapped
      PROVE  out'[g] = out[g]
  <2>1. CASE OpenStream
    <3>1. opened + 1 \in Streams /\ opened + 1 > opened
      BY <1>1, <2>1, BoundAssumption DEF MuxInv, MuxTypeOK, OpenStream, Streams
    <3>2. g # opened + 1
      BY <1>1, <3>1 DEF MuxInv, StreamsToCome, NotYet
    <3> QED BY <1>1, <2>1, <3>1, <3>2 DEF MuxInv, MuxTypeOK, OpenStream
  <2>2. ASSUME NEW h \in Streams, Step(h) \/ Watchdog(h) \/ CancelLands(h)
        PROVE  out'[g] = out[g]
    <3>1. PICK o \in Sent : out' = [out EXCEPT ![h] = o] /\ (o # out[h] => Runs(h))
      BY <1>1, <2>2, TaskMoves DEF Moves
    <3> QED BY <1>1, <3>1 DEF MuxInv, MuxTypeOK, Runs
  <2>3. ASSUME UNCHANGED out
        PROVE  out'[g] = out[g]
    BY <2>3
  <2> QED BY <1>1, <2>1, <2>2, <2>3 DEF MuxNext, AppendBody, EndBody,
        CloseStream, Finish,
        RelayHearsTheEnd, TunnelDrops, Aclose, muxVars
<1>2. MuxInv /\ [MuxNext]_muxVars
      => [\A g \in Streams :
            cancel[g] /\ kind[g] \notin Wrapped => out'[g] = out[g]]_muxVars
  BY <1>1
<1> QED BY <1>0, <1>2, PTL DEF MuxSpec, ClosedDirectIsSilent
=============================================================================
