---------------------------- MODULE LinkCustody ----------------------------
(* Custody of the node identity: daemon/routes/link.py.  A daemon is linked by
   a console code or pre-auth key (claim_link) or by a device flow approved in
   the console (start_device_link, then poll_device_link); refresh_link
   re-reads the hosted domain, push_link_public_address stores the cloud's
   assignments and unlink_node takes the identity down again.

   What makes it hard: the identity lives in four places that no transaction
   joins (the TOML file, key files, the database's assignments, memory that a
   restart loses); one lock serialises the routes, but the device poll and the
   refresh wait for the cloud without it, and the config routes, which may move
   the key path, never take it.

   Names are numbers: key k is the k-th keypair made, node n the n-th enrolment
   the cloud recorded.  A relay URL missing at the commit, a failed exchange and
   a key that cannot be loaded are one refusal that may always happen.          *)
EXTENDS Naturals, Sequences, FiniteSets

CONSTANTS Callers,      \* concurrent admin requests
          Dirs,         \* data directories [nerdit].data_dir may name
          Custom,       \* the path [link].key_file may name
          NoPath, Free,
          Clouds, NoCloud,
          MaxCalls,     \* requests
          MaxPuts,      \* writes of the key path through the config routes
          MaxSwaps,     \* key files replaced or removed by hand
          MaxRestarts,  \* restarts and crashes
          MaxKeys, MaxNodes

Paths == Dirs \cup {Custom}
Nobody == 0

ASSUME CustodyAssumption ==
  /\ Dirs # {} /\ NoPath \notin Paths /\ Free \notin Callers /\ NoCloud \notin Clouds
  /\ {MaxCalls, MaxPuts, MaxSwaps, MaxRestarts, MaxNodes} \subseteq Nat
  /\ MaxKeys \in Nat \ {0}

VARIABLES config,    \* [link].node_id, nodes_base_domain, key_file; [nerdit].data_dir
          keyAt,     \* key on disk at each path
          keys,      \* keypairs made
          enrolled,  \* the cloud's nodes: the key, the cloud and the device flow of each
          boot,      \* app.state.settings: data_dir, key_file, node_id; live: a manager runs
          stamp,     \* app.state.link_enrolled_key_file
          wipes,     \* app.state.link_pending_key_wipes
          slot,      \* app.state.link_device_pending
          flows,     \* device sessions minted
          address,   \* node that the stored public addresses name
          lock,      \* _LINK_MUTATION_LOCK
          req,       \* each request
          home,      \* path of the key the current identity was committed for
          asked,     \* unlinks committed when the current identity was asked for
          unlinks,   \* unlinks committed
          spent      \* calls, puts, swaps, restarts so far

vars == <<config, keyAt, keys, enrolled, boot, stamp, wipes, slot, flows, address, lock, req,
          home, asked, unlinks, spent>>
ghosts == <<home, asked, unlinks>>
memory == <<stamp, wipes, slot, flows>>

Idle == [pc |-> "idle", op |-> "none"]
NoFlow == [id |-> 0]

(* resolve_key_file: key_file wins, else node.key under the data directory. *)
KeyPath(file, dir) == IF file # NoPath THEN file ELSE dir
NextBootPath == KeyPath(config.key_file, config.dir)

Count(what) == spent' = [spent EXCEPT ![what] = @ + 1]
Return(r) == req' = [req EXCEPT ![r] = Idle]
Release(r) == lock' = Free /\ Return(r)
At(r, op, pc) == req[r].op = op /\ req[r].pc = pc

Init ==
  /\ config = [node |-> Nobody, domain |-> NoCloud, key_file |-> NoPath,
               dir |-> CHOOSE d \in Dirs : TRUE]
  /\ keyAt = [p \in Paths |-> IF p = Custom THEN 1 ELSE 0]   \* pre-provisioned by the operator
  /\ keys = 1
  /\ enrolled = <<>>
  /\ boot = [dir |-> config.dir, key_file |-> NoPath, node |-> Nobody, live |-> FALSE]
  /\ stamp = NoPath /\ wipes = {} /\ slot = NoFlow /\ flows = 0
  /\ address = Nobody
  /\ lock = Free
  /\ req = [r \in Callers |-> Idle]
  /\ home = NoPath /\ asked = 0 /\ unlinks = 0
  /\ spent = [calls |-> 0, puts |-> 0, swaps |-> 0, restarts |-> 0]

------------------------------------------------------------------------------
(* Arrivals *)

(* Routes that take the lock first. *)
Call(r, op) ==
  /\ req[r] = Idle /\ spent.calls < MaxCalls
  /\ Count("calls")
  /\ req' = [req EXCEPT ![r] = [pc |-> "lock", op |-> op]]
  /\ UNCHANGED <<config, keyAt, keys, enrolled, boot, memory, address, lock, ghosts>>

(* refresh_link up to its cloud hop. *)
CallRefresh(r) ==
  /\ req[r] = Idle /\ spent.calls < MaxCalls
  /\ config.node # Nobody
  /\ Count("calls")
  /\ req' = [req EXCEPT ![r] = [pc |-> "hop", op |-> "refresh", node |-> config.node]]
  /\ UNCHANGED <<config, keyAt, keys, enrolled, boot, memory, address, lock, ghosts>>

(* poll_device_link up to its cloud hop, by the terminal that owns the slot. *)
CallPoll(r) ==
  /\ req[r] = Idle /\ spent.calls < MaxCalls
  /\ config.node = Nobody /\ slot # NoFlow
  /\ Count("calls")
  /\ req' = [req EXCEPT ![r] = [pc |-> "hop", op |-> "poll", flow |-> slot]]
  /\ UNCHANGED <<config, keyAt, keys, enrolled, boot, memory, address, lock, ghosts>>

(* A poll past the local deadline clears the slot without asking the cloud. *)
PollExpired ==
  /\ config.node = Nobody /\ slot # NoFlow /\ spent.calls < MaxCalls
  /\ Count("calls")
  /\ slot' = NoFlow
  /\ UNCHANGED <<config, keyAt, keys, enrolled, boot, stamp, wipes, flows, address, lock, req,
                 ghosts>>

------------------------------------------------------------------------------
(* Claim and device start: the shared preflight, under the lock *)

DataDirPending == config.dir # boot.dir
Linkable == config.node = Nobody /\ ~DataDirPending

Preflight(r, op) ==
  /\ At(r, op, "lock") /\ lock = Free
  /\ IF Linkable
       THEN /\ lock' = r
            /\ req' = [req EXCEPT ![r] =
                 [pc |-> "key", op |-> op, path |-> KeyPath(config.key_file, boot.dir),
                  key_file |-> config.key_file, dir |-> config.dir, born |-> unlinks]]
       ELSE Return(r) /\ UNCHANGED lock
  /\ UNCHANGED <<config, keyAt, keys, enrolled, boot, memory, address, ghosts, spent>>

(* load_or_create_identity on a worker thread. *)
LoadKey(r) ==
  /\ req[r].pc = "key"
  /\ LET path == req[r].path
         new == keyAt[path] = 0
         key == IF new THEN keys + 1 ELSE keyAt[path]
     IN /\ new => keys < MaxKeys
        /\ keys' = IF new THEN keys + 1 ELSE keys
        /\ keyAt' = [keyAt EXCEPT ![path] = key]
        /\ req' = [req EXCEPT ![r] =
             [pc |-> "hop", op |-> req[r].op, path |-> path, key |-> key,
              key_file |-> req[r].key_file, dir |-> req[r].dir, born |-> req[r].born]]
  /\ UNCHANGED <<config, enrolled, boot, memory, address, lock, ghosts, spent>>

(* The identity is unreadable, the cloud refuses or does not answer: the lock goes. *)
GiveUp(r) ==
  /\ req[r].op \in {"claim", "start"} /\ req[r].pc \in {"key", "hop", "answered"}
  /\ Release(r)
  /\ UNCHANGED <<config, keyAt, keys, enrolled, boot, memory, address, ghosts, spent>>

(* The cloud's side of a grant: one node per device flow, and for a code or key
   a new node or, on a replay, the one it made for this credential. *)
Grants(key, flow, n) ==
  \/ /\ n \in DOMAIN enrolled /\ enrolled[n].key = key /\ enrolled[n].flow = flow
     /\ UNCHANGED enrolled
  \/ /\ n = Len(enrolled) + 1 /\ n <= MaxNodes
     /\ flow # 0 => \A m \in DOMAIN enrolled : enrolled[m].flow # flow
     /\ \E c \in Clouds : enrolled' = Append(enrolled, [key |-> key, cloud |-> c, flow |-> flow])

Exchange(r) ==
  /\ At(r, "claim", "hop")
  /\ \E n \in 1..MaxNodes :
       /\ Grants(req[r].key, 0, n)
       /\ req' = [req EXCEPT ![r] =
            [pc |-> "answered", op |-> "claim", path |-> req[r].path, node |-> n,
             key_file |-> req[r].key_file, dir |-> req[r].dir, born |-> req[r].born]]
  /\ UNCHANGED <<config, keyAt, keys, boot, memory, address, lock, ghosts, spent>>

(* The cloud minted a device code: the new flow takes the slot. *)
Mint(r) ==
  /\ At(r, "start", "hop")
  /\ flows' = flows + 1
  /\ slot' = [id |-> flows + 1, path |-> req[r].path, key |-> req[r].key,
              key_file |-> req[r].key_file, dir |-> req[r].dir, born |-> req[r].born]
  /\ Release(r)
  /\ UNCHANGED <<config, keyAt, keys, enrolled, boot, stamp, wipes, address, ghosts, spent>>

------------------------------------------------------------------------------
(* The commit every grant shares *)

(* Mutant: the data directory is not compared again. *)
KeyFileMoved(g) == config.key_file # g.key_file

ConfigMoved(g) == config.key_file # g.key_file \/ config.dir # g.dir

(* _commit_link_identity: the domain is written only if the cloud sent one. *)
CommitIdentity(g, n) ==
  /\ \E domain \in {config.domain, enrolled[n].cloud} :
       config' = [config EXCEPT !.node = n, !.domain = domain]
  /\ stamp' = g.path
  /\ home' = g.path
  /\ asked' = g.born

Claim(r) ==
  /\ At(r, "claim", "answered")
  /\ IF ConfigMoved(req[r])
       THEN UNCHANGED <<config, stamp, home, asked>>
       ELSE CommitIdentity(req[r], req[r].node)
  /\ Release(r)
  /\ UNCHANGED <<keyAt, keys, enrolled, boot, wipes, slot, flows, address, unlinks, spent>>

------------------------------------------------------------------------------
(* The device poll *)

(* _clear_pending: only the flow's own slot. *)
Settle(flow) == slot' = IF slot = flow THEN NoFlow ELSE slot

(* Approved; the answer may also be lost, which PollRefused covers. *)
PollApproved(r) ==
  /\ At(r, "poll", "hop")
  /\ \E n \in 1..MaxNodes :
       /\ Grants(req[r].flow.key, req[r].flow.id, n)
       /\ req' = [req EXCEPT ![r] =
            [pc |-> "lock", op |-> "poll", flow |-> req[r].flow, node |-> n]]
  /\ UNCHANGED <<config, keyAt, keys, boot, memory, address, lock, ghosts, spent>>

(* Pending, rate limited or lost keeps the slot; denied, expired, unknown or a
   credential mismatch settles it. *)
PollRefused(r) ==
  /\ At(r, "poll", "hop")
  /\ \/ Settle(req[r].flow)
     \/ UNCHANGED slot
  /\ Return(r)
  /\ UNCHANGED <<config, keyAt, keys, enrolled, boot, stamp, wipes, flows, address, lock, ghosts,
                 spent>>

(* Under the lock: still the current flow, still unlinked, the key still there. *)
PollLocks(r) ==
  /\ At(r, "poll", "lock") /\ lock = Free
  /\ IF slot # req[r].flow
       THEN Return(r) /\ UNCHANGED <<slot, lock>>
       ELSE IF config.node # Nobody \/ keyAt[req[r].flow.path] = 0
              THEN Settle(req[r].flow) /\ Return(r) /\ UNCHANGED lock
              ELSE /\ lock' = r
                   /\ req' = [req EXCEPT ![r].pc = "verify"]
                   /\ UNCHANGED slot
  /\ UNCHANGED <<config, keyAt, keys, enrolled, boot, stamp, wipes, flows, address, ghosts, spent>>

(* The key read back matches the flow's; then the commit, which may refuse and
   then leaves the slot. *)
PollCommits(r) ==
  /\ At(r, "poll", "verify")
  /\ LET flow == req[r].flow
     IN IF keyAt[flow.path] # flow.key
          THEN Settle(flow) /\ UNCHANGED <<config, stamp, home, asked>>
          ELSE \/ /\ ConfigMoved(flow)
                  /\ UNCHANGED <<config, stamp, slot, home, asked>>
               \/ /\ ~ConfigMoved(flow)
                  /\ CommitIdentity(flow, req[r].node)
                  /\ Settle(flow)
  /\ Release(r)
  /\ UNCHANGED <<keyAt, keys, enrolled, boot, wipes, flows, address, unlinks, spent>>

------------------------------------------------------------------------------
(* Refresh and the public-address push *)

FetchMetadata(r) ==
  /\ At(r, "refresh", "hop")
  /\ \/ req' = [req EXCEPT ![r].pc = "lock"]
     \/ Return(r)
  /\ UNCHANGED <<config, keyAt, keys, enrolled, boot, memory, address, lock, ghosts, spent>>

(* Mutant: any linked node takes the domain. *)
RefreshWhoeverIsLinked(r) ==
  /\ At(r, "refresh", "lock") /\ lock = Free
  /\ config' = IF config.node # Nobody
                 THEN [config EXCEPT !.domain = enrolled[req[r].node].cloud]
                 ELSE config
  /\ Return(r)
  /\ UNCHANGED <<keyAt, keys, enrolled, boot, memory, address, lock, ghosts, spent>>

(* The operator named the cloud of the node that was linked at the call. *)
Refresh(r) ==
  /\ At(r, "refresh", "lock") /\ lock = Free
  /\ config' = IF config.node = req[r].node
                 THEN [config EXCEPT !.domain = enrolled[req[r].node].cloud]
                 ELSE config
  /\ Return(r)
  /\ UNCHANGED <<keyAt, keys, enrolled, boot, memory, address, lock, ghosts, spent>>

(* push_link_public_address: the live tunnel's node, and a first assignment. *)
Push(r) ==
  /\ At(r, "push", "lock") /\ lock = Free
  /\ address' = IF boot.live /\ boot.node # Nobody /\ address = Nobody
                  THEN boot.node ELSE address
  /\ Return(r)
  /\ UNCHANGED <<config, keyAt, keys, enrolled, boot, memory, lock, ghosts, spent>>

------------------------------------------------------------------------------
(* unlink_node *)

UnlinkLocks(r) ==
  /\ At(r, "unlink", "lock") /\ lock = Free
  /\ lock' = r
  /\ req' = [req EXCEPT ![r] =
       [pc |-> "stop", op |-> "unlink", was |-> config.node # Nobody \/ boot.live]]
  /\ UNCHANGED <<config, keyAt, keys, enrolled, boot, memory, address, ghosts, spent>>

(* Mutant: the pending flow survives the unlink. *)
StopTunnelOnly(r) ==
  /\ At(r, "unlink", "stop")
  /\ boot' = [boot EXCEPT !.live = FALSE]
  /\ req' = [req EXCEPT ![r].pc = "addresses"]
  /\ UNCHANGED <<config, keyAt, keys, enrolled, memory, address, lock, ghosts, spent>>

(* The manager has stopped; every pending flow goes with it. *)
StopTunnel(r) ==
  /\ At(r, "unlink", "stop")
  /\ boot' = [boot EXCEPT !.live = FALSE]
  /\ slot' = NoFlow
  /\ req' = [req EXCEPT ![r].pc = "addresses"]
  /\ UNCHANGED <<config, keyAt, keys, enrolled, stamp, wipes, flows, address, lock, ghosts, spent>>

(* Mutant: the key goes before the config commit. *)
ClearAddressesAndKey(r) ==
  /\ At(r, "unlink", "addresses")
  /\ address' = Nobody
  /\ LET path == IF stamp # NoPath THEN stamp ELSE KeyPath(boot.key_file, boot.dir)
     IN  keyAt' = [keyAt EXCEPT ![path] = 0]
  /\ req' = [req EXCEPT ![r].pc = "commit"]
  /\ UNCHANGED <<config, keys, enrolled, boot, memory, lock, ghosts, spent>>

ClearAddresses(r) ==
  /\ At(r, "unlink", "addresses")
  /\ address' = Nobody
  /\ req' = [req EXCEPT ![r].pc = "commit"]
  /\ UNCHANGED <<config, keyAt, keys, enrolled, boot, memory, lock, ghosts, spent>>

CommitUnlink(r) ==
  /\ At(r, "unlink", "commit")
  /\ config' = [config EXCEPT !.node = Nobody, !.domain = NoCloud]
  /\ boot' = [boot EXCEPT !.node = Nobody]
  /\ unlinks' = unlinks + 1
  /\ req' = [req EXCEPT ![r].pc = "wipe"]
  /\ UNCHANGED <<keyAt, keys, enrolled, memory, address, lock, home, asked, spent>>

(* _wipe_node_keys: the stamped path, else the one this process booted with,
   and every wipe that failed before; each may fail again. *)
WipeTargets(was) ==
  wipes \cup IF was \/ stamp # NoPath
               THEN {IF stamp # NoPath THEN stamp ELSE KeyPath(boot.key_file, boot.dir)}
               ELSE {}

Wipe(r) ==
  /\ At(r, "unlink", "wipe")
  /\ \E failed \in SUBSET WipeTargets(req[r].was) :
       /\ keyAt' = [p \in Paths |->
                      IF p \in WipeTargets(req[r].was) \ failed THEN 0 ELSE keyAt[p]]
       /\ wipes' = failed
  /\ stamp' = NoPath
  /\ Release(r)
  /\ UNCHANGED <<config, keys, enrolled, boot, slot, flows, address, ghosts, spent>>

------------------------------------------------------------------------------
(* The rest of the world *)

(* The config routes: they share neither the lock nor its checks. *)
PutKeyPath ==
  /\ spent.puts < MaxPuts
  /\ \E file \in {NoPath, Custom}, dir \in Dirs :
       /\ <<file, dir>> # <<config.key_file, config.dir>>
       /\ config' = [config EXCEPT !.key_file = file, !.dir = dir]
  /\ Count("puts")
  /\ UNCHANGED <<keyAt, keys, enrolled, boot, memory, address, lock, req, ghosts>>

(* A backup restored over a key file, or the file removed, while no route is
   inside the lock: the device flow's wait for a human is long, a claim's
   exchange lasts seconds and does not look again. *)
SwapKey(p) ==
  /\ spent.swaps < MaxSwaps /\ lock = Free
  /\ keyAt[p] # 0
  /\ \/ keyAt' = [keyAt EXCEPT ![p] = 0] /\ UNCHANGED keys
     \/ /\ keys < MaxKeys
        /\ keyAt' = [keyAt EXCEPT ![p] = keys + 1] /\ keys' = keys + 1
  /\ home' = IF p = home THEN NoPath ELSE home
  /\ Count("swaps")
  /\ UNCHANGED <<config, enrolled, boot, memory, address, lock, req, asked, unlinks>>

(* A restart or a crash: requests and memory are lost, settings are read anew,
   and a manager that starts loads or creates the key it finds configured. *)
Restart ==
  /\ spent.restarts < MaxRestarts
  /\ \E live \in BOOLEAN :
       LET makes == live /\ keyAt[NextBootPath] = 0
       IN /\ live => config.node # Nobody
          /\ makes => keys < MaxKeys
          /\ keys' = IF makes THEN keys + 1 ELSE keys
          /\ keyAt' = [keyAt EXCEPT ![NextBootPath] = IF makes THEN keys + 1 ELSE @]
          /\ boot' = [dir |-> config.dir, key_file |-> config.key_file, node |-> config.node,
                      live |-> live]
  /\ stamp' = NoPath /\ wipes' = {} /\ slot' = NoFlow
  /\ lock' = Free /\ req' = [r \in Callers |-> Idle]
  /\ Count("restarts")
  /\ UNCHANGED <<config, enrolled, flows, address, ghosts>>

------------------------------------------------------------------------------
Answer(r) ==
  \/ Preflight(r, "claim") \/ Preflight(r, "start") \/ LoadKey(r) \/ GiveUp(r)
  \/ Exchange(r) \/ Mint(r) \/ Claim(r)
  \/ PollApproved(r) \/ PollRefused(r) \/ PollLocks(r) \/ PollCommits(r)
  \/ FetchMetadata(r) \/ Refresh(r) \/ Push(r)
  \/ UnlinkLocks(r) \/ StopTunnel(r) \/ ClearAddresses(r) \/ CommitUnlink(r) \/ Wipe(r)

Next ==
  \/ \E r \in Callers :
       \/ \E op \in {"claim", "start", "unlink", "push"} : Call(r, op)
       \/ CallRefresh(r)
       \/ CallPoll(r)
       \/ Answer(r)
  \/ PollExpired
  \/ PutKeyPath
  \/ \E p \in Paths : SwapKey(p)
  \/ Restart

Spec == Init /\ [][Next]_vars

------------------------------------------------------------------------------
(* Properties *)

NodeIds == 0..MaxNodes
Steps == {"idle", "lock", "key", "hop", "answered", "verify", "stop", "addresses", "commit", "wipe"}

(* Every value has its type, and a request that is past its lock holds it. *)
TypeOK ==
  /\ config \in [node : NodeIds, domain : Clouds \cup {NoCloud}, key_file : {NoPath, Custom},
                 dir : Dirs]
  /\ keyAt \in [Paths -> 0..keys] /\ keys \in 1..MaxKeys
  /\ Len(enrolled) <= MaxNodes
  /\ boot \in [dir : Dirs, key_file : {NoPath, Custom}, node : NodeIds, live : BOOLEAN]
  /\ stamp \in Paths \cup {NoPath} /\ wipes \subseteq Paths
  /\ slot.id \in 0..flows
  /\ address \in NodeIds
  /\ \A r \in Callers :
       /\ req[r].pc \in Steps
       /\ (lock = r) = \/ req[r].pc \in Steps \ {"idle", "lock", "hop"}
                       \/ req[r].pc = "hop" /\ req[r].op \in {"claim", "start"}

(* The step that links the daemon leaves it, for its next boot, with the very
   key the cloud enrolled: neither a key path moved while the cloud was asked,
   nor a key file swapped while the approval was awaited, may be committed
   over ("linked but unauthenticatable"). *)
LinksTheKeyItProved ==
  [][config.node = Nobody /\ config'.node # Nobody
       => keyAt'[NextBootPath'] = enrolled'[config'.node].key]_vars

(* As long as the config names a node and nobody moved or touched its key file
   by hand, the file holds that node's key: no crash inside an unlink, failed
   wipe retried later, or unlink of an earlier identity takes it away. *)
KeyOutlivesTheLink ==
  config.node # Nobody /\ home = NextBootPath => keyAt[home] = enrolled[config.node].key

(* One identity never replaces another, and an unlink takes every earlier request
   for an identity with it: a node is linked only while none is, and only by a
   request that was asked for after the last unlink, however late it is approved. *)
LinksOnlyOnAsking ==
  [][config'.node \notin {Nobody, config.node}
       => config.node = Nobody /\ asked' = unlinks]_vars

(* What the daemon shows of its link is the linked node's own, whichever of a
   refresh, a push, an unlink and a new claim overtakes the others: the hosted
   domain is of its cloud, and stored assignments name it, so that none is left
   to refuse those of the next node. *)
ShowsItsOwnLink ==
  /\ config.domain # NoCloud => config.node # Nobody /\ config.domain = enrolled[config.node].cloud
  /\ address # Nobody => address = config.node

------------------------------------------------------------------------------
(* What a comment says, and this model refutes *)

(* link.py says of the wipe that deleting a pre-provisioned key this identity
   never lived in would destroy operator property: what an unlink deletes is a
   key the cloud enrolled. *)
WipesOnlyEnrolled ==
  [][\A r \in Callers : Wipe(r) =>
       \A p \in Paths : keyAt[p] # 0 /\ keyAt'[p] = 0
                          => \E n \in DOMAIN enrolled : enrolled[n].key = keyAt[p]]_vars
=============================================================================
