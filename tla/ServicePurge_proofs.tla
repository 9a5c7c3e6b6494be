------------------------- MODULE ServicePurge_proofs -------------------------
(***************************************************************************)
(* What TLAPS proves of ServicePurge, for any number of deletes, runs,     *)
(* rows and faults.  Rows are numbered upwards, so whoever acts for a row  *)
(* that is gone is told from the row that has the name now; what a delete  *)
(* saw of the runs stays true of them, since a slot is used once.          *)
(***************************************************************************)
EXTENDS ServicePurge, TLAPS

Rows == 0..spent.rows

\* Whatever the name still holds was made by a row up to the present one.
Made ==
  /\ spent \in [rows : 1..MaxRows, launches : Nat, restarts : Nat, faults : Nat]
  /\ row.id \in {0, spent.rows}
  /\ cred \in Rows /\ tree.by \in Rows /\ launch.job \in Rows
  /\ bytes \subseteq 1..spent.rows
  /\ \A d \in Deleters : trash[d].by \in Rows
  /\ \A s \in Slots : slot[s].job \in Rows

\* Nothing starts for nobody, and only a database has bytes of its own.
Named ==
  /\ launch # NoLaunch => launch.job # 0
  /\ \A s \in Slots : slot[s].at \in {"reg", "starting"} => slot[s].job # 0
  /\ kind = "service" => bytes = {}

\* The tree that a delete moved aside is its own to put back, and once the row is deleted
\* it is not the next row's.
AsideOK(d) ==
  /\ del[d].pc \notin {"checked", "secrets", "data", "stuck"} => trash[d] = NoTree
  /\ trash[d] # NoTree => del[d].tomb
  /\ del[d].pc \in {"tomb", "secrets"} \/ del[d].tomb => kind = "database"
  /\ del[d].pc \in {"secrets", "data"} /\ row.id # 0 => trash[d].by # row.id

\* What a delete saw of a run or release: down, not killed, or without a container.
SeenOK(d) ==
  /\ del[d].pc \in {"idle", "look", "kill"} => ~del[d].unbound
  /\ del[d].pc # "kill" => del[d].tokill = {}
  /\ \A s \in del[d].seen :
       \/ del[d].unbound
       \/ /\ slot[s].at \in {"bound", "over"}
          /\ s \in up => s \in del[d].tokill \cup del[d].unkilled

PurgeInv ==
  /\ TypeOK /\ Made /\ Named /\ BytesKept
  /\ \A d \in Deleters : AsideOK(d) /\ SeenOK(d)

RowType == [id : 0..MaxRows, desired : {"running", "stopped"}, ctr : {0} \cup Launches]
LaunchType == [job : 0..MaxRows, cred : 0..MaxRows, ctr : {0} \cup Launches]
SlotType == [job : 0..MaxRows, at : SlotAt]

USE PurgeAssumption DEF PurgeInv, Slots, Launches, Rows

LEMMA InitInv == ASSUME Init PROVE PurgeInv
<1>1. TypeOK
  <2>1. Idle \in Request /\ NoTree \in Trees
    BY DEF Idle, Request, NoTree, Trees
  <2>2. /\ row \in RowType /\ launch \in LaunchType /\ slot \in [Slots -> SlotType]
    BY DEF Init, RowType, LaunchType, SlotType, SlotAt, NoLaunch
  <2>3. /\ kind \in {"service", "database"} /\ cred \in 0..MaxRows
        /\ trash \in [Deleters -> Trees] /\ del \in [Deleters -> Request]
    BY <2>1 DEF Init
  <2> QED
    BY <2>1, <2>2, <2>3 DEF Init, TypeOK, RowType, LaunchType, SlotType
<1>2. Made /\ Named /\ BytesKept
  BY DEF Init, Made, Named, BytesKept, NoTree, NoLaunch
<1>3. \A d \in Deleters : AsideOK(d) /\ SeenOK(d)
  BY DEF Init, AsideOK, SeenOK, NoTree, Idle
<1> QED
  BY <1>1, <1>2, <1>3

LEMMA LaunchKeeps ==
  ASSUME PurgeInv, Launch
  PROVE  PurgeInv'
<1>1. TypeOK'
  <2>1. row' \in RowType
    BY DEF TypeOK, Made, Named, RowType, NoRow, Launch
  <2>2. launch' \in LaunchType
    BY DEF TypeOK, Made, Named, LaunchType, NoLaunch, Launch
  <2> QED
    BY <2>1, <2>2 DEF TypeOK, Launch, RowType, LaunchType, SlotType
<1>2. Made'
  BY DEF TypeOK, Made, Named, NoLaunch, Trees, NoTree, Launch
<1>3. Named'
  BY DEF TypeOK, Made, Named, NoLaunch, Launch
<1>4. BytesKept'
  BY DEF TypeOK, Made, Named, BytesKept, NoTree, NoLaunch, Trees, Launch
<1>5. \A e \in Deleters : AsideOK(e)'
  BY DEF TypeOK, Made, AsideOK, Launch
<1>6. \A e \in Deleters : SeenOK(e)'
  BY DEF TypeOK, Made, SeenOK, Launch
<1> QED
  BY <1>1, <1>2, <1>3, <1>4, <1>5, <1>6

LEMMA ContainerStartsKeeps ==
  ASSUME PurgeInv, ContainerStarts
  PROVE  PurgeInv'
<1>1. TypeOK'
  <2>1. launch' \in LaunchType
    BY DEF TypeOK, Made, Named, LaunchType, NoLaunch, ContainerStarts, Mounts, Spend
  <2>2. up' \subseteq Launches \cup Slots
    BY DEF TypeOK, Made, Named, ContainerStarts, Mounts, Spend
  <2>3. tree' \in Trees
    BY DEF TypeOK, Made, Named, Trees, NoTree, ContainerStarts, Mounts, Spend
  <2>4. bytes' \subseteq 1..MaxRows
    BY DEF TypeOK, Made, Named, NoLaunch, ContainerStarts, Mounts, Spend
  <2>5. wlock' = "create" => cred' # spent'.rows
    BY DEF TypeOK, Made, Named, ContainerStarts, Mounts, Spend
  <2>6. \A x \in Slots : slot'[x].at \in {"free", "reg", "starting"} => x \notin up'
    BY DEF TypeOK, Made, Named, SlotType, Over, ContainerStarts, Mounts, Spend
  <2> QED
    BY <2>1, <2>2, <2>3, <2>4, <2>5, <2>6 DEF TypeOK, ContainerStarts, Mounts, Spend, RowType,
      LaunchType, SlotType
<1>2. Made'
  BY DEF TypeOK, Made, Named, NoLaunch, Trees, NoTree, ContainerStarts, Mounts, Spend
<1>3. Named'
  BY DEF TypeOK, Made, Named, NoLaunch, ContainerStarts, Mounts, Spend
<1>4. BytesKept'
  BY DEF TypeOK, Made, Named, BytesKept, NoTree, NoLaunch, Trees, ContainerStarts, Mounts, Spend
<1>5. \A e \in Deleters : AsideOK(e)'
  BY DEF TypeOK, Made, AsideOK, ContainerStarts, Mounts, Spend
<1>6. \A e \in Deleters : SeenOK(e)'
  <2>1. /\ slot' = slot /\ del' = del /\ up' = up \cup {spent.launches + 1}
        /\ spent.launches + 1 \in Nat
    BY DEF ContainerStarts, Made
  <2> QED
    BY <2>1 DEF TypeOK, Request, SeenOK
<1> QED
  BY <1>1, <1>2, <1>3, <1>4, <1>5, <1>6

LEMMA LaunchSettlesKeeps ==
  ASSUME PurgeInv, LaunchSettles
  PROVE  PurgeInv'
<1>1. TypeOK'
  <2>1. row' \in RowType
    BY DEF TypeOK, Made, Named, RowType, NoRow, LaunchSettles
  <2>2. launch' \in LaunchType
    BY DEF TypeOK, Made, Named, LaunchType, NoLaunch, LaunchSettles
  <2>3. up' \subseteq Launches \cup Slots
    BY DEF TypeOK, Made, Named, LaunchSettles
  <2>4. \A x \in Slots : slot'[x].at \in {"free", "reg", "starting"} => x \notin up'
    BY DEF TypeOK, Made, Named, SlotType, Over, LaunchSettles
  <2> QED
    BY <2>1, <2>2, <2>3, <2>4 DEF TypeOK, LaunchSettles, RowType, LaunchType, SlotType
<1>2. Made'
  BY DEF TypeOK, Made, Named, NoLaunch, Trees, NoTree, LaunchSettles
<1>3. Named'
  BY DEF TypeOK, Made, Named, NoLaunch, LaunchSettles
<1>4. BytesKept'
  BY DEF TypeOK, Made, Named, BytesKept, NoTree, NoLaunch, Trees, LaunchSettles
<1>5. \A e \in Deleters : AsideOK(e)'
  BY DEF TypeOK, Made, AsideOK, LaunchSettles
<1>6. \A e \in Deleters : SeenOK(e)'
  BY DEF TypeOK, Made, SeenOK, LaunchSettles
<1> QED
  BY <1>1, <1>2, <1>3, <1>4, <1>5, <1>6

LEMMA TickStopsKeeps ==
  ASSUME PurgeInv, TickStops
  PROVE  PurgeInv'
<1>1. TypeOK'
  <2>1. up' \subseteq Launches \cup Slots
    BY DEF TypeOK, Made, Named, TickStops
  <2>2. \A x \in Slots : slot'[x].at \in {"free", "reg", "starting"} => x \notin up'
    BY DEF TypeOK, Made, Named, SlotType, Over, TickStops
  <2> QED
    BY <2>1, <2>2 DEF TypeOK, TickStops, RowType, LaunchType, SlotType
<1>2. Made'
  BY DEF TypeOK, Made, Named, NoLaunch, Trees, NoTree, TickStops
<1>3. Named'
  BY DEF TypeOK, Made, Named, NoLaunch, TickStops
<1>4. BytesKept'
  BY DEF TypeOK, Made, Named, BytesKept, NoTree, NoLaunch, Trees, TickStops
<1>5. \A e \in Deleters : AsideOK(e)'
  BY DEF TypeOK, Made, AsideOK, TickStops
<1>6. \A e \in Deleters : SeenOK(e)'
  BY DEF TypeOK, Made, SeenOK, TickStops
<1> QED
  BY <1>1, <1>2, <1>3, <1>4, <1>5, <1>6

LEMMA RegisterRunKeeps ==
  ASSUME PurgeInv, NEW s \in Slots, RegisterRun(s)
  PROVE  PurgeInv'
<1>1. TypeOK'
  <2>1. slot' \in [Slots -> SlotType]
    BY DEF TypeOK, Made, Named, SlotType, SlotAt, Over, RegisterRun
  <2>2. \A x \in Slots : slot'[x].at \in {"free", "reg", "starting"} => x \notin up'
    BY DEF TypeOK, Made, Named, SlotType, Over, RegisterRun
  <2> QED
    BY <2>1, <2>2 DEF TypeOK, RegisterRun, RowType, LaunchType, SlotType
<1>2. Made'
  BY DEF TypeOK, Made, Named, NoLaunch, Trees, NoTree, RegisterRun
<1>3. Named'
  BY DEF TypeOK, Made, Named, NoLaunch, RegisterRun
<1>4. BytesKept'
  BY DEF TypeOK, Made, Named, BytesKept, NoTree, NoLaunch, Trees, RegisterRun
<1>5. \A e \in Deleters : AsideOK(e)'
  BY DEF TypeOK, Made, AsideOK, RegisterRun
<1>6. \A e \in Deleters : SeenOK(e)'
  BY DEF TypeOK, Made, SeenOK, RegisterRun
<1> QED
  BY <1>1, <1>2, <1>3, <1>4, <1>5, <1>6

LEMMA RegisterReleaseKeeps ==
  ASSUME PurgeInv, NEW s \in Slots, RegisterRelease(s)
  PROVE  PurgeInv'
<1>1. TypeOK'
  <2>1. slot' \in [Slots -> SlotType]
    BY DEF TypeOK, Made, Named, SlotType, SlotAt, Over, RegisterRelease
  <2>2. \A x \in Slots : slot'[x].at \in {"free", "reg", "starting"} => x \notin up'
    BY DEF TypeOK, Made, Named, SlotType, Over, RegisterRelease
  <2> QED
    BY <2>1, <2>2 DEF TypeOK, RegisterRelease, RowType, LaunchType, SlotType
<1>2. Made'
  BY DEF TypeOK, Made, Named, NoLaunch, Trees, NoTree, RegisterRelease
<1>3. Named'
  BY DEF TypeOK, Made, Named, NoLaunch, RegisterRelease
<1>4. BytesKept'
  BY DEF TypeOK, Made, Named, BytesKept, NoTree, NoLaunch, Trees, RegisterRelease
<1>5. \A e \in Deleters : AsideOK(e)'
  BY DEF TypeOK, Made, AsideOK, RegisterRelease
<1>6. \A e \in Deleters : SeenOK(e)'
  BY DEF TypeOK, Made, SeenOK, RegisterRelease
<1> QED
  BY <1>1, <1>2, <1>3, <1>4, <1>5, <1>6

LEMMA RereadKeeps ==
  ASSUME PurgeInv, NEW s \in Slots, Reread(s)
  PROVE  PurgeInv'
<1>1. TypeOK'
  <2>1. slot' \in [Slots -> SlotType]
    BY DEF TypeOK, Made, Named, SlotType, SlotAt, Over, Reread, Proceeds
  <2>2. \A x \in Slots : slot'[x].at \in {"free", "reg", "starting"} => x \notin up'
    BY DEF TypeOK, Made, Named, SlotType, Over, Reread, Proceeds
  <2> QED
    BY <2>1, <2>2 DEF TypeOK, Reread, Proceeds, Over, RowType, LaunchType, SlotType
<1>2. Made'
  BY DEF TypeOK, Made, Named, NoLaunch, Trees, NoTree, Reread, Proceeds, Over
<1>3. Named'
  BY DEF TypeOK, Made, Named, NoLaunch, Reread, Proceeds, Over
<1>4. BytesKept'
  BY DEF TypeOK, Made, Named, BytesKept, NoTree, NoLaunch, Trees, Reread, Proceeds, Over
<1>5. \A e \in Deleters : AsideOK(e)'
  BY DEF TypeOK, Made, AsideOK, Reread, Proceeds, Over
<1>6. \A e \in Deleters : SeenOK(e)'
  BY DEF TypeOK, Made, SeenOK, Reread, Proceeds, Over
<1> QED
  BY <1>1, <1>2, <1>3, <1>4, <1>5, <1>6

LEMMA RunStartsKeeps ==
  ASSUME PurgeInv, NEW s \in Slots, RunStarts(s)
  PROVE  PurgeInv'
<1>1. TypeOK'
  <2>1. slot' \in [Slots -> SlotType]
    BY DEF TypeOK, Made, Named, SlotType, SlotAt, Over, RunStarts, Mounts
  <2>2. up' \subseteq Launches \cup Slots
    BY DEF TypeOK, Made, Named, RunStarts, Mounts
  <2>3. tree' \in Trees
    BY DEF TypeOK, Made, Named, Trees, NoTree, RunStarts, Mounts
  <2>4. bytes' \subseteq 1..MaxRows
    BY DEF TypeOK, Made, Named, NoLaunch, RunStarts, Mounts
  <2>5. \A x \in Slots : slot'[x].at \in {"free", "reg", "starting"} => x \notin up'
    BY DEF TypeOK, Made, Named, SlotType, Over, RunStarts, Mounts
  <2> QED
    BY <2>1, <2>2, <2>3, <2>4, <2>5 DEF TypeOK, RunStarts, Mounts, RowType, LaunchType, SlotType
<1>2. Made'
  BY DEF TypeOK, Made, Named, NoLaunch, Trees, NoTree, RunStarts, Mounts
<1>3. Named'
  BY DEF TypeOK, Made, Named, NoLaunch, RunStarts, Mounts
<1>4. BytesKept'
  BY DEF TypeOK, Made, Named, BytesKept, NoTree, NoLaunch, Trees, RunStarts, Mounts
<1>5. \A e \in Deleters : AsideOK(e)'
  BY DEF TypeOK, Made, AsideOK, RunStarts, Mounts
<1>6. \A e \in Deleters : SeenOK(e)'
  BY DEF TypeOK, Made, SeenOK, RunStarts, Mounts
<1> QED
  BY <1>1, <1>2, <1>3, <1>4, <1>5, <1>6

LEMMA BindKeeps ==
  ASSUME PurgeInv, NEW s \in Slots, Bind(s)
  PROVE  PurgeInv'
<1>1. TypeOK'
  <2>1. slot' \in [Slots -> SlotType]
    BY DEF TypeOK, Made, Named, SlotType, SlotAt, Over, Bind
  <2>2. \A x \in Slots : slot'[x].at \in {"free", "reg", "starting"} => x \notin up'
    BY DEF TypeOK, Made, Named, SlotType, Over, Bind
  <2> QED
    BY <2>1, <2>2 DEF TypeOK, Bind, RowType, LaunchType, SlotType
<1>2. Made'
  BY DEF TypeOK, Made, Named, NoLaunch, Trees, NoTree, Bind
<1>3. Named'
  BY DEF TypeOK, Made, Named, NoLaunch, Bind
<1>4. BytesKept'
  BY DEF TypeOK, Made, Named, BytesKept, NoTree, NoLaunch, Trees, Bind
<1>5. \A e \in Deleters : AsideOK(e)'
  BY DEF TypeOK, Made, AsideOK, Bind
<1>6. \A e \in Deleters : SeenOK(e)'
  BY DEF TypeOK, Made, SeenOK, Bind
<1> QED
  BY <1>1, <1>2, <1>3, <1>4, <1>5, <1>6

LEMMA RunEndsKeeps ==
  ASSUME PurgeInv, NEW s \in Slots, RunEnds(s)
  PROVE  PurgeInv'
<1>1. TypeOK'
  <2>1. slot' \in [Slots -> SlotType]
    BY DEF TypeOK, Made, Named, SlotType, SlotAt, Over, RunEnds
  <2>2. up' \subseteq Launches \cup Slots
    BY DEF TypeOK, Made, Named, RunEnds, Over
  <2>3. \A x \in Slots : slot'[x].at \in {"free", "reg", "starting"} => x \notin up'
    BY DEF TypeOK, Made, Named, SlotType, Over, RunEnds
  <2> QED
    BY <2>1, <2>2, <2>3 DEF TypeOK, RunEnds, Over, RowType, LaunchType, SlotType
<1>2. Made'
  BY DEF TypeOK, Made, Named, NoLaunch, Trees, NoTree, RunEnds, Over
<1>3. Named'
  BY DEF TypeOK, Made, Named, NoLaunch, RunEnds, Over
<1>4. BytesKept'
  BY DEF TypeOK, Made, Named, BytesKept, NoTree, NoLaunch, Trees, RunEnds, Over
<1>5. \A e \in Deleters : AsideOK(e)'
  BY DEF TypeOK, Made, AsideOK, RunEnds, Over
<1>6. \A e \in Deleters : SeenOK(e)'
  BY DEF TypeOK, Made, SeenOK, RunEnds, Over
<1> QED
  BY <1>1, <1>2, <1>3, <1>4, <1>5, <1>6

LEMMA CreateKeeps ==
  ASSUME PurgeInv, Create
  PROVE  PurgeInv'
<1>1. TypeOK'
  <2>1. row' \in RowType
    BY DEF TypeOK, Made, Named, RowType, NoRow, Create, Spend
  <2>2. wlock' \in {"free", "create"}
    BY DEF TypeOK, Made, Named, Create, Spend
  <2>3. wlock' = "create" => cred' # spent'.rows
    BY DEF TypeOK, Made, Named, Create, Spend
  <2> QED
    BY <2>1, <2>2, <2>3 DEF TypeOK, Create, Spend, RowType, LaunchType, SlotType
<1>2. Made'
  BY DEF TypeOK, Made, Named, NoLaunch, Trees, NoTree, Create, Spend
<1>3. Named'
  BY DEF TypeOK, Made, Named, NoLaunch, Create, Spend
<1>4. BytesKept'
  BY DEF TypeOK, Made, Named, BytesKept, NoTree, NoLaunch, Trees, Create, Spend
<1>5. \A e \in Deleters : AsideOK(e)'
  BY DEF TypeOK, Made, AsideOK, Create, Spend
<1>6. \A e \in Deleters : SeenOK(e)'
  BY DEF TypeOK, Made, SeenOK, Create, Spend
<1> QED
  BY <1>1, <1>2, <1>3, <1>4, <1>5, <1>6

LEMMA MintCredentialKeeps ==
  ASSUME PurgeInv, MintCredential
  PROVE  PurgeInv'
<1>1. TypeOK'
  <2>1. cred' \in 0..MaxRows
    BY DEF TypeOK, Made, Named, MintCredential
  <2>2. wlock' \in {"free", "create"}
    BY DEF TypeOK, Made, Named, MintCredential
  <2>3. wlock' = "create" => cred' # spent'.rows
    BY DEF TypeOK, Made, Named, MintCredential
  <2> QED
    BY <2>1, <2>2, <2>3 DEF TypeOK, MintCredential, RowType, LaunchType, SlotType
<1>2. Made'
  BY DEF TypeOK, Made, Named, NoLaunch, Trees, NoTree, MintCredential
<1>3. Named'
  BY DEF TypeOK, Made, Named, NoLaunch, MintCredential
<1>4. BytesKept'
  BY DEF TypeOK, Made, Named, BytesKept, NoTree, NoLaunch, Trees, MintCredential
<1>5. \A e \in Deleters : AsideOK(e)'
  BY DEF TypeOK, Made, AsideOK, MintCredential
<1>6. \A e \in Deleters : SeenOK(e)'
  BY DEF TypeOK, Made, SeenOK, MintCredential
<1> QED
  BY <1>1, <1>2, <1>3, <1>4, <1>5, <1>6

LEMMA RestartServiceKeeps ==
  ASSUME PurgeInv, RestartService
  PROVE  PurgeInv'
<1>1. TypeOK'
  <2>1. row' \in RowType
    BY DEF TypeOK, Made, Named, RowType, NoRow, RestartService, Spend
  <2>2. wlock' = "create" => cred' # spent'.rows
    BY DEF TypeOK, Made, Named, RestartService, Spend
  <2> QED
    BY <2>1, <2>2 DEF TypeOK, RestartService, Spend, RowType, LaunchType, SlotType
<1>2. Made'
  BY DEF TypeOK, Made, Named, NoLaunch, Trees, NoTree, RestartService, Spend
<1>3. Named'
  BY DEF TypeOK, Made, Named, NoLaunch, RestartService, Spend
<1>4. BytesKept'
  BY DEF TypeOK, Made, Named, BytesKept, NoTree, NoLaunch, Trees, RestartService, Spend
<1>5. \A e \in Deleters : AsideOK(e)'
  BY DEF TypeOK, Made, AsideOK, RestartService, Spend
<1>6. \A e \in Deleters : SeenOK(e)'
  BY DEF TypeOK, Made, SeenOK, RestartService, Spend
<1> QED
  BY <1>1, <1>2, <1>3, <1>4, <1>5, <1>6

LEMMA DependKeeps ==
  ASSUME PurgeInv, Depend
  PROVE  PurgeInv'
<1>1. TypeOK'
  <2> QED
    BY DEF TypeOK, Depend
<1>2. Made'
  BY DEF TypeOK, Made, Named, NoLaunch, Trees, NoTree, Depend
<1>3. Named'
  BY DEF TypeOK, Made, Named, NoLaunch, Depend
<1>4. BytesKept'
  BY DEF TypeOK, Made, Named, BytesKept, NoTree, NoLaunch, Trees, Depend
<1>5. \A e \in Deleters : AsideOK(e)'
  BY DEF TypeOK, Made, AsideOK, Depend
<1>6. \A e \in Deleters : SeenOK(e)'
  BY DEF TypeOK, Made, SeenOK, Depend
<1> QED
  BY <1>1, <1>2, <1>3, <1>4, <1>5, <1>6

---------------------------------------------------------------------------
(* A step of one delete leaves the others what they know.                  *)

LEMMA SlotsOf ==
  \A j : /\ BoundBy(j) \subseteq Slots /\ UnboundBy(j) \subseteq Slots
         /\ \A s \in BoundBy(j) : slot[s].at = "bound"
  BY DEF BoundBy, UnboundBy, TakenBy

LEMMA IdleIs == Idle \in Request /\ [Idle EXCEPT !.pc = "over"] \in Request
<1>1. 0 \in 0..MaxRows /\ 0 \in {0} \cup Launches /\ {} \in SUBSET Slots
  OBVIOUS
<1> QED
  BY <1>1 DEF Idle, Request

\* What a kill writes, and the fields after it.
Edited(r, k, f, p, b, u) ==
  [r EXCEPT !.tokill = k, !.unkilled = f, !.pc = p, !.unbound = b, !.seen = u]

LEMMA EditedFields ==
  ASSUME NEW r \in Request, NEW k, NEW f, NEW p, NEW b, NEW u
  PROVE  /\ Edited(r, k, f, p, b, u).tokill = k /\ Edited(r, k, f, p, b, u).unkilled = f
         /\ Edited(r, k, f, p, b, u).unbound = b /\ Edited(r, k, f, p, b, u).seen = u
         /\ Edited(r, k, f, p, b, u).pc = p /\ Edited(r, k, f, p, b, u).tomb = r.tomb
  BY DEF Request, Edited

LEMMA OthersStay ==
  ASSUME PurgeInv, NEW d \in Deleters, NEW q \in Request, del' = [del EXCEPT ![d] = q],
         kind' = kind, slot' = slot, up' \subseteq up, row'.id \in {0, row.id},
         \A e \in Deleters : e # d => trash'[e] = trash[e],
         AsideOK(d)', SeenOK(d)'
  PROVE  /\ del' \in [Deleters -> Request]
         /\ \A e \in Deleters : AsideOK(e)' /\ SeenOK(e)'
<1>1. del' \in [Deleters -> Request]
  BY DEF TypeOK
<1>2. ASSUME NEW e \in Deleters, e # d
      PROVE  del'[e] = del[e] /\ trash'[e] = trash[e]
  BY <1>2 DEF TypeOK
<1>3. ASSUME NEW e \in Deleters, e # d
      PROVE  AsideOK(e)' /\ SeenOK(e)'
  BY <1>2, <1>3 DEF AsideOK, SeenOK
<1> QED
  BY <1>1, <1>3

LEMMA ResolveKeeps ==
  ASSUME PurgeInv, NEW d \in Deleters, NEW force \in BOOLEAN, Resolve(d, force)
  PROVE  PurgeInv'
<1> DEFINE q == [Idle EXCEPT !.pc = "look", !.job = row.id, !.force = force]
<1>0. del[d] \in Request
  BY DEF TypeOK
<1>1. q \in Request
  BY <1>0 DEF TypeOK, Made, Request, Resolve, Idle
<1>2. del' = [del EXCEPT ![d] = q] /\ del'[d] = q
  BY DEF TypeOK, Resolve, Idle
<1>3. /\ kind' = kind /\ slot' = slot /\ up' \subseteq up /\ row'.id \in {0, row.id}
      /\ \A e \in Deleters : e # d => trash'[e] = trash[e]
  BY DEF TypeOK, Resolve, Idle
<1>4. AsideOK(d)' /\ SeenOK(d)'
  <2>1. AsideOK(d)'
    BY <1>0, <1>2, <1>3 DEF Made, TypeOK, AsideOK, Request, Resolve, Idle
  <2>2. SeenOK(d)'
    BY <1>0, <1>2, <1>3 DEF SeenOK, Request, Resolve, Idle
  <2> QED
    BY <2>1, <2>2
<1> HIDE DEF q
<1>5. /\ del' \in [Deleters -> Request]
      /\ \A e \in Deleters : AsideOK(e)' /\ SeenOK(e)'
  BY <1>1, <1>2, <1>3, <1>4, OthersStay
<1>6. TypeOK'
  <2> QED
    BY <1>5 DEF TypeOK, Resolve, Idle, RowType
<1>7. Made'
  BY DEF TypeOK, Made, Named, NoLaunch, Trees, NoTree, Resolve, Idle
<1>8. Named'
  BY DEF TypeOK, Made, Named, NoLaunch, Resolve, Idle
<1>9. BytesKept'
  BY DEF TypeOK, Made, Named, BytesKept, NoTree, Trees, AsideOK, Resolve, Idle
<1> QED
  BY <1>5, <1>6, <1>7, <1>8, <1>9

LEMMA LookKeeps ==
  ASSUME PurgeInv, NEW d \in Deleters, Look(d)
  PROVE  PurgeInv'
<1> DEFINE q == 
       IF TakenBy(del[d].job) # {} /\ ~del[d].force THEN [Idle EXCEPT !.pc = "over"]
       ELSE IF BoundBy(del[d].job) # {}
       THEN [del[d] EXCEPT !.pc = "kill", !.tokill = BoundBy(del[d].job),
                           !.seen = BoundBy(del[d].job)]
       ELSE [del[d] EXCEPT !.pc = "fresh", !.unbound = UnboundBy(del[d].job) # {},
                           !.seen = UnboundBy(del[d].job)]
<1>0. del[d] \in Request
  BY DEF TypeOK
<1>1. q \in Request
  <2>1. /\ BoundBy(del[d].job) \in SUBSET Slots
        /\ UnboundBy(del[d].job) \in SUBSET Slots
    BY SlotsOf
  <2>2. CASE TakenBy(del[d].job) # {} /\ ~del[d].force
    BY <2>2, IdleIs
  <2>3. CASE /\ ~(TakenBy(del[d].job) # {} /\ ~del[d].force)
             /\ BoundBy(del[d].job) # {}
    BY <1>0, <2>1, <2>3 DEF Request
  <2>4. CASE /\ ~(TakenBy(del[d].job) # {} /\ ~del[d].force)
             /\ BoundBy(del[d].job) = {}
    BY <1>0, <2>1, <2>4 DEF Request
  <2> QED
    BY <2>2, <2>3, <2>4
<1>2. del' = [del EXCEPT ![d] = q] /\ del'[d] = q
  BY ZenonT(60) DEF TypeOK, Look, Ends, Idle
<1>3. /\ kind' = kind /\ slot' = slot /\ up' \subseteq up /\ row'.id \in {0, row.id}
      /\ \A e \in Deleters : e # d => trash'[e] = trash[e]
  BY DEF TypeOK, Look, Ends, Idle
<1>4. AsideOK(d)' /\ SeenOK(d)'
  <2>0. del[d].pc = "look" /\ up' = up /\ trash' = trash /\ row' = row
    BY DEF Look
  <2>1. CASE TakenBy(del[d].job) # {} /\ ~del[d].force
    BY <1>2, <1>3, <2>0, <2>1 DEF AsideOK, SeenOK, Idle, Request
  <2>2. CASE /\ ~(TakenBy(del[d].job) # {} /\ ~del[d].force)
             /\ BoundBy(del[d].job) # {}
    BY <1>0, <1>2, <1>3, <2>0, <2>2, SlotsOf DEF AsideOK, SeenOK, Request
  <2>3. CASE /\ ~(TakenBy(del[d].job) # {} /\ ~del[d].force)
             /\ BoundBy(del[d].job) = {}
    <3>1. del'[d] = [del[d] EXCEPT !.pc = "fresh", !.unbound = UnboundBy(del[d].job) # {},
                                   !.seen = UnboundBy(del[d].job)]
      BY <1>2, <2>3
    <3>2. AsideOK(d)'
      BY <1>0, <1>3, <2>0, <3>1 DEF AsideOK, Request
    <3>3. /\ del'[d].pc = "fresh" /\ del'[d].tokill = del[d].tokill
          /\ \A s \in del'[d].seen : del'[d].unbound
      <4>1. /\ del'[d].seen = UnboundBy(del[d].job)
            /\ del'[d].unbound = (UnboundBy(del[d].job) # {})
            /\ del'[d].pc = "fresh" /\ del'[d].tokill = del[d].tokill
        BY <1>0, <3>1 DEF Request
      <4> HIDE DEF q
      <4> QED
        BY <4>1
    <3> QED
      BY <2>0, <3>2, <3>3 DEF SeenOK
  <2> QED
    BY <2>1, <2>2, <2>3
<1> HIDE DEF q
<1>5. /\ del' \in [Deleters -> Request]
      /\ \A e \in Deleters : AsideOK(e)' /\ SeenOK(e)'
  BY <1>1, <1>2, <1>3, <1>4, OthersStay
<1>6. TypeOK'
  <2> QED
    BY <1>5 DEF TypeOK, Look, Ends, Idle, RowType
<1>7. Made'
  BY DEF TypeOK, Made, Named, NoLaunch, Trees, NoTree, Look, Ends, Idle
<1>8. Named'
  BY DEF TypeOK, Made, Named, NoLaunch, Look, Ends, Idle
<1>9. BytesKept'
  BY DEF TypeOK, Made, Named, BytesKept, NoTree, Trees, AsideOK, Look, Ends, Idle
<1> QED
  BY <1>5, <1>6, <1>7, <1>8, <1>9

LEMMA KillKeeps ==
  ASSUME PurgeInv, NEW d \in Deleters, NEW s \in Slots, NEW fails \in BOOLEAN, Kill(d, s, fails)
  PROVE  PurgeInv'
<1> DEFINE q ==
    Edited(del[d], del[d].tokill \ {s},
           IF fails THEN del[d].unkilled \cup {s} ELSE del[d].unkilled,
           IF del[d].tokill = {s} THEN "fresh" ELSE del[d].pc,
           del[d].tokill = {s} /\ UnboundBy(del[d].job) # {},
           del[d].seen \cup IF del[d].tokill = {s} THEN UnboundBy(del[d].job) ELSE {})
<1>0. del[d] \in Request
  BY DEF TypeOK
<1>1. q \in Request
  <2>1. /\ UnboundBy(del[d].job) \in SUBSET Slots
        /\ del[d].tokill \ {s} \in SUBSET Slots /\ del[d].unkilled \cup {s} \in SUBSET Slots
    BY <1>0, SlotsOf DEF Request
  <2>2. /\ (del[d].seen \cup IF del[d].tokill = {s} THEN UnboundBy(del[d].job) ELSE {})
             \in SUBSET Slots
        /\ (IF fails THEN del[d].unkilled \cup {s} ELSE del[d].unkilled) \in SUBSET Slots
        /\ (del[d].tokill = {s} /\ UnboundBy(del[d].job) # {}) \in BOOLEAN
    BY <1>0, <2>1 DEF Request
  <2> HIDE DEF Slots
  <2> QED
    BY <1>0, <2>1, <2>2 DEF Request, Edited
<1>2. del' = [del EXCEPT ![d] = q] /\ del'[d] = q
  BY DEF TypeOK, Kill, Edited
<1>3. /\ kind' = kind /\ slot' = slot /\ up' \subseteq up /\ row'.id \in {0, row.id}
      /\ \A e \in Deleters : e # d => trash'[e] = trash[e]
  BY DEF TypeOK, Kill, Spend
<1>4. AsideOK(d)' /\ SeenOK(d)'
  <2>0. /\ del[d].pc = "kill" /\ s \in del[d].tokill /\ ~del[d].unbound
        /\ trash' = trash /\ row' = row /\ (~fails => s \notin up')
    BY DEF Kill, SeenOK
  <2>1. AsideOK(d)'
    BY <1>0, <1>2, <1>3, <2>0, EditedFields DEF AsideOK, Request
  <2>2. /\ del'[d].pc \in {"kill", "fresh"} /\ (del'[d].pc = "kill" => ~del'[d].unbound)
        /\ (del'[d].pc # "kill" => del'[d].tokill = {})
    BY <1>0, <1>2, <2>0, EditedFields DEF Request
  <2>3. ASSUME NEW x \in del'[d].seen, ~del'[d].unbound
        PROVE  /\ slot[x].at \in {"bound", "over"}
               /\ x \in up' => x \in del'[d].tokill \cup del'[d].unkilled
    <3>0. /\ del'[d].tokill = del[d].tokill \ {s}
          /\ del'[d].unkilled = IF fails THEN del[d].unkilled \cup {s} ELSE del[d].unkilled
          /\ del[d].tokill = {s} /\ UnboundBy(del[d].job) # {} => del'[d].unbound
          /\ del'[d].seen = del[d].seen \cup IF del[d].tokill = {s}
                                              THEN UnboundBy(del[d].job) ELSE {}
      <4> DEFINE k == del[d].tokill \ {s}
                 f == IF fails THEN del[d].unkilled \cup {s} ELSE del[d].unkilled
                 p == IF del[d].tokill = {s} THEN "fresh" ELSE del[d].pc
                 b == del[d].tokill = {s} /\ UnboundBy(del[d].job) # {}
                 u == del[d].seen \cup IF del[d].tokill = {s} THEN UnboundBy(del[d].job)
                                        ELSE {}
      <4>1. del'[d] = Edited(del[d], k, f, p, b, u)
        BY <1>2
      <4> HIDE DEF q, k, f, p, b, u
      <4>2. /\ del'[d].tokill = k /\ del'[d].unkilled = f /\ del'[d].seen = u
            /\ del'[d].unbound = b
        BY <1>0, <4>1, EditedFields
      <4> QED
        BY <4>2 DEF k, f, b, u
    <3> HIDE DEF q
    <3>1. x \in del[d].seen
      BY <2>3, <3>0
    <3>2. x # s => (x \in del[d].tokill \cup del[d].unkilled
                     => x \in del'[d].tokill \cup del'[d].unkilled)
      BY <3>0
    <3>3. fails => s \in del'[d].unkilled
      BY <3>0
    <3> QED
      BY <1>3, <2>0, <3>1, <3>2, <3>3 DEF SeenOK
  <2> QED
    BY <1>3, <2>1, <2>2, <2>3 DEF SeenOK
<1> HIDE DEF q
<1>5. /\ del' \in [Deleters -> Request]
      /\ \A e \in Deleters : AsideOK(e)' /\ SeenOK(e)'
  BY <1>1, <1>2, <1>3, <1>4, OthersStay
<1>6. TypeOK'
  <2>1. up' \subseteq Launches \cup Slots
    BY DEF TypeOK, Made, Named, Kill, Spend
  <2>2. wlock' = "create" => cred' # spent'.rows
    BY DEF TypeOK, Made, Named, Kill, Spend
  <2>3. \A x \in Slots : slot'[x].at \in {"free", "reg", "starting"} => x \notin up'
    BY DEF TypeOK, Made, Named, SlotType, Over, Kill, Spend
  <2> QED
    BY <1>5, <2>1, <2>2, <2>3 DEF TypeOK, Kill, Spend, RowType
<1>7. Made'
  <2>1. /\ spent' \in [rows : 1..MaxRows, launches : Nat, restarts : Nat, faults : Nat]
        /\ spent'.rows = spent.rows
    <3>1. IF fails THEN spent' = [spent EXCEPT !["faults"] = @ + 1] ELSE spent' = spent
      BY DEF Kill, Spend
    <3> QED
      BY <3>1 DEF Made
  <2> QED
    BY <2>1 DEF Made, Kill
<1>8. Named'
  BY DEF TypeOK, Made, Named, NoLaunch, Kill, Spend
<1>9. BytesKept'
  BY DEF TypeOK, Made, Named, BytesKept, NoTree, Trees, AsideOK, Kill, Spend
<1> QED
  BY <1>5, <1>6, <1>7, <1>8, <1>9

LEMMA ReadFreshKeeps ==
  ASSUME PurgeInv, NEW d \in Deleters, ReadFresh(d)
  PROVE  PurgeInv'
<1> DEFINE q == [del[d] EXCEPT !.pc = "stopping",
                         !.ctr = IF row.id = del[d].job THEN row.ctr ELSE 0]
<1>0. del[d] \in Request
  BY DEF TypeOK
<1>1. q \in Request
  BY <1>0 DEF TypeOK, Made, Request, ReadFresh
<1>2. del' = [del EXCEPT ![d] = q] /\ del'[d] = q
  BY DEF TypeOK, ReadFresh
<1>3. /\ kind' = kind /\ slot' = slot /\ up' \subseteq up /\ row'.id \in {0, row.id}
      /\ \A e \in Deleters : e # d => trash'[e] = trash[e]
  BY DEF TypeOK, ReadFresh
<1>4. AsideOK(d)' /\ SeenOK(d)'
  <2>1. AsideOK(d)'
    BY <1>0, <1>2, <1>3 DEF Made, TypeOK, AsideOK, Request, ReadFresh
  <2>2. SeenOK(d)'
    BY <1>0, <1>2, <1>3, ZenonT(60) DEF SeenOK, Request, ReadFresh
  <2> QED
    BY <2>1, <2>2
<1> HIDE DEF q
<1>5. /\ del' \in [Deleters -> Request]
      /\ \A e \in Deleters : AsideOK(e)' /\ SeenOK(e)'
  BY <1>1, <1>2, <1>3, <1>4, OthersStay
<1>6. TypeOK'
  <2> QED
    BY <1>5 DEF TypeOK, ReadFresh, RowType
<1>7. Made'
  BY DEF TypeOK, Made, Named, NoLaunch, Trees, NoTree, ReadFresh
<1>8. Named'
  BY DEF TypeOK, Made, Named, NoLaunch, ReadFresh
<1>9. BytesKept'
  BY DEF TypeOK, Made, Named, BytesKept, NoTree, Trees, AsideOK, ReadFresh
<1> QED
  BY <1>5, <1>6, <1>7, <1>8, <1>9

LEMMA SetStoppedKeeps ==
  ASSUME PurgeInv, NEW d \in Deleters, SetStopped(d)
  PROVE  PurgeInv'
<1> DEFINE q == [del[d] EXCEPT !.pc = "teardown"]
<1>0. del[d] \in Request
  BY DEF TypeOK
<1>1. q \in Request
  BY <1>0 DEF TypeOK, Made, Request, SetStopped, Wants, To
<1>2. del' = [del EXCEPT ![d] = q] /\ del'[d] = q
  BY DEF TypeOK, SetStopped, Wants, To
<1>3. /\ kind' = kind /\ slot' = slot /\ up' \subseteq up /\ row'.id \in {0, row.id}
      /\ \A e \in Deleters : e # d => trash'[e] = trash[e]
  BY DEF TypeOK, SetStopped, Wants, To
<1>4. AsideOK(d)' /\ SeenOK(d)'
  <2>1. AsideOK(d)'
    BY <1>0, <1>2, <1>3 DEF Made, TypeOK, AsideOK, Request, SetStopped, Wants, To
  <2>2. SeenOK(d)'
    BY <1>0, <1>2, <1>3 DEF SeenOK, Request, SetStopped, Wants, To
  <2> QED
    BY <2>1, <2>2
<1> HIDE DEF q
<1>5. /\ del' \in [Deleters -> Request]
      /\ \A e \in Deleters : AsideOK(e)' /\ SeenOK(e)'
  BY <1>1, <1>2, <1>3, <1>4, OthersStay
<1>6. TypeOK'
  <2>1. row' \in RowType
    BY DEF TypeOK, Made, Named, RowType, NoRow, SetStopped, Wants, To
  <2> QED
    BY <1>5, <2>1 DEF TypeOK, SetStopped, Wants, To, RowType
<1>7. Made'
  BY DEF TypeOK, Made, Named, NoLaunch, Trees, NoTree, SetStopped, Wants, To
<1>8. Named'
  BY DEF TypeOK, Made, Named, NoLaunch, SetStopped, Wants, To
<1>9. BytesKept'
  BY DEF TypeOK, Made, Named, BytesKept, NoTree, Trees, AsideOK, SetStopped, Wants, To
<1> QED
  BY <1>5, <1>6, <1>7, <1>8, <1>9

LEMMA TeardownKeeps ==
  ASSUME PurgeInv, NEW d \in Deleters, NEW fails \in BOOLEAN, Teardown(d, fails)
  PROVE  PurgeInv'
<1> DEFINE q == [del[d] EXCEPT !.pc = IF kind = "database" THEN "tomb" ELSE "checked",
                         !.failed = fails]
<1>0. del[d] \in Request
  BY DEF TypeOK
<1>1. q \in Request
  BY <1>0 DEF TypeOK, Made, Request, Teardown, Spend
<1>2. del' = [del EXCEPT ![d] = q] /\ del'[d] = q
  BY DEF TypeOK, Teardown, Spend
<1>3. /\ kind' = kind /\ slot' = slot /\ up' \subseteq up /\ row'.id \in {0, row.id}
      /\ \A e \in Deleters : e # d => trash'[e] = trash[e]
  BY DEF TypeOK, Teardown, Spend
<1>4. AsideOK(d)' /\ SeenOK(d)'
  <2>1. AsideOK(d)'
    BY <1>0, <1>2, <1>3 DEF Made, TypeOK, AsideOK, Request, Teardown, Spend
  <2>2. SeenOK(d)'
    BY <1>0, <1>2, <1>3, ZenonT(60) DEF SeenOK, Request, Teardown, Spend
  <2> QED
    BY <2>1, <2>2
<1> HIDE DEF q
<1>5. /\ del' \in [Deleters -> Request]
      /\ \A e \in Deleters : AsideOK(e)' /\ SeenOK(e)'
  BY <1>1, <1>2, <1>3, <1>4, OthersStay
<1>6. TypeOK'
  <2>1. up' \subseteq Launches \cup Slots
    BY DEF TypeOK, Made, Named, Teardown, Spend
  <2>2. wlock' = "create" => cred' # spent'.rows
    BY DEF TypeOK, Made, Named, Teardown, Spend
  <2>3. \A x \in Slots : slot'[x].at \in {"free", "reg", "starting"} => x \notin up'
    BY DEF TypeOK, Made, Named, SlotType, Over, Teardown, Spend
  <2> QED
    BY <1>5, <2>1, <2>2, <2>3 DEF TypeOK, Teardown, Spend, RowType
<1>7. Made'
  BY DEF TypeOK, Made, Named, NoLaunch, Trees, NoTree, Teardown, Spend
<1>8. Named'
  BY DEF TypeOK, Made, Named, NoLaunch, Teardown, Spend
<1>9. BytesKept'
  BY DEF TypeOK, Made, Named, BytesKept, NoTree, Trees, AsideOK, Teardown, Spend
<1> QED
  BY <1>5, <1>6, <1>7, <1>8, <1>9

LEMMA PurgeSecretsKeeps ==
  ASSUME PurgeInv, NEW d \in Deleters, PurgeSecrets(d)
  PROVE  PurgeInv'
<1> DEFINE q == [del[d] EXCEPT !.pc = "data"]
<1>0. del[d] \in Request
  BY DEF TypeOK
<1>1. q \in Request
  BY <1>0 DEF TypeOK, Made, Request, PurgeSecrets, To
<1>2. del' = [del EXCEPT ![d] = q] /\ del'[d] = q
  BY DEF TypeOK, PurgeSecrets, To
<1>3. /\ kind' = kind /\ slot' = slot /\ up' \subseteq up /\ row'.id \in {0, row.id}
      /\ \A e \in Deleters : e # d => trash'[e] = trash[e]
  BY DEF TypeOK, PurgeSecrets, To
<1>4. AsideOK(d)' /\ SeenOK(d)'
  <2>1. AsideOK(d)'
    BY <1>0, <1>2, <1>3 DEF Made, TypeOK, AsideOK, Request, PurgeSecrets, To
  <2>2. SeenOK(d)'
    BY <1>0, <1>2, <1>3 DEF SeenOK, Request, PurgeSecrets, To
  <2> QED
    BY <2>1, <2>2
<1> HIDE DEF q
<1>5. /\ del' \in [Deleters -> Request]
      /\ \A e \in Deleters : AsideOK(e)' /\ SeenOK(e)'
  BY <1>1, <1>2, <1>3, <1>4, OthersStay
<1>6. TypeOK'
  <2>1. cred' \in 0..MaxRows
    BY DEF TypeOK, Made, Named, PurgeSecrets, To
  <2>2. wlock' = "create" => cred' # spent'.rows
    BY DEF TypeOK, Made, Named, PurgeSecrets, To
  <2> QED
    BY <1>5, <2>1, <2>2 DEF TypeOK, PurgeSecrets, To, RowType
<1>7. Made'
  BY DEF TypeOK, Made, Named, NoLaunch, Trees, NoTree, PurgeSecrets, To
<1>8. Named'
  BY DEF TypeOK, Made, Named, NoLaunch, PurgeSecrets, To
<1>9. BytesKept'
  BY DEF TypeOK, Made, Named, BytesKept, NoTree, Trees, AsideOK, PurgeSecrets, To
<1> QED
  BY <1>5, <1>6, <1>7, <1>8, <1>9

LEMMA PurgeDataKeeps ==
  ASSUME PurgeInv, NEW d \in Deleters, PurgeData(d)
  PROVE  PurgeInv'
<1> DEFINE q == [Idle EXCEPT !.pc = "over"]
<1>0. del[d] \in Request
  BY DEF TypeOK
<1>1. q \in Request
  BY IdleIs
<1>2. del' = [del EXCEPT ![d] = q] /\ del'[d] = q
  BY DEF TypeOK, PurgeData, Ends
<1>3. /\ kind' = kind /\ slot' = slot /\ up' \subseteq up /\ row'.id \in {0, row.id}
      /\ \A e \in Deleters : e # d => trash'[e] = trash[e]
  BY DEF TypeOK, PurgeData, Ends
<1>4. AsideOK(d)' /\ SeenOK(d)'
  <2>1. trash'[d] = NoTree
    BY DEF PurgeData, TypeOK, AsideOK
  <2> QED
    BY <1>2, <2>1, IdleIs DEF AsideOK, SeenOK, Idle, Request
<1> HIDE DEF q
<1>5. /\ del' \in [Deleters -> Request]
      /\ \A e \in Deleters : AsideOK(e)' /\ SeenOK(e)'
  BY <1>1, <1>2, <1>3, <1>4, OthersStay
<1>6. TypeOK'
  <2>1. tree' \in Trees
    BY DEF TypeOK, Made, Named, Trees, NoTree, PurgeData, Ends
  <2>2. trash' \in [Deleters -> Trees]
    BY DEF TypeOK, Made, Named, Trees, NoTree, PurgeData, Ends
  <2> QED
    BY <1>5, <2>1, <2>2 DEF TypeOK, PurgeData, Ends, RowType
<1>7. Made'
  BY DEF TypeOK, Made, Named, NoLaunch, Trees, NoTree, PurgeData, Ends
<1>8. Named'
  BY DEF TypeOK, Made, Named, NoLaunch, PurgeData, Ends
<1>9. BytesKept'
  BY DEF TypeOK, Made, Named, BytesKept, NoTree, Trees, AsideOK, PurgeData, Ends
<1> QED
  BY <1>5, <1>6, <1>7, <1>8, <1>9

LEMMA TombstoneKeeps ==
  ASSUME PurgeInv, NEW d \in Deleters, Tombstone(d)
  PROVE  PurgeInv'
<1> DEFINE over == [Idle EXCEPT !.pc = "over"]
           on == [del[d] EXCEPT !.pc = "checked"]
           moved == [del[d] EXCEPT !.pc = "checked", !.tomb = TRUE]
<1>0. /\ del[d] \in Request /\ del[d].pc = "tomb" /\ kind = "database" /\ trash[d] = NoTree
      /\ over \in Request /\ on \in Request /\ moved \in Request
  BY IdleIs DEF TypeOK, Tombstone, AsideOK, Request
<1>1. PICK q \in Request :
        /\ del' = [del EXCEPT ![d] = q]
        /\ \/ q = over /\ row' = Wants(del[d].job, "running") /\ tree' = tree /\ trash' = trash
           \/ q = on /\ row' = row /\ tree' = tree /\ trash' = trash
           \/ q = moved /\ row' = row /\ tree' = NoTree /\ trash' = [trash EXCEPT ![d] = tree]
  BY <1>0, ZenonT(60) DEF Tombstone, Ends, To
<1>2. del'[d] = q /\ row' \in RowType /\ row'.id = row.id
  BY <1>1 DEF TypeOK, Wants, RowType
<1>3. /\ kind' = kind /\ slot' = slot /\ up' \subseteq up
      /\ \A e \in Deleters : e # d => trash'[e] = trash[e]
  BY <1>1 DEF Tombstone, TypeOK
<1>4. AsideOK(d)' /\ SeenOK(d)'
  <2>1. CASE q = over /\ trash' = trash
    BY <1>0, <1>2, <2>1 DEF AsideOK, SeenOK, Idle
  <2>2. CASE q = on /\ row' = row /\ trash' = trash
    <3>1. AsideOK(d)'
      BY <1>0, <1>2, <1>3, <2>2 DEF AsideOK, Request
    <3>2. SeenOK(d)'
      BY <1>0, <1>2, <1>3, <2>2 DEF SeenOK, Request
    <3> QED
      BY <3>1, <3>2
  <2>3. CASE q = moved
    <3>1. AsideOK(d)'
      BY <1>0, <1>2, <1>3, <2>3 DEF AsideOK, Request
    <3>2. SeenOK(d)'
      BY <1>0, <1>2, <1>3, <2>3 DEF SeenOK, Request
    <3> QED
      BY <3>1, <3>2
  <2> QED
    BY <1>1, <2>1, <2>2, <2>3
<1>5. /\ del' \in [Deleters -> Request]
      /\ \A e \in Deleters : AsideOK(e)' /\ SeenOK(e)'
  BY <1>1, <1>2, <1>3, <1>4, OthersStay
<1>6. tree' \in Trees /\ trash' \in [Deleters -> Trees]
  BY <1>1 DEF TypeOK, NoTree, Trees
<1>7. TypeOK'
  BY <1>2, <1>5, <1>6 DEF TypeOK, Tombstone, RowType
<1>8. Made' /\ Named'
  BY <1>1, <1>2 DEF Tombstone, Made, Named, TypeOK, NoTree, NoLaunch
<1>9. BytesKept'
  BY <1>0, <1>1, <1>2 DEF Tombstone, BytesKept, Made, TypeOK, NoTree
<1> QED
  BY <1>5, <1>7, <1>8, <1>9

LEMMA CheckedDeleteKeeps ==
  ASSUME PurgeInv, NEW d \in Deleters, CheckedDelete(d)
  PROVE  PurgeInv'
<1> DEFINE over == [Idle EXCEPT !.pc = "over"]
           stuck == [del[d] EXCEPT !.pc = "stuck"]
           on == [del[d] EXCEPT !.pc = IF kind = "database" THEN "secrets" ELSE "data"]
<1>0. /\ del[d] \in Request /\ del[d].pc = "checked"
      /\ over \in Request /\ stuck \in Request /\ on \in Request
  BY IdleIs, SMTT(40) DEF TypeOK, CheckedDelete, Request
<1>1. PICK q \in Request :
        /\ del' = [del EXCEPT ![d] = q]
        /\ \/ q = over /\ Restores(d) /\ PutBack(d) /\ row' \in {row, Wants(del[d].job, "running")}
           \/ q = stuck /\ ~Restores(d) /\ PutBack(d) /\ row' = row
           \/ q = on /\ row' = NoRow /\ tree' = tree /\ trash' = trash
  BY <1>0 DEF CheckedDelete, Ends, To
<1>2. /\ del'[d] = q /\ row' \in RowType /\ row'.id \in {0, row.id}
      /\ q # on => row'.id = row.id
  BY <1>0, <1>1, IdleIs DEF TypeOK, Wants, RowType, NoRow, Idle, Request
<1>3. /\ kind' = kind /\ slot' = slot /\ up' \subseteq up
      /\ \A e \in Deleters : e # d => trash'[e] = trash[e]
  BY <1>1 DEF CheckedDelete, PutBack, TypeOK
<1>4. AsideOK(d)' /\ SeenOK(d)'
  <2>1. CASE q = over /\ Restores(d) /\ PutBack(d)
    <3>1. trash'[d] = NoTree
      BY <2>1 DEF PutBack, TypeOK, AsideOK
    <3> QED
      BY <1>2, <2>1, <3>1 DEF AsideOK, SeenOK, Idle
  <2>2. CASE q = stuck /\ ~Restores(d) /\ PutBack(d)
    BY <1>0, <1>2, <1>3, <2>2 DEF AsideOK, SeenOK, Request, PutBack
  <2>3. CASE q = on /\ row' = NoRow /\ trash' = trash
    <3>1. AsideOK(d)'
      BY <1>0, <1>2, <1>3, <2>3 DEF AsideOK, Request, NoRow
    <3>2. SeenOK(d)'
      BY <1>0, <1>2, <1>3, <2>3 DEF SeenOK, Request
    <3> QED
      BY <3>1, <3>2
  <2> QED
    BY <1>1, <2>1, <2>2, <2>3
<1>5. /\ del' \in [Deleters -> Request]
      /\ \A e \in Deleters : AsideOK(e)' /\ SeenOK(e)'
  BY <1>1, <1>2, <1>3, <1>4, OthersStay
<1>6. tree' \in Trees /\ trash' \in [Deleters -> Trees]
  BY <1>1 DEF TypeOK, NoTree, Trees, PutBack
<1>7. TypeOK'
  BY <1>2, <1>5, <1>6 DEF TypeOK, CheckedDelete, RowType
<1>8. Made' /\ Named'
  BY <1>1, <1>2 DEF CheckedDelete, PutBack, Made, Named, TypeOK, NoTree, NoLaunch
<1>9. BytesKept'
  BY <1>0, <1>1, <1>2 DEF CheckedDelete, PutBack, Restores, BytesKept, Made, TypeOK, NoTree, NoRow
<1> QED
  BY <1>5, <1>7, <1>8, <1>9

---------------------------------------------------------------------------
(* The invariant, and what follows from it.                                *)

LEMMA NextKeeps == ASSUME PurgeInv, Next PROVE PurgeInv'
<1>1. ASSUME NEW s \in Slots,
             RegisterRun(s) \/ RegisterRelease(s) \/ Reread(s) \/ RunStarts(s) \/ Bind(s)
               \/ RunEnds(s)
      PROVE  PurgeInv'
  BY <1>1, RegisterRunKeeps, RegisterReleaseKeeps, RereadKeeps, RunStartsKeeps, BindKeeps,
     RunEndsKeeps
<1>2. ASSUME NEW d \in Deleters, Delete(d)
      PROVE  PurgeInv'
  BY <1>2, ResolveKeeps, LookKeeps, KillKeeps, ReadFreshKeeps, SetStoppedKeeps, TeardownKeeps,
     TombstoneKeeps, CheckedDeleteKeeps, PurgeSecretsKeeps, PurgeDataKeeps DEF Delete
<1> QED
  BY <1>1, <1>2, LaunchKeeps, ContainerStartsKeeps, LaunchSettlesKeeps, TickStopsKeeps,
     CreateKeeps, MintCredentialKeeps, RestartServiceKeeps, DependKeeps DEF Next

LEMMA StutterKeeps == ASSUME PurgeInv, UNCHANGED vars PROVE PurgeInv'
<1>1. TypeOK' /\ Made' /\ Named' /\ BytesKept'
  BY DEF vars, TypeOK, Made, Named, BytesKept
<1>2. \A d \in Deleters : AsideOK(d)' /\ SeenOK(d)'
  BY DEF vars, AsideOK, SeenOK
<1> QED
  BY <1>1, <1>2

\* The invariant of the proof: who may hold a tree, a credential or a slot, and what a
\* delete knows of the runs it saw.
THEOREM PurgeInvHolds == Spec => []PurgeInv
<1>1. PurgeInv /\ [Next]_vars => PurgeInv'
  BY NextKeeps, StutterKeeps
<1> QED
  BY <1>1, InitInv, PTL DEF Spec

\* Every variable keeps its type.
THEOREM TypeCorrect == Spec => []TypeOK
  BY PurgeInvHolds, PTL

\* While a database has its row, its bytes are at the path or in a tombstone.
THEOREM BytesAreKept == Spec => []BytesKept
  BY PurgeInvHolds, PTL

\* Only the last step of a delete ends it with the tree gone.
LEMMA TreesGo ==
  ASSUME PurgeInv, Next, NEW d \in Deleters, Removes(d)
  PROVE  PurgeData(d)
<1>1. del'[d] # del[d] /\ del[d].pc = "data"
  BY DEF Removes
<1>2. ASSUME NEW e \in Deleters, Delete(e) PROVE e = d
  <2>1. \A x \in Deleters : x # e => del'[x] = del[x]
    <3>1. CASE \E force \in BOOLEAN : Resolve(e, force)
      BY <3>1 DEF TypeOK, Resolve
    <3>2. CASE Look(e)
      BY <3>2 DEF TypeOK, Look, Ends
    <3>3. CASE \E s \in Slots, fails \in BOOLEAN : Kill(e, s, fails)
      BY <3>3, ZenonT(60) DEF TypeOK, Kill
    <3>4. CASE ReadFresh(e) \/ SetStopped(e) \/ PurgeSecrets(e)
      BY <3>4 DEF TypeOK, ReadFresh, SetStopped, PurgeSecrets, To
    <3>5. CASE \E fails \in BOOLEAN : Teardown(e, fails)
      BY <3>5 DEF TypeOK, Teardown
    <3>6. CASE Tombstone(e)
      BY <3>6 DEF TypeOK, Tombstone, To, Ends
    <3>7. CASE CheckedDelete(e)
      BY <3>7 DEF TypeOK, CheckedDelete, To, Ends
    <3>8. CASE PurgeData(e)
      BY <3>8 DEF TypeOK, PurgeData, Ends
    <3> QED
      BY <1>2, <3>1, <3>2, <3>3, <3>4, <3>5, <3>6, <3>7, <3>8 DEF Delete
  <2> QED
    BY <1>1, <2>1 DEF TypeOK
<1>3. Delete(d) \/ del' = del
  BY <1>2 DEF Next, Launch, ContainerStarts, LaunchSettles, TickStops, RegisterRun,
    RegisterRelease, Reread, RunStarts, Bind, RunEnds, Create, MintCredential, RestartService,
    Depend
<1> QED
  BY <1>1, <1>3 DEF Delete, Resolve, Look, Kill, ReadFresh, SetStopped, Teardown, Tombstone,
    CheckedDelete, PurgeSecrets

\* A credential is minted for the row that has none, and removed where there is no row.
LEMMA CredentialsGo ==
  ASSUME PurgeInv, Next, row.id # 0, cred = row.id
  PROVE  cred' = cred
<1>1. row.id = spent.rows /\ wlock # "create"
  BY DEF TypeOK, Made
<1>2. ASSUME NEW d \in Deleters, Delete(d) PROVE cred' = cred
  BY <1>2 DEF Delete, Resolve, Look, Kill, ReadFresh, SetStopped, Teardown, Tombstone,
    CheckedDelete, PurgeSecrets, PurgeData
<1> QED
  BY <1>1, <1>2 DEF Next, Launch, ContainerStarts, LaunchSettles, TickStops, RegisterRun,
    RegisterRelease, Reread, RunStarts, Bind, RunEnds, Create, MintCredential, RestartService,
    Depend

\* The tree of a service goes with its last delete only.
LEMMA ServiceTreesGo ==
  ASSUME PurgeInv, Next, row.id # 0, kind = "service", tree # NoTree
  PROVE  tree' # NoTree
<1>1. ASSUME NEW d \in Deleters, Delete(d) PROVE tree' # NoTree
  <2>1. CASE CheckedDelete(d)
    BY <2>1 DEF CheckedDelete, PutBack, Restores
  <2>2. CASE Tombstone(d)
    BY <2>2 DEF Tombstone, AsideOK
  <2>3. CASE PurgeData(d)
    BY <2>3 DEF PurgeData, Skips
  <2> QED
    BY <1>1, <2>1, <2>2, <2>3 DEF Delete, Resolve, Look, Kill, ReadFresh, SetStopped, Teardown,
      PurgeSecrets
<1> QED
  BY <1>1 DEF Next, Launch, ContainerStarts, LaunchSettles, TickStops, RegisterRun,
    RegisterRelease, Reread, RunStarts, Bind, RunEnds, Create, MintCredential, RestartService,
    Depend, Mounts

\* A run or release that a delete saw does not write to the tree it removes.
THEOREM RunsAreDown == Spec => KnownRunsAreDown
<1> DEFINE Known == \A d \in Deleters : Removes(d) => \A s \in del[d].seen : ~Writes(s)
<1>1. ASSUME PurgeInv, Next, NEW d \in Deleters, Removes(d), NEW s \in del[d].seen
      PROVE  ~Writes(s)
  <2>1. PurgeData(d)
    BY <1>1, TreesGo
  <2>2. ~Skips(d) /\ up' = up
    BY <1>1, <2>1 DEF PurgeData, Removes
  <2> QED
    BY <1>1, <2>2 DEF Removes, Skips, SeenOK, Writes
<1>2. PurgeInv /\ [Next]_vars => [Known]_vars
  BY <1>1
<1> QED
  BY <1>2, PurgeInvHolds, PTL DEF Spec, KnownRunsAreDown, Known

\* A delete that lost its row takes neither the credential nor the tree of the row that has
\* the name now.
THEOREM NextRowIsKept == Spec => LiveRowKeepsItsOwn
<1> DEFINE Keeps == row.id # 0 /\ row'.id = row.id =>
                      /\ cred = row.id => cred' = cred
                      /\ kind = "service" /\ tree # NoTree => tree' # NoTree
<1>1. PurgeInv /\ [Next]_vars => [Keeps]_vars
  <2> SUFFICES ASSUME PurgeInv, Next PROVE Keeps
    OBVIOUS
  <2>1. row.id # 0 /\ cred = row.id => cred' = cred
    BY CredentialsGo DEF Made
  <2>2. row.id # 0 /\ kind = "service" /\ tree # NoTree => tree' # NoTree
    BY ServiceTreesGo
  <2> QED
    BY <2>1, <2>2
<1> QED
  BY <1>1, PurgeInvHolds, PTL DEF Spec, LiveRowKeepsItsOwn, Keeps
=============================================================================
