------------------------- MODULE SecretScope_proofs -------------------------
(***************************************************************************)
(* What TLAPS proves of SecretScope, for any number of tokens, of requests *)
(* at a time and of requests in all: its invariants and PurgeTakesItsOwn.  *)
(***************************************************************************)
EXTENDS SecretScope, TLAPS

---------------------------------------------------------------------------
(* The inductive invariant: what a section has established when it acts.   *)

\* The values of w may be where those of the owner o are read.
MayLie(w, o) == o = Admin \/ w \in {o, Admin}

\* A row has an owner and a number.
RowIsOwned == HasRow => row.own \in Principals /\ row.id # 0

\* What a claim reserves is the claimant's, so that the claimant may deploy it.
ClaimCovers == claim # Nobody => \A w \in file : MayLie(w, claim)

\* A writer that was admitted writes where a row or a claim admits it still.
WriterIsAdmitted(r) ==
  req[r].pc = "write" =>
    /\ HasRow \/ claim # Nobody
    /\ HasRow => MayLie(req[r].who, row.own)
    /\ claim # Nobody => MayLie(req[r].who, claim)

\* A submitter mints for a name without a file, and the claim is given back
\* when the file is gone.
NothingLies(r) ==
  req[r].pc \in {"release", "unclaim"} \/ (req[r].pc = "mint" /\ req[r].who # Admin)
    => file = {}

\* A purge that has begun finds nobody else's values.
PurgerOwns(r) == req[r].pc = "purge" => \A w \in file : MayLie(w, req[r].own)

Sections ==
  \A r \in Requests :
    /\ req[r].pc = "commit" => req[r].id # 0
    /\ WriterIsAdmitted(r) /\ NothingLies(r) /\ PurgerOwns(r)

IInv == TypeOK /\ RowIsOwned /\ ValuesAreTheOwners /\ FileIsReserved /\ ClaimCovers /\ Sections

USE ScopeAssumption DEF Principals, Held, NoRow, HasRow

LEMMA InitInv == Init => IInv
  BY DEF Init, Idle, IInv, TypeOK, Places, RowIsOwned, ValuesAreTheOwners, FileIsReserved,
    ClaimCovers, Sections, WriterIsAdmitted, NothingLies, PurgerOwns

---------------------------------------------------------------------------
(* Type correctness: what lies under the name, and what the requests are.  *)

NameOK ==
  /\ row \in [own : Held, id : 0..MaxWork]
  /\ claim \in Held /\ project \in Held
  /\ file \subseteq Principals
  /\ work \in 0..MaxWork
  /\ HasRow => claim = Nobody

RequestRecord == [pc : Places, who : Held, id : 0..MaxWork, own : Held, reclaimed : BOOLEAN]
\* Where a request holds the lock.
Inside == Places \ {"idle", "commit", "tail"}

LockOK ==
  /\ req \in [Requests -> RequestRecord]
  /\ \A r \in Requests : req[r].pc # "idle" => req[r].who \in Principals
  /\ wlock \in Requests \cup {Nobody}
  /\ \A r \in Requests : (wlock = r) <=> req[r].pc \in Inside

LEMMA TypeParts == (TypeOK <=> NameOK /\ LockOK) /\ (TypeOK' <=> NameOK' /\ LockOK')
  BY DEF TypeOK, NameOK, LockOK, RequestRecord, Inside

LEMMA IdleType == Idle \in RequestRecord /\ Idle.pc = "idle" /\ "idle" \notin Inside
  BY DEF Idle, RequestRecord, Places, Inside

\* A request in its section goes on in it, ...
LEMMA ToInside ==
  ASSUME LockOK, NEW r \in Requests, NEW p \in Inside, req[r].pc \in Inside, To(r, p),
         wlock' = wlock
  PROVE  LockOK'
<1>1. /\ req' \in [Requests -> RequestRecord] /\ req'[r].pc = p /\ req'[r].who = req[r].who
      /\ \A q \in Requests \ {r} : req'[q] = req[q]
  BY DEF LockOK, To, Inside, RequestRecord
<1> QED
  BY <1>1, IdleType DEF LockOK

LEMMA TailRecord ==
  ASSUME NEW q \in RequestRecord, NEW b \in BOOLEAN
  PROVE  [q EXCEPT !.pc = "tail", !.reclaimed = b] \in RequestRecord
  BY DEF RequestRecord, Places

\* ... or leaves it; ...
LEMMA LeavesType ==
  ASSUME LockOK, NEW r \in Requests, req[r].pc \in Inside, Leaves(r)
  PROVE  LockOK'
<1>1. /\ req' \in [Requests -> RequestRecord] /\ req'[r].pc = "idle"
      /\ \A q \in Requests \ {r} : req'[q] = req[q]
  BY IdleType DEF LockOK, Leaves
<1>2. \A q \in Requests : req'[q].pc \notin Inside
  BY <1>1, IdleType DEF LockOK
<1> QED
  BY <1>1, <1>2 DEF LockOK, Leaves

\* ... another takes the lock when nobody has it, ...
LEMMA EnterType ==
  ASSUME LockOK, NEW r \in Requests, wlock = Nobody, NEW rec \in RequestRecord,
         rec.pc \in Inside, rec.who \in Principals, req' = [req EXCEPT ![r] = rec], wlock' = r
  PROVE  LockOK'
<1>1. /\ req' \in [Requests -> RequestRecord] /\ req'[r] = rec
      /\ \A q \in Requests \ {r} : req'[q] = req[q]
  BY DEF LockOK
<1> QED
  BY <1>1 DEF LockOK

\* ... or does something outside.
LEMMA OutsideType ==
  ASSUME LockOK, NEW r \in Requests, req[r].pc \notin Inside, NEW rec \in RequestRecord,
         rec.pc \notin Inside, rec.pc # "idle" => rec.who \in Principals, req' = [req EXCEPT ![r] = rec], wlock' = wlock
  PROVE  LockOK'
<1>1. /\ req' \in [Requests -> RequestRecord] /\ req'[r] = rec
      /\ \A q \in Requests \ {r} : req'[q] = req[q]
  BY DEF LockOK
<1> QED
  BY <1>1 DEF LockOK

LEMMA NameType ==
  ASSUME TypeOK, NEW t \in Principals,
         (\E stamps \in BOOLEAN : Deploy(t, stamps)) \/ CreateProject(t) \/ DeleteProject(t)
  PROVE  TypeOK'
<1>1. LockOK'
  BY TypeParts DEF LockOK, Deploy, CreateProject, DeleteProject
<1>2. NameOK'
  BY TypeParts DEF NameOK, Deploy, CreateProject, DeleteProject
<1> QED
  BY <1>1, <1>2, TypeParts

LEMMA BeginType ==
  ASSUME TypeOK, NEW r \in Requests, NEW t \in Principals,
         SetSecrets(r, t) \/ DeleteSecrets(r, t) \/ DeleteService(r, t)
  PROVE  TypeOK'
<1>1. NameOK'
  BY TypeParts DEF NameOK, SetSecrets, DeleteSecrets, DeleteService, Enter
<1>2. CASE SetSecrets(r, t)
  <2>1. [Idle EXCEPT !.pc = "row", !.who = t] \in RequestRecord
    BY IdleType DEF RequestRecord, Places
  <2>2. /\ [Idle EXCEPT !.pc = "row", !.who = t].pc \in Inside
        /\ [Idle EXCEPT !.pc = "row", !.who = t].who \in Principals
    BY DEF Idle, Places, Inside
  <2> QED
    BY <1>1, <1>2, <2>1, <2>2, TypeParts, EnterType DEF SetSecrets, Enter
<1>3. CASE DeleteSecrets(r, t)
  <2>1. [Idle EXCEPT !.pc = "judge", !.who = t] \in RequestRecord
    BY IdleType DEF RequestRecord, Places
  <2>2. /\ [Idle EXCEPT !.pc = "judge", !.who = t].pc \in Inside
        /\ [Idle EXCEPT !.pc = "judge", !.who = t].who \in Principals
    BY DEF Idle, Places, Inside
  <2> QED
    BY <1>1, <1>3, <2>1, <2>2, TypeParts, EnterType DEF DeleteSecrets, Enter
<1>4. CASE DeleteService(r, t)
  <2> DEFINE rec == [Idle EXCEPT !.pc = "commit", !.who = t, !.id = row.id, !.own = row.own]
  <2>1. rec \in RequestRecord
    BY TypeParts DEF Idle, RequestRecord, Places, NameOK
  <2>2. rec.pc \notin Inside /\ rec.who \in Principals /\ req[r].pc \notin Inside
    BY <1>4 DEF Idle, Places, Inside, DeleteService
  <2>3. req' = [req EXCEPT ![r] = rec] /\ wlock' = wlock
    BY <1>4 DEF DeleteService
  <2> HIDE DEF rec
  <2>4. LockOK'
    BY <2>1, <2>2, <2>3, TypeParts, OutsideType
  <2> QED
    BY <1>1, <2>4, TypeParts
<1> QED
  BY <1>2, <1>3, <1>4

LEMMA StepType ==
  ASSUME TypeOK, NEW r \in Requests, Step(r)
  PROVE  TypeOK'
<1>1. CASE \E t \in Principals : SetSecrets(r, t) \/ DeleteSecrets(r, t) \/ DeleteService(r, t)
  BY <1>1, BeginType
<1>2. CASE JudgeRow(r)
  <2>1. NameOK'
    BY <1>2, TypeParts DEF NameOK, LockOK, RequestRecord, JudgeRow
  <2>2. /\ req[r].pc \in Inside
        /\ Leaves(r) \/ (\E p \in Inside : To(r, p) /\ wlock' = wlock)
    BY <1>2 DEF JudgeRow, Inside, Places
  <2> QED
    BY <2>1, <2>2, TypeParts, LeavesType, ToInside
<1>3. CASE JudgeClaim(r)
  <2>1. NameOK'
    BY <1>3, TypeParts DEF NameOK, LockOK, RequestRecord, JudgeClaim
  <2>2. /\ req[r].pc \in Inside
        /\ Leaves(r) \/ (\E p \in Inside : To(r, p) /\ wlock' = wlock)
    BY <1>3 DEF JudgeClaim, Inside, Places
  <2> QED
    BY <2>1, <2>2, TypeParts, LeavesType, ToInside
<1>4. CASE JudgeFile(r)
  <2>1. NameOK'
    BY <1>4, TypeParts DEF NameOK, LockOK, RequestRecord, JudgeFile
  <2>2. /\ req[r].pc \in Inside
        /\ (\E p \in Inside : To(r, p) /\ wlock' = wlock)
    BY <1>4 DEF JudgeFile, Inside, Places
  <2> QED
    BY <2>1, <2>2, TypeParts, ToInside
<1>5. CASE Mint(r)
  <2>1. NameOK'
    BY <1>5, TypeParts DEF NameOK, LockOK, RequestRecord, Mint
  <2>2. /\ req[r].pc \in Inside
        /\ (\E p \in Inside : To(r, p) /\ wlock' = wlock)
    BY <1>5 DEF Mint, Inside, Places
  <2> QED
    BY <2>1, <2>2, TypeParts, ToInside
<1>6. CASE Landed(r)
  <2>1. NameOK'
    BY <1>6, TypeParts DEF NameOK, LockOK, RequestRecord, Landed
  <2>2. /\ req[r].pc \in Inside
        /\ Leaves(r) \/ (\E p \in Inside : To(r, p) /\ wlock' = wlock)
    BY <1>6 DEF Landed, Inside, Places
  <2> QED
    BY <2>1, <2>2, TypeParts, LeavesType, ToInside
<1>7. CASE Write(r)
  <2>1. NameOK'
    BY <1>7, TypeParts DEF NameOK, LockOK, RequestRecord, Write, Leaves
  <2>2. /\ req[r].pc \in Inside
        /\ Leaves(r)
    BY <1>7 DEF Write, Inside, Places
  <2> QED
    BY <2>1, <2>2, TypeParts, LeavesType
<1>8. CASE Judge(r)
  <2>1. NameOK'
    BY <1>8, TypeParts DEF NameOK, LockOK, RequestRecord, Judge
  <2>2. /\ req[r].pc \in Inside
        /\ Leaves(r) \/ (\E p \in Inside : To(r, p) /\ wlock' = wlock)
    BY <1>8 DEF Judge, Inside, Places
  <2> QED
    BY <2>1, <2>2, TypeParts, LeavesType, ToInside
<1>9. CASE Drop(r)
  <2>1. NameOK'
    BY <1>9, TypeParts DEF NameOK, LockOK, RequestRecord, Drop
  <2>2. /\ req[r].pc \in Inside
        /\ (\E p \in Inside : To(r, p) /\ wlock' = wlock)
    BY <1>9 DEF Drop, Inside, Places
  <2> QED
    BY <2>1, <2>2, TypeParts, ToInside
<1>10. CASE ReleaseClaim(r)
  <2>1. NameOK'
    BY <1>10, TypeParts DEF NameOK, LockOK, RequestRecord, ReleaseClaim
  <2>2. /\ req[r].pc \in Inside
        /\ Leaves(r)
    BY <1>10 DEF ReleaseClaim, Inside, Places
  <2> QED
    BY <2>1, <2>2, TypeParts, LeavesType
<1>11. CASE Commit(r)
  <2>1. NameOK'
    BY <1>11, TypeParts DEF NameOK, Commit
  <2> DEFINE there == file # {}
             rec == [req[r] EXCEPT !.pc = "tail", !.reclaimed = there]
  <2>3. there \in BOOLEAN
    OBVIOUS
  <2>4. \/ req' = [req EXCEPT ![r] = Idle]
        \/ req' = [req EXCEPT ![r] = rec]
    BY <1>11, TypeParts DEF LockOK, RequestRecord, Commit
  <2>5. req[r].pc \notin Inside /\ req[r].pc # "idle" /\ wlock' = wlock
    BY <1>11 DEF Commit, Inside
  <2> HIDE DEF there
  <2>6. rec \in RequestRecord
    BY <2>3, TypeParts, TailRecord DEF LockOK
  <2>7. rec.pc \notin Inside /\ rec.who \in Principals
    BY <2>5, TypeParts DEF LockOK, RequestRecord, Inside
  <2> HIDE DEF rec
  <2> QED
    BY <2>1, <2>4, <2>5, <2>6, <2>7, TypeParts, IdleType, OutsideType
<1>12. CASE KeepSecrets(r)
  <2>1. NameOK'
    BY <1>12, TypeParts DEF NameOK, KeepSecrets
  <2>2. req[r].pc \notin Inside
    BY <1>12 DEF KeepSecrets, Inside
  <2> QED
    BY <1>12, <2>1, <2>2, TypeParts, IdleType, OutsideType DEF KeepSecrets
<1>13. CASE Tail(r)
  <2>1. NameOK'
    BY <1>13, TypeParts DEF NameOK, Tail
  <2>2. CASE Retaken(r)
    <3>1. req[r].pc \notin Inside
      BY <1>13 DEF Tail, Inside
    <3> QED
      BY <1>13, <2>1, <2>2, <3>1, TypeParts, IdleType, OutsideType DEF Tail
  <2>3. CASE ~Retaken(r)
    <3>1. /\ [req[r] EXCEPT !.pc = "purge"] \in RequestRecord
          /\ [req[r] EXCEPT !.pc = "purge"].pc \in Inside
          /\ [req[r] EXCEPT !.pc = "purge"].who \in Principals
      BY <1>13, TypeParts DEF Tail, LockOK, RequestRecord, Inside, Places
    <3>2. req' = [req EXCEPT ![r] = [req[r] EXCEPT !.pc = "purge"]] /\ wlock' = r /\ wlock = Nobody
      BY <1>13, <2>3, TypeParts DEF LockOK, RequestRecord, Tail, To
    <3> QED
      BY <2>1, <3>1, <3>2, TypeParts, EnterType
  <2> QED
    BY <2>2, <2>3
<1>14. CASE \E fails \in BOOLEAN : Purge(r, fails)
  <2>1. NameOK'
    BY <1>14, TypeParts DEF NameOK, Purge
  <2>2. /\ req[r].pc \in Inside
        /\ Leaves(r) \/ (\E p \in Inside : To(r, p) /\ wlock' = wlock)
    BY <1>14 DEF Purge, Inside, Places
  <2> QED
    BY <2>1, <2>2, TypeParts, LeavesType, ToInside
<1> QED
  BY <1>1, <1>2, <1>3, <1>4, <1>5, <1>6, <1>7, <1>8, <1>9, <1>10, <1>11, <1>12, <1>13, <1>14 DEF Step

LEMMA TypeNext == ASSUME TypeOK, [Next]_vars PROVE TypeOK'
<1>1. CASE UNCHANGED vars
  BY <1>1 DEF TypeOK, vars
<1> QED
  BY <1>1, StepType, NameType DEF Next

\* The fields have their kinds, a name with a row has no claim, and the lock is in one hand.
THEOREM TypeCorrect == Spec => []TypeOK
<1>1. Init => TypeOK
  BY InitInv DEF IInv
<1> QED
  BY <1>1, TypeNext, PTL DEF Spec

---------------------------------------------------------------------------
(* The rest of the invariant.                                              *)

SectionOK(r) ==
  /\ req[r].pc = "commit" => req[r].id # 0
  /\ WriterIsAdmitted(r) /\ NothingLies(r) /\ PurgerOwns(r)

Name == RowIsOwned /\ ValuesAreTheOwners /\ FileIsReserved /\ ClaimCovers

LEMMA Parts ==
  /\ IInv <=> TypeOK /\ Name /\ (\A r \in Requests : SectionOK(r))
  /\ IInv' <=> TypeOK' /\ Name' /\ (\A r \in Requests : SectionOK(r)')
  BY DEF IInv, Name, Sections, SectionOK

LEMMA ToEffect ==
  ASSUME LockOK, NEW r \in Requests, NEW p, To(r, p)
  PROVE  /\ req'[r].pc = p /\ req'[r].who = req[r].who
         /\ req'[r].id = req[r].id /\ req'[r].own = req[r].own
         /\ \A q \in Requests \ {r} : req'[q] = req[q]
  BY DEF LockOK, RequestRecord, To

LEMMA LeavesEffect ==
  ASSUME LockOK, NEW r \in Requests, Leaves(r)
  PROVE  req'[r].pc = "idle" /\ \A q \in Requests \ {r} : req'[q] = req[q]
  BY DEF LockOK, Leaves, Idle

\* While a request is in its section, the others claim nothing of the name, so that
\* its step is judged by itself.
LEMMA Alone ==
  ASSUME IInv, NEW r \in Requests, req[r].pc \in Inside, TypeOK', Name',
         \A q \in Requests \ {r} : req'[q] = req[q], SectionOK(r)'
  PROVE  IInv'
<1>1. ASSUME NEW q \in Requests \ {r} PROVE SectionOK(q)'
  <2>1. req[q].pc \notin Inside
    BY TypeParts DEF IInv, LockOK
  <2>2. req'[q].pc \notin {"write", "mint", "release", "unclaim", "purge"}
    BY <2>1 DEF Inside, Places
  <2>3. req'[q].pc = "commit" => req'[q].id # 0
    BY Parts DEF SectionOK
  <2> QED
    BY <2>2, <2>3 DEF SectionOK, WriterIsAdmitted, NothingLies, PurgerOwns
<1> QED
  BY <1>1, Parts

\* One that goes idle has nothing to show for itself.
LEMMA IdleSection ==
  ASSUME NEW r, req'[r].pc = "idle" PROVE SectionOK(r)'
  BY DEF SectionOK, WriterIsAdmitted, NothingLies, PurgerOwns

LEMMA NameStep ==
  ASSUME IInv, NEW t \in Principals,
         (\E stamps \in BOOLEAN : Deploy(t, stamps)) \/ CreateProject(t) \/ DeleteProject(t)
  PROVE  IInv'
<1>1. TypeOK'
  BY NameType DEF IInv
<1>2. CASE \E stamps \in BOOLEAN : Deploy(t, stamps)
  <2>1. /\ ~HasRow /\ row' = [own |-> t, id |-> work + 1] /\ claim' = Nobody
        /\ claim # Nobody => MayActFor(t, claim)
        /\ file' = file /\ req' = req
    BY <1>2 DEF Deploy
  <2>2. HasRow' /\ row'.own = t /\ row'.id # 0
    BY <2>1, TypeParts DEF IInv, NameOK
  <2>3. \A w \in file : MayLie(w, t)
    BY <2>1, Parts DEF Name, FileIsReserved, ClaimCovers, MayLie, MayActFor
  <2>4. Name'
    BY <2>1, <2>2, <2>3 DEF Name, RowIsOwned, ValuesAreTheOwners, FileIsReserved,
      ClaimCovers, MayLie
  <2>5. ASSUME NEW r \in Requests PROVE SectionOK(r)'
    BY <2>1, <2>2, Parts DEF SectionOK, WriterIsAdmitted, NothingLies, PurgerOwns, MayLie,
      MayActFor
  <2> QED
    BY <1>1, <2>4, <2>5, Parts
<1>3. CASE CreateProject(t) \/ DeleteProject(t)
  BY <1>1, <1>3, Parts DEF CreateProject, DeleteProject, Name, RowIsOwned, ValuesAreTheOwners,
    FileIsReserved, ClaimCovers, SectionOK, WriterIsAdmitted, NothingLies, PurgerOwns
<1> QED
  BY <1>2, <1>3

LEMMA BeginStep ==
  ASSUME IInv, NEW r \in Requests, NEW t \in Principals,
         SetSecrets(r, t) \/ DeleteSecrets(r, t) \/ DeleteService(r, t)
  PROVE  IInv'
<1>1. TypeOK'
  BY BeginType DEF IInv
<1>2. /\ row' = row /\ claim' = claim /\ file' = file
      /\ \A q \in Requests \ {r} : req'[q] = req[q]
  BY TypeParts DEF IInv, LockOK, SetSecrets, DeleteSecrets, DeleteService, Enter
<1>3. req'[r].pc \in {"row", "judge"} \/ (req'[r].pc = "commit" /\ req'[r].id # 0)
  <2>1. CASE SetSecrets(r, t)
    <3> DEFINE rec == [Idle EXCEPT !.pc = "row", !.who = t]
    <3>1. rec.pc = "row"
      BY DEF Idle
    <3>2. req' = [req EXCEPT ![r] = rec]
      BY <2>1 DEF SetSecrets, Enter
    <3> HIDE DEF rec
    <3> QED
      BY <3>1, <3>2, TypeParts DEF IInv, LockOK
  <2>3. CASE DeleteSecrets(r, t)
    <3> DEFINE rec == [Idle EXCEPT !.pc = "judge", !.who = t]
    <3>1. rec.pc = "judge"
      BY DEF Idle
    <3>2. req' = [req EXCEPT ![r] = rec]
      BY <2>3 DEF DeleteSecrets, Enter
    <3> HIDE DEF rec
    <3> QED
      BY <3>1, <3>2, TypeParts DEF IInv, LockOK
  <2>2. CASE DeleteService(r, t)
    BY <2>2, TypeParts, Parts DEF IInv, LockOK, DeleteService, Idle, Name, RowIsOwned
  <2> QED
    BY <2>1, <2>2, <2>3
<1>4. Name'
  BY <1>2, Parts DEF Name, RowIsOwned, ValuesAreTheOwners, FileIsReserved, ClaimCovers
<1>5. ASSUME NEW q \in Requests PROVE SectionOK(q)'
  BY <1>2, <1>3, Parts DEF SectionOK, WriterIsAdmitted, NothingLies, PurgerOwns
<1> QED
  BY <1>1, <1>4, <1>5, Parts

LEMMA WriteStep ==
  ASSUME IInv, NEW r \in Requests,
         JudgeRow(r) \/ JudgeClaim(r) \/ JudgeFile(r) \/ Mint(r) \/ Landed(r) \/ Write(r)
  PROVE  IInv'
<1> USE Parts
<1>0. LockOK /\ NameOK /\ TypeOK' /\ Name /\ SectionOK(r)
  BY TypeParts, StepType DEF IInv, Step
<1>1. req[r].pc \in Inside /\ req[r].who \in Principals
  BY <1>0 DEF JudgeRow, JudgeClaim, JudgeFile, Mint, Landed, Write, Inside, Places, LockOK
<1>2. CASE Leaves(r) /\ UNCHANGED <<row, claim, file>>
  <2>1. Name'
    BY <1>0, <1>2 DEF Name, RowIsOwned, ValuesAreTheOwners, FileIsReserved, ClaimCovers
  <2> QED
    BY <1>0, <1>1, <1>2, <2>1, LeavesEffect, IdleSection, Alone
<1>3. CASE UNCHANGED <<row, claim, file>> /\ \E p \in {"claim", "exists", "landed"} : To(r, p)
  <2>1. Name'
    BY <1>0, <1>3 DEF Name, RowIsOwned, ValuesAreTheOwners, FileIsReserved, ClaimCovers
  <2>2. PICK p \in {"claim", "exists", "landed"} : To(r, p)
    BY <1>3
  <2>3. SectionOK(r)'
    BY <1>0, <2>2, ToEffect DEF SectionOK, WriterIsAdmitted, NothingLies, PurgerOwns
  <2> QED
    BY <1>0, <1>1, <2>1, <2>2, <2>3, ToEffect, Alone
<1>4. CASE /\ UNCHANGED <<row, claim, file>> /\ To(r, "write")
           /\ HasRow \/ claim # Nobody
           /\ HasRow => MayLie(req[r].who, row.own)
           /\ claim # Nobody => MayLie(req[r].who, claim)
  <2>1. Name'
    BY <1>0, <1>4 DEF Name, RowIsOwned, ValuesAreTheOwners, FileIsReserved, ClaimCovers
  <2>2. SectionOK(r)'
    BY <1>0, <1>4, ToEffect DEF SectionOK, WriterIsAdmitted, NothingLies, PurgerOwns
  <2> QED
    BY <1>0, <1>1, <1>4, <2>1, <2>2, ToEffect, Alone
<1>5. CASE JudgeRow(r)
  BY <1>0, <1>2, <1>3, <1>4, <1>5 DEF JudgeRow, NameOK, MayActFor, MayLie
<1>6. CASE JudgeClaim(r)
  BY <1>0, <1>2, <1>3, <1>4, <1>6 DEF JudgeClaim, NameOK, MayActFor, MayLie
<1>7. CASE JudgeFile(r)
  <2>1. CASE To(r, "mint")
    <3>1. req[r].who # Admin => file = {}
      BY <1>0, <1>7, <2>1, ToEffect DEF JudgeFile
    <3>2. SectionOK(r)' /\ Name'
      BY <1>0, <1>7, <2>1, <3>1, ToEffect DEF JudgeFile, SectionOK, WriterIsAdmitted,
        NothingLies, PurgerOwns, Name, RowIsOwned, ValuesAreTheOwners, FileIsReserved,
        ClaimCovers
    <3> QED
      BY <1>0, <1>1, <2>1, <3>2, ToEffect, Alone
  <2> QED
    BY <1>3, <1>7, <2>1 DEF JudgeFile
<1>8. CASE Mint(r)
  <2> DEFINE won == claim = Nobody /\ ~HasRow /\ ~Foreign(req[r].who)
  <2>1. CASE ~won
    <3>1. CASE req[r].who = Admin
      <4>1. HasRow \/ claim # Nobody
        BY <2>1, <3>1 DEF Foreign
      <4>2. UNCHANGED claim /\ To(r, "write")
        BY <1>8, <2>1, <3>1 DEF Mint
      <4> QED
        BY <1>4, <1>8, <3>1, <4>1, <4>2 DEF Mint, MayLie
    <3>2. CASE req[r].who # Admin
      BY <1>3, <1>8, <2>1, <3>2 DEF Mint
    <3> QED
      BY <3>1, <3>2
  <2>2. CASE won
    <3> /\ claim = Nobody /\ ~HasRow /\ claim' = req[r].who /\ To(r, "write")
      BY <1>8, <2>2 DEF Mint
    <3>1. \A w \in file : MayLie(w, req[r].who)
      BY <1>0, <1>8, <2>2 DEF Mint, SectionOK, NothingLies, MayLie
    <3>2. Name'
      BY <1>0, <1>1, <1>8, <2>2, <3>1 DEF Mint, Name, RowIsOwned, ValuesAreTheOwners,
        FileIsReserved, ClaimCovers
    <3>3. SectionOK(r)'
      BY <1>0, <1>1, <1>8, <2>2, ToEffect DEF Mint, SectionOK, WriterIsAdmitted, NothingLies,
        PurgerOwns, MayLie
    <3> QED
      BY <1>0, <1>1, <2>2, <3>2, <3>3, ToEffect, Alone
  <2> QED
    BY <2>1, <2>2
<1>9. CASE Landed(r)
  <2>1. CASE row.own = req[r].who
    BY <1>0, <1>1, <1>4, <1>9, <2>1 DEF Landed, NameOK, MayLie
  <2>2. CASE ~HasRow /\ claim = req[r].who
    BY <1>0, <1>1, <1>2, <1>4, <1>9, <2>2 DEF Landed, MayLie
  <2> QED
    BY <1>2, <1>9, <2>1, <2>2 DEF Landed
<1>10. CASE Write(r)
  <2>1. Name'
    BY <1>0, <1>1, <1>10 DEF Write, SectionOK, WriterIsAdmitted, Name, RowIsOwned,
      ValuesAreTheOwners, FileIsReserved, ClaimCovers, MayLie
  <2> QED
    BY <1>0, <1>1, <1>10, <2>1, LeavesEffect, IdleSection, Alone DEF Write
<1> QED
  BY <1>5, <1>6, <1>7, <1>8, <1>9, <1>10

LEMMA DropStep ==
  ASSUME IInv, NEW r \in Requests, Judge(r) \/ Drop(r) \/ ReleaseClaim(r)
  PROVE  IInv'
<1> USE Parts
<1>0. LockOK /\ NameOK /\ TypeOK' /\ Name /\ SectionOK(r)
  BY TypeParts, StepType DEF IInv, Step
<1>1. req[r].pc \in Inside
  BY DEF Judge, Drop, ReleaseClaim, Inside, Places
<1>2. CASE Judge(r)
  <2>1. Name'
    BY <1>0, <1>2 DEF Judge, Name, RowIsOwned, ValuesAreTheOwners, FileIsReserved, ClaimCovers
  <2>2. CASE To(r, "drop")
    <3>1. SectionOK(r)'
      BY <1>0, <2>2, ToEffect DEF SectionOK, WriterIsAdmitted, NothingLies, PurgerOwns
    <3> QED
      BY <1>0, <1>1, <2>1, <2>2, <3>1, ToEffect, Alone
  <2>3. CASE Leaves(r)
    BY <1>0, <1>1, <2>1, <2>3, LeavesEffect, IdleSection, Alone
  <2> QED
    BY <1>2, <2>2, <2>3 DEF Judge
<1>3. CASE Drop(r)
  <2>1. Name' /\ SectionOK(r)'
    BY <1>0, <1>3, ToEffect DEF Drop, Name, RowIsOwned, ValuesAreTheOwners, FileIsReserved,
      ClaimCovers, SectionOK, WriterIsAdmitted, NothingLies, PurgerOwns
  <2> QED
    BY <1>0, <1>1, <1>3, <2>1, ToEffect, Alone DEF Drop
<1>4. CASE ReleaseClaim(r)
  <2>1. Name'
    BY <1>0, <1>4 DEF ReleaseClaim, SectionOK, NothingLies, Name, RowIsOwned,
      ValuesAreTheOwners, FileIsReserved, ClaimCovers
  <2> QED
    BY <1>0, <1>1, <1>4, <2>1, LeavesEffect, IdleSection, Alone DEF ReleaseClaim
<1> QED
  BY <1>2, <1>3, <1>4

LEMMA PurgeStep ==
  ASSUME IInv, NEW r \in Requests,
         \/ Commit(r) \/ KeepSecrets(r) \/ Tail(r)
         \/ \E fails \in BOOLEAN : Purge(r, fails)
  PROVE  IInv'
<1> USE Parts
<1>0. LockOK /\ NameOK /\ TypeOK' /\ Name /\ \A q \in Requests : SectionOK(q)
  BY TypeParts, StepType DEF IInv, Step
<1>1. CASE wlock = Nobody /\ file' = file
           /\ req'[r].pc \in {"idle", "tail"} /\ Name'
           /\ \A q \in Requests \ {r} : req'[q] = req[q]
  <2>1. ASSUME NEW q \in Requests \ {r} PROVE SectionOK(q)'
    <3>1. req[q].pc \notin {"write", "mint", "release", "unclaim", "purge"}
      BY <1>0, <1>1 DEF LockOK, Inside, Places
    <3> QED
      BY <1>0, <1>1, <3>1 DEF SectionOK, WriterIsAdmitted, NothingLies, PurgerOwns
  <2>2. SectionOK(r)'
    BY <1>1 DEF SectionOK, WriterIsAdmitted, NothingLies, PurgerOwns
  <2> QED
    BY <1>0, <1>1, <2>1, <2>2
<1>2. CASE Commit(r)
  <2>1. /\ req'[r].pc \in {"idle", "tail"}
        /\ \A q \in Requests \ {r} : req'[q] = req[q]
    BY <1>0, <1>2 DEF Commit, LockOK, RequestRecord, Idle
  <2>2. Name'
    <3>1. CASE row.id # req[r].id
      BY <1>0, <1>2, <3>1 DEF Commit, Name, RowIsOwned, ValuesAreTheOwners, FileIsReserved,
        ClaimCovers
    <3>2. CASE row.id = req[r].id
      <4>1. HasRow
        BY <1>0, <1>2, <3>2 DEF Commit, SectionOK
      <4>2. row' = NoRow /\ file' = file /\ claim' = IF file # {} THEN row.own ELSE claim
        BY <1>2, <3>2 DEF Commit
      <4>3. claim = Nobody /\ row.own # Nobody
        BY <1>0, <4>1 DEF NameOK, Name, RowIsOwned
      <4>4. ~HasRow'
        BY <4>2
      <4>5. FileIsReserved' /\ RowIsOwned' /\ ValuesAreTheOwners'
        BY <4>2, <4>3, <4>4 DEF FileIsReserved, RowIsOwned, ValuesAreTheOwners
      <4>6. ClaimCovers'
        BY <1>0, <4>1, <4>2, <4>3 DEF Name, ValuesAreTheOwners, ClaimCovers, MayLie
      <4> QED
        BY <4>5, <4>6 DEF Name
    <3> QED
      BY <3>1, <3>2
  <2> QED
    BY <1>1, <1>2, <2>1, <2>2 DEF Commit
<1>3. CASE KeepSecrets(r) \/ (Tail(r) /\ Retaken(r))
  <2>1. /\ req' = [req EXCEPT ![r] = Idle] /\ UNCHANGED <<row, claim, file, wlock>>
    BY <1>3 DEF KeepSecrets, Tail
  <2>2. req'[r].pc = "idle" /\ \A q \in Requests \ {r} : req'[q] = req[q]
    BY <1>0, <2>1, IdleType DEF LockOK
  <2>3. Name'
    BY <1>0, <2>1 DEF Name, RowIsOwned, ValuesAreTheOwners, FileIsReserved, ClaimCovers
  <2>4. ASSUME NEW q \in Requests PROVE SectionOK(q)'
    BY <1>0, <2>1, <2>2 DEF SectionOK, WriterIsAdmitted, NothingLies, PurgerOwns
  <2> QED
    BY <1>0, <2>3, <2>4
<1>4. CASE Tail(r) /\ ~Retaken(r)
  <2>1. wlock = Nobody /\ UNCHANGED <<row, claim, file>> /\ To(r, "purge")
    BY <1>4 DEF Tail
  <2>2. ~HasRow /\ claim \in {req[r].own, Nobody}
    BY <1>4 DEF Retaken
  <2>3. \A w \in file : MayLie(w, req[r].own)
    BY <1>0, <2>2 DEF Name, FileIsReserved, ClaimCovers
  <2>4. Name'
    BY <1>0, <2>1 DEF Name, RowIsOwned, ValuesAreTheOwners, FileIsReserved, ClaimCovers
  <2>5. SectionOK(r)'
    BY <1>0, <2>1, <2>3, ToEffect DEF SectionOK, WriterIsAdmitted, NothingLies, PurgerOwns
  <2>6. ASSUME NEW q \in Requests \ {r} PROVE SectionOK(q)'
    BY <1>0, <2>1, ToEffect DEF SectionOK, WriterIsAdmitted, NothingLies, PurgerOwns
  <2> QED
    BY <1>0, <2>4, <2>5, <2>6
<1>5. CASE \E fails \in BOOLEAN : Purge(r, fails)
  <2>1. req[r].pc \in Inside
    BY <1>5 DEF Purge, Inside, Places
  <2>2. Name'
    BY <1>0, <1>5 DEF Purge, Name, RowIsOwned, ValuesAreTheOwners, FileIsReserved, ClaimCovers
  <2>3. CASE Leaves(r)
    BY <1>0, <2>1, <2>2, <2>3, LeavesEffect, IdleSection, Alone
  <2>4. CASE To(r, "unclaim") /\ file' = {}
    <3>1. SectionOK(r)'
      BY <1>0, <2>4, ToEffect DEF SectionOK, WriterIsAdmitted, NothingLies, PurgerOwns
    <3> QED
      BY <1>0, <2>1, <2>2, <2>4, <3>1, ToEffect, Alone
  <2> QED
    BY <1>5, <2>3, <2>4 DEF Purge
<1> QED
  BY <1>2, <1>3, <1>4, <1>5

LEMMA NextInv == ASSUME IInv, [Next]_vars PROVE IInv'
<1>1. CASE UNCHANGED vars
  BY <1>1 DEF vars, IInv, TypeOK, RowIsOwned, ValuesAreTheOwners, FileIsReserved,
    ClaimCovers, Sections, WriterIsAdmitted, NothingLies, PurgerOwns
<1>2. CASE \E r \in Requests : Step(r)
  BY <1>2, BeginStep, WriteStep, DropStep, PurgeStep DEF Step
<1> QED
  BY <1>1, <1>2, NameStep DEF Next

LEMMA Invariant == Spec => []IInv
  BY InitInv, NextInv, PTL DEF Spec

---------------------------------------------------------------------------
(* The properties.                                                         *)

\* Whoever deploys a name is launched with nobody's values but its own and the admin's.
THEOREM ValuesAreKept == Spec => []ValuesAreTheOwners
  BY Invariant, PTL DEF IInv

\* A file has a row or a claim to its name in every state.
THEOREM FilesAreReserved == Spec => []FileIsReserved
  BY Invariant, PTL DEF IInv

\* What the tail of a delete removes was written for its own row or by the admin.
THEOREM PurgesAreRightful == Spec => PurgeTakesItsOwn
<1>1. ASSUME IInv, [Next]_vars
      PROVE  [\A r \in Requests :
                req[r].pc = "purge" /\ file' # file /\ req[r].own # Admin
                  => file \subseteq {req[r].own, Admin}]_vars
  BY <1>1, Parts DEF SectionOK, PurgerOwns, MayLie
<1> QED
  BY <1>1, Invariant, PTL DEF Spec, PurgeTakesItsOwn
=============================================================================
