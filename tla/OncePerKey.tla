---------------------------- MODULE OncePerKey -----------------------------
(***************************************************************************)
(* What an Idempotency-Key promises its caller, whatever the daemon does   *)
(* about it: among the requests that carry one key, at most one takes      *)
(* effect without reporting failure until the key is forgotten, and what   *)
(* the others are told is what that one answered.  Idempotency implements  *)
(* it for the executions that hold a claim.                                *)
(***************************************************************************)
CONSTANTS Requests, None

VARIABLES
  holder,   \* the request that the key stands for, or None
  verdict,  \* what became of it: "free" (no holder), "held", "kept", "unknown"
  acted,    \* requests that changed something since the key was last forgotten
  failed,   \* requests that reported a failure since then
  told      \* whose answer a request was given instead of being run

avars == <<holder, verdict, acted, failed, told>>

Init ==
  /\ holder = None /\ verdict = "free"
  /\ acted = {} /\ failed = {}
  /\ told = [r \in Requests |-> None]

\* The key is free and r runs under it.
Take(r) ==
  /\ verdict = "free"
  /\ holder' = r /\ verdict' = "held"
  /\ UNCHANGED <<acted, failed, told>>

\* Something r started lands: while it runs, or after nobody waits for it any more.
Act(r) ==
  /\ holder = r /\ verdict \in {"held", "unknown"}
  /\ acted' = acted \cup {r}
  /\ UNCHANGED <<holder, verdict, failed, told>>

Keep(r) ==
  /\ holder = r /\ verdict = "held" /\ verdict' = "kept"
  /\ UNCHANGED <<holder, acted, failed, told>>

Doubt(r) ==
  /\ holder = r /\ verdict = "held" /\ verdict' = "unknown"
  /\ UNCHANGED <<holder, acted, failed, told>>

\* r reports a failure, or was given up before anything of it landed.
GiveBack(r) ==
  /\ holder = r /\ verdict = "held"
  /\ holder' = None /\ verdict' = "free"
  /\ failed' \in {failed, failed \cup {r}}
  /\ r \in acted => r \in failed'
  /\ UNCHANGED <<acted, told>>

Tell(r) ==
  /\ verdict = "kept" /\ r # holder
  /\ told' = [told EXCEPT ![r] = holder]
  /\ UNCHANGED <<holder, verdict, acted, failed>>

\* The time to live is over.
Forget ==
  /\ holder' = None /\ verdict' = "free"
  /\ acted' = {} /\ failed' = {}
  /\ told' = [r \in Requests |-> None]

Next ==
  \/ \E r \in Requests : Take(r) \/ Act(r) \/ Keep(r) \/ Doubt(r) \/ GiveBack(r) \/ Tell(r)
  \/ Forget

Spec == Init /\ [][Next]_avars
=============================================================================
