--------------------------- MODULE RequestLifecycle ---------------------------
(***************************************************************************)
(* What the verification API promises about requests, abstractly, when     *)
(* approvals may overlap: a request is created pending, and every decision *)
(* was begun while it was pending.  Nobody can begin to decide a request   *)
(* that is decided, and a decided request is never pending again; but of   *)
(* the approvals begun in time the last one to end decides.                *)
(***************************************************************************)
EXTENDS Naturals

CONSTANT RequestIds

VARIABLES
  status,   \* of each request
  begun     \* approvals of each request that were begun and have not ended

lifecycleVars == <<status, begun>>

Init ==
  /\ status = [r \in RequestIds |-> "absent"]
  /\ begun = [r \in RequestIds |-> 0]

Create(r) ==
  /\ status[r] = "absent"
  /\ status' = [status EXCEPT ![r] = "pending"]
  /\ UNCHANGED begun

Begin(r) ==
  /\ status[r] = "pending"
  /\ begun' = [begun EXCEPT ![r] = @ + 1]
  /\ UNCHANGED status

(* An approval begun in time decides; others may have decided before it. *)
End(r, verdict) ==
  /\ begun[r] > 0
  /\ begun' = [begun EXCEPT ![r] = @ - 1]
  /\ status' = [status EXCEPT ![r] = verdict]

DecideAtOnce(r, verdict) ==
  /\ status[r] = "pending"
  /\ status' = [status EXCEPT ![r] = verdict]
  /\ UNCHANGED begun

(* The process restarts. *)
Forget == status' = [r \in RequestIds |-> "absent"] /\ begun' = [r \in RequestIds |-> 0]

Next ==
  \/ \E r \in RequestIds :
       \/ Create(r)
       \/ Begin(r)
       \/ \E verdict \in {"granted", "denied"} : End(r, verdict) \/ DecideAtOnce(r, verdict)
  \/ Forget

Spec == Init /\ [][Next]_lifecycleVars
=============================================================================
