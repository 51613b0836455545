--------------------------- MODULE CapsuleLifecycle ---------------------------
(***************************************************************************)
(* What the Evidence Service promises of one capsule: the path every       *)
(* reader of the platform is told to expect (README, "Capsule Lifecycle"), *)
(* restricted to the statuses some service writes.  A capsule only moves   *)
(* forward, a validator's decision is final, and only an approved capsule  *)
(* is anchored.  EvidenceCapsule is shown to implement this.               *)
(***************************************************************************)
CONSTANT Capsules

VARIABLE status

Move(c, from, to) ==
    /\ status[c] = from
    /\ status' = [status EXCEPT ![c] = to]

Submit(c)  == Move(c, "ABSENT", "UPLOADED")
Route(c)   == Move(c, "UPLOADED", "PENDING_VALIDATION")
Approve(c) == Move(c, "PENDING_VALIDATION", "APPROVED")
Reject(c)  == Move(c, "PENDING_VALIDATION", "REJECTED")
Anchor(c)  == Move(c, "APPROVED", "ANCHORED")

Init == status = [c \in Capsules |-> "ABSENT"]

Next == \E c \in Capsules :
    Submit(c) \/ Route(c) \/ Approve(c) \/ Reject(c) \/ Anchor(c)

Spec == Init /\ [][Next]_status

==============================================================================
