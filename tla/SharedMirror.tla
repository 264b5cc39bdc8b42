---------------------------- MODULE SharedMirror ----------------------------
(***************************************************************************)
(* What receivers that share an MxlFlowMirror are promised, without the    *)
(* reconciler, its cache and its retries: a receiver is recorded as an     *)
(* owner only while it exists, each record is dropped one receiver at a    *)
(* time or because its receiver is gone, and the mirror is retired only    *)
(* when no receiver that exists owns it.                                   *)
(***************************************************************************)
CONSTANT Receiver

VARIABLES
  state,     \* the mirror: "absent", "present" or "deleting"
  owners,    \* the receivers its owner references name
  alive      \* the receivers that exist, being deleted included

vars == <<state, owners, alive>>

Init ==
  /\ state = "absent"
  /\ owners = {}
  /\ alive = {}

(* A mirror comes with its first owner, or with none when a pod asked.     *)
Create ==
  /\ state = "absent"
  /\ state' = "present"
  /\ \/ owners' = {}
     \/ \E r \in alive : owners' = {r}
  /\ UNCHANGED alive

Adopt(r) ==
  /\ state # "absent"
  /\ r \in alive
  /\ owners' = owners \cup {r}
  /\ UNCHANGED <<state, alive>>

Release(r) ==
  /\ state # "absent"
  /\ owners' = owners \ {r}
  /\ UNCHANGED <<state, alive>>

(* The references to receivers that are gone are dropped beside others.    *)
DropDangling ==
  /\ owners \cap alive # {}
  /\ owners' = owners \cap alive
  /\ UNCHANGED <<state, alive>>

Retire ==
  /\ state = "present"
  /\ owners \cap alive = {}
  /\ state' = "deleting"
  /\ UNCHANGED <<owners, alive>>

Vanish ==
  /\ state = "deleting"
  /\ state' = "absent"
  /\ owners' = {}
  /\ UNCHANGED alive

Appear(r) ==
  /\ alive' = alive \cup {r}
  /\ r \notin owners
  /\ UNCHANGED <<state, owners>>

Disappear(r) ==
  /\ alive' = alive \ {r}
  /\ UNCHANGED <<state, owners>>

Next ==
  \/ Create
  \/ DropDangling
  \/ Retire
  \/ Vanish
  \/ \E r \in Receiver : Adopt(r) \/ Release(r) \/ Appear(r) \/ Disappear(r)

Spec == Init /\ [][Next]_vars

=============================================================================
