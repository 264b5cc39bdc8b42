------------------------ MODULE MCReceiverOwnership ------------------------
(* Instances of ReceiverOwnership for TLC.                                 *)
EXTENDS ReceiverOwnership, TLC

CONSTANTS r1, r2, s1, s2, t

(* Both receivers use the same mirror in the same way.                     *)
ReceiverSymmetry == Permutations({r1, r2})

-----------------------------------------------------------------------------
(* One receiver at a time, for what should happen in the end: one whose    *)
(* mirror is in another namespace, or one that owns its mirror beside an   *)
(* on-demand reader.  The other one has been deleted before, and the       *)
(* gateways' status writes are those to the mirror of the former.          *)
Ended == [NewRecv EXCEPT !.life = "gone"]

OneAtATime ==
  \E r \in Receiver :
    /\ recv = [q \in Receiver |-> IF q = r THEN NewRecv ELSE Ended]
    /\ reader = IF r \in Remote THEN "gone" ELSE "new"
    /\ consumer \in {[q \in Receiver |-> q = r], [q \in Receiver |-> FALSE]}
    /\ origin \in Source \cup {Nil, Target}
    /\ touches = IF r \in Remote THEN 0 ELSE MaxTouches

LiveInit ==
  /\ OneAtATime
  /\ mirror = [k \in Name |-> NoMirror] /\ cache = mirror
  /\ cached = [k \in Name |-> TRUE]
  /\ seen = recv /\ current = [r \in Receiver |-> TRUE]
  /\ queued = {} /\ pass = [r \in Receiver |-> IdlePass]
  /\ moves = 0

LiveSpec == LiveInit /\ [][Next]_vars /\ Fairness

-----------------------------------------------------------------------------
(* The fairness action by action, where one receiver keeps that cheap.     *)
ActionsFair ==
  /\ \A r \in Receiver : SF_vars(Reconcile(r)) /\ WF_vars(ReceiverEvent(r))
  /\ \A k \in Name : /\ WF_vars(MirrorEvent(k))
                     /\ WF_vars(FinalizersDropped(k))
                     /\ WF_vars(CollectUnclaimed(k))
  /\ WF_vars(CollectDependents)

LocalSpec == Spec /\ ActionsFair

=============================================================================
