------------------------- MODULE MCMirrorCollector -------------------------
(* Small instances of MirrorCollector for TLC.                             *)
EXTENDS MirrorCollector, TLC

CONSTANTS t, a, b, r1, r2, p1, p2

(* Two nodes: the target and one that can hold the origin.                 *)
TwoNodes == {t, a}

(* The origin can move between two nodes other than the target.            *)
ThreeNodes == {t, a, b}

-----------------------------------------------------------------------------
(* One receiver, up to two pods and three nodes, in three situations: the  *)
(* receiver and a pod claim a mirror from one node; the receiver claims    *)
(* one from either of two nodes, of which b may leave; or a pod hands its  *)
(* mirror over to another.  Who takes no part has been there before.       *)
With(rs, ps, ns) ==
  /\ receivers = [r \in Receiver |-> IF r \in rs THEN "new" ELSE "gone"]
  /\ pods = [p \in Pod |-> IF p \in ps THEN "new" ELSE "gone"]
  /\ nodes = ns
  /\ \E n \in ns : /\ located = {n}
                  /\ lease = [k \in Node |-> IF k = n THEN LeaseWindow ELSE 0]

Unused ==
  /\ mirror = NoMirror /\ cache = NoMirror /\ cacheLag = "current"
  /\ seenReceivers = receivers /\ seenPods = pods
  /\ unresolved = 0 /\ reading = {} /\ readFor = [p \in Pod |-> 0]
  /\ sweep = SweepDue /\ queued = FALSE /\ timer = 0 /\ pass = IdlePass

SafetyInit ==
  /\ \/ With({r1}, {p1}, {t, a}) /\ moves = 0 /\ claims = 0
     \/ With({r1}, {}, {t, a, b}) /\ moves = 0 /\ claims = 0
     \/ With({}, {p1, p2}, {t, a}) /\ moves = MaxMoves /\ claims = 1
  /\ touches = 0 /\ Unused

SafetySpec == SafetyInit /\ [][Next]_vars

=============================================================================
