------------------------ MODULE FlowLifecycleProofs ------------------------
(***************************************************************************)
(* Proofs about the MxlFlow reconciler and the Lease collector for any set *)
(* of nodes, any Lease window, any grace period and any number of retries. *)
(***************************************************************************)
EXTENDS FlowLifecycle, TLAPS

-----------------------------------------------------------------------------
(* The inductive invariant.                                                *)

(* A copy that carries the stored version is the stored object: the        *)
(* versions the informers track are what the writes' preconditions compare. *)
Coherent ==
  /\ "cache" \in flowCopies => seen.flow = flow
  /\ \A n \in Node : "cache" \in leaseCopies[n] => seen.lease[n] = lease[n]

(* A Lease inside its window is held, and while the collector's copy is    *)
(* the stored version its window is over, as it was when it was read.      *)
CollectorInv ==
  /\ \A n \in Node : lease[n].left > 0 => lease[n].held
  /\ gc.pc # "idle" =>
       /\ gc.node \in Node
       /\ "gc" \in leaseCopies[gc.node] => lease[gc.node].left = 0

(* The Live condition's clock is how long it has read False, and while the *)
(* pass that decided to delete holds the stored version it has run out.    *)
GraceInv ==
  /\ flow.live = "NoLiveCopy" => shown = flow.age
  /\ pass.pc = "delete" /\ "pass" \in flowCopies
       => flow.live = "NoLiveCopy" /\ flow.age = Grace

Inv == TypeOK /\ Coherent /\ CollectorInv /\ GraceInv

-----------------------------------------------------------------------------
(* What the operators return.                                              *)

LEMMA Constants ==
  /\ Window \in Nat /\ Window > 0
  /\ Grace \in Nat /\ Grace > 0
  /\ Retries \in Nat /\ Retries > 0
  /\ MaxMoves \in Nat
  /\ None \notin Node
BY LifecycleAssumption DEF LifecycleAssumption

(* The records the actions start from have their types.                    *)
LEMMA EmptyTypes ==
  /\ NewFlow \in Flow /\ NoFlow \in Flow
  /\ NoLease \in Lease /\ Renewed \in Lease
  /\ IdlePass \in Pass /\ IdleGc \in Gc
<1>1. NewFlow \in Flow /\ [n \in Node |-> "none"] \in [Node -> Location]
  BY Constants DEF NewFlow, Flow, Location
<1>2. NoFlow \in Flow
  BY <1>1 DEF NoFlow, Flow
<1>3. NoLease \in Lease /\ Renewed \in Lease
  BY Constants DEF NoLease, Renewed, Lease
<1>4. IdlePass \in Pass /\ IdleGc \in Gc
  BY Constants DEF IdlePass, IdleGc, Pass, Gc, Verdict
<1>. QED  BY <1>1, <1>2, <1>3, <1>4

(* Pruning departed locations keeps a map from nodes to locations.         *)
LEMMA KeepPresentType ==
  ASSUME NEW locs \in [Node -> Location], NEW departed
  PROVE  /\ keepPresent(locs, departed) \in [Node -> Location]
         /\ Origins(keepPresent(locs, departed)) \in SUBSET Node
BY DEF keepPresent, Location, Origins

(* What writeStatus makes of a flow is a flow that exists as it did, reads *)
(* what the pass decided, and keeps its clock unless the status turns.     *)
LEMMA JudgedFlow ==
  ASSUME NEW f \in Flow, pass \in Pass, NEW g \in Judged(f)
  PROVE  /\ g \in Flow
         /\ g.exists = f.exists
         /\ g.live = pass.live
         /\ g.live = "NoLiveCopy" =>
              g.age = IF f.live = "NoLiveCopy" THEN f.age ELSE 0
<1>. DEFINE locs == keepPresent(f.locs, pass.departed)
            turned == f.live = "unset" \/ IsLive(f.live) # IsLive(pass.live)
            fresh == IF pass.claimed = {} THEN f.fresh
                     ELSE IF pass.live = "OriginLive" THEN "True" ELSE "False"
            age == IF turned THEN 0 ELSE f.age
<1>1. PICK o \in IF Origins(locs) = {} THEN {None} ELSE Origins(locs) :
        g = [f EXCEPT !.locs = locs, !.live = pass.live, !.by = pass.by,
                      !.age = age, !.fresh = fresh, !.origin = o]
  BY DEF Judged
<1>2. f.locs \in [Node -> Location]
  BY DEF Flow
<1>3. locs \in [Node -> Location] /\ o \in Node \cup {None}
  BY <1>2, KeepPresentType
<1>4. fresh \in {"unset", "True", "False"} /\ age \in 0..Grace
  BY Constants DEF Flow
<1>5. pass.live \in Verdict /\ pass.by \in Node \cup {None}
  BY DEF Pass
<1>6. g = [exists |-> f.exists, locs |-> locs, live |-> pass.live, by |-> pass.by,
           age |-> age, fresh |-> fresh, origin |-> o]
  BY <1>1 DEF Flow
<1>. HIDE DEF locs, fresh, age
<1>7. g \in Flow /\ g.exists = f.exists /\ g.live = pass.live /\ g.age = age
  BY <1>3, <1>4, <1>5, <1>6 DEF Flow
<1>8. pass.live = "NoLiveCopy" =>
        age = IF f.live = "NoLiveCopy" THEN f.age ELSE 0
  BY DEF age, IsLive, Flow, Verdict
<1>. QED  BY <1>7, <1>8

(* Time leaves flows and Leases what they are, only older.                 *)
LEMMA AgedTypes ==
  /\ \A f \in Flow : /\ Older(f) \in Flow
                     /\ Older(f).live = f.live /\ Older(f).exists = f.exists
                     /\ f.live # "unset" =>
                          Older(f).age = IF f.age < Grace THEN f.age + 1 ELSE f.age
  /\ \A l \in [Node -> Lease] :
       /\ Aged(l) \in [Node -> Lease]
       /\ \A n \in Node : /\ Aged(l)[n].held = l[n].held
                          /\ Aged(l)[n].left = Less(l[n].left)
<1>1. ASSUME NEW f \in Flow
      PROVE  /\ Older(f) \in Flow
             /\ Older(f).live = f.live /\ Older(f).exists = f.exists
             /\ f.live # "unset" =>
                  Older(f).age = IF f.age < Grace THEN f.age + 1 ELSE f.age
  <2>. DEFINE age == IF f.live # "unset" /\ f.age < Grace THEN f.age + 1 ELSE f.age
  <2>1. age \in 0..Grace
    BY Constants DEF Flow
  <2>2. Older(f) = [f EXCEPT !.age = age]
    BY DEF Older
  <2>. QED  BY <2>1, <2>2 DEF Flow
<1>2. ASSUME NEW l \in [Node -> Lease]
      PROVE  /\ Aged(l) \in [Node -> Lease]
             /\ \A n \in Node : /\ Aged(l)[n].held = l[n].held
                                /\ Aged(l)[n].left = Less(l[n].left)
  BY Constants DEF Aged, Less, Lease
<1>. QED  BY <1>1, <1>2

(* A requeue keeps the timer within the longer of the two periods.         *)
LEMMA RequeueType ==
  ASSUME timer \in 0..(Grace + Window), NEW d \in 0..(Grace + Window), RequeueAfter(d)
  PROVE  timer' \in 0..(Grace + Window)
BY Constants DEF RequeueAfter

-----------------------------------------------------------------------------
(* The flow reconciler's steps.                                            *)

LEMMA InitInv == Init => Inv
<1>. SUFFICES ASSUME Init PROVE Inv
  OBVIOUS
<1>. USE DEF Init
<1>1. flow \in Flow /\ lease \in [Node -> Lease] /\ flow.live = "unset" /\ flow.exists = FALSE
  BY EmptyTypes DEF NoFlow, NewFlow
<1>2. mirror \in [Node -> {"absent", "present", "deleting"}] /\ nodes \in SUBSET Node
  OBVIOUS
<1>3. seen \in Seen
  BY <1>1, <1>2 DEF Seen
<1>4. /\ leaseCopies \in [Node -> SUBSET {"cache", "gc"}]
      /\ gcTimer \in [Node -> 0..Window] /\ timer \in 0..(Grace + Window)
      /\ shown \in 0..Grace /\ moves \in 0..MaxMoves
  BY Constants
<1>5. TypeOK
  BY <1>1, <1>2, <1>3, <1>4, EmptyTypes DEF TypeOK
<1>6. Coherent
  BY DEF Coherent
<1>7. CollectorInv
  BY DEF CollectorInv, NoLease, IdleGc
<1>8. GraceInv
  BY <1>1 DEF GraceInv, IdlePass
<1>. QED  BY <1>5, <1>6, <1>7, <1>8 DEF Inv

LEMMA StartPassInv == Inv /\ StartPass => Inv'
<1>. SUFFICES ASSUME Inv, StartPass PROVE Inv'
  OBVIOUS
<1>. USE DEF Inv
<1>. DEFINE locs == seen.flow.locs
            departed == {n \in Node : locs[n] # "none"} \ seen.nodes
            claimed == Origins(keepPresent(locs, departed))
<1>1. locs \in [Node -> Location]
  BY DEF TypeOK, Seen, Flow
<1>2. departed \in SUBSET Node /\ claimed \in SUBSET Node
  BY <1>1, KeepPresentType
<1>3. pass' = IF ~seen.flow.exists THEN IdlePass
              ELSE [IdlePass EXCEPT !.pc = "judge", !.departed = departed,
                                    !.claimed = claimed]
  BY DEF StartPass
<1>. HIDE DEF locs, departed, claimed
<1>4. pass' \in Pass /\ pass'.pc # "delete"
  BY <1>2, <1>3, EmptyTypes DEF IdlePass, Pass
<1>5. TypeOK'
  BY <1>4 DEF StartPass, TypeOK, worldVars, gcVars
<1>6. Coherent' /\ CollectorInv'
  BY DEF StartPass, Coherent, CollectorInv, worldVars, gcVars
<1>7. GraceInv'
  BY <1>4 DEF StartPass, GraceInv
<1>. QED  BY <1>5, <1>6, <1>7

LEMMA JudgeInv == Inv /\ Judge => Inv'
<1>. SUFFICES ASSUME Inv, Judge PROVE Inv'
  OBVIOUS
<1>. USE DEF Inv
<1>1. ASSUME NEW n \in Node PROVE seen.lease[n].left \in 0..Window
  BY DEF TypeOK, Seen, Lease
<1>2. pass \in Pass /\ pass.claimed \subseteq Node
  BY DEF TypeOK, Pass
<1>3. ASSUME NEW v \in Verdict, NEW n \in Node \cup {None}, NEW d \in 0..Window
      PROVE  /\ [pass EXCEPT !.pc = "write", !.live = v, !.by = n, !.deadline = d] \in Pass
             /\ [pass EXCEPT !.pc = "write", !.live = v, !.by = n] \in Pass
             /\ [pass EXCEPT !.pc = "write"] \in Pass
  BY <1>2 DEF Pass
<1>4. pass' \in Pass /\ pass'.pc = "write"
  <2>1. CASE \E n \in Node, m \in Node :
               pass' = [pass EXCEPT !.pc = "write", !.live = "OriginLive", !.by = n,
                                    !.deadline = seen.lease[m].left]
    <3>1. PICK n \in Node, m \in Node :
                 pass' = [pass EXCEPT !.pc = "write", !.live = "OriginLive", !.by = n,
                                      !.deadline = seen.lease[m].left]
      BY <2>1
    <3>2. "OriginLive" \in Verdict
      BY DEF Verdict
    <3>3. pass' \in Pass
      BY <1>1, <1>3, <3>1, <3>2
    <3>. QED  BY <1>2, <3>1, <3>3 DEF Pass
  <2>2. CASE \E n \in Node :
               pass' = [pass EXCEPT !.pc = "write", !.live = "Mirrored", !.by = n]
    <3>1. PICK n \in Node :
                 pass' = [pass EXCEPT !.pc = "write", !.live = "Mirrored", !.by = n]
      BY <2>2
    <3>. QED  BY <1>2, <3>1 DEF Pass, Verdict
  <2>3. CASE pass' = [pass EXCEPT !.pc = "write"]
    BY <1>2, <2>3 DEF Pass
  <2>4. \/ \E n \in Node, m \in Node :
             pass' = [pass EXCEPT !.pc = "write", !.live = "OriginLive", !.by = n,
                                  !.deadline = seen.lease[m].left]
        \/ \E n \in Node :
             pass' = [pass EXCEPT !.pc = "write", !.live = "Mirrored", !.by = n]
        \/ pass' = [pass EXCEPT !.pc = "write"]
    BY <1>2, Zenon DEF Judge
  <2>. QED  BY <2>1, <2>2, <2>3, <2>4
<1>5. TypeOK'
  BY <1>4 DEF Judge, TypeOK, worldVars, gcVars
<1>6. Coherent' /\ CollectorInv'
  BY DEF Judge, Coherent, CollectorInv, worldVars, gcVars
<1>7. GraceInv'
  BY <1>4 DEF Judge, GraceInv
<1>. QED  BY <1>5, <1>6, <1>7

(* A pass that ends, tries again or goes on to the delete keeps its type.  *)
LEMMA FinishType ==
  ASSUME NEW b \in BOOLEAN, Finish(b)
  PROVE  pass' \in Pass /\ pass'.pc = "idle" /\ queued' \in BOOLEAN
<1>1. IdlePass.pc = "idle"
  BY DEF IdlePass
<1>. QED  BY <1>1, EmptyTypes DEF Finish

LEMMA ConflictType ==
  ASSUME TypeOK, Conflict
  PROVE  pass' \in Pass /\ pass'.pc \in {"idle", pass.pc} /\ queued' \in BOOLEAN
<1>1. CASE \E b \in BOOLEAN : Finish(b)
  BY <1>1, FinishType
<1>2. CASE /\ pass.tries + 1 < Retries
           /\ pass' = [pass EXCEPT !.tries = @ + 1] /\ UNCHANGED queued
  BY <1>2, Constants DEF TypeOK, Pass
<1>3. queued \in BOOLEAN
  BY DEF TypeOK
<1>. QED  BY <1>1, <1>2, <1>3 DEF Conflict

LEMMA CollectType ==
  ASSUME TypeOK, NEW f \in Flow, Collect(f)
  PROVE  /\ pass' \in Pass /\ queued' \in BOOLEAN /\ timer' \in 0..(Grace + Window)
         /\ pass'.pc = "delete" => pass.live = "NoLiveCopy" /\ f.age = Grace
<1>1. /\ pass.deadline \in 0..(Grace + Window)
      /\ f.age < Grace => Grace - f.age \in 0..(Grace + Window)
      /\ timer \in 0..(Grace + Window) /\ queued \in BOOLEAN
      /\ pass \in Pass
  BY Constants DEF TypeOK, Pass, Flow
<1>2. CASE pass.live = "Mirrored" /\ Finish(queued) /\ UNCHANGED timer
  BY <1>1, <1>2, FinishType
<1>3. CASE pass.live = "OriginLive" /\ RequeueAfter(pass.deadline) /\ Finish(queued)
  BY <1>1, <1>3, FinishType, RequeueType
<1>4. CASE f.age < Grace /\ RequeueAfter(Grace - f.age) /\ Finish(queued)
  BY <1>1, <1>4, FinishType, RequeueType
<1>5. CASE /\ pass.live = "NoLiveCopy" /\ f.age = Grace
           /\ pass' = [pass EXCEPT !.pc = "delete"]
           /\ UNCHANGED <<queued, timer>>
  BY <1>1, <1>5 DEF Pass
<1>. QED  BY <1>2, <1>3, <1>4, <1>5 DEF Collect

(* A write of the flow that keeps its clock keeps what the pass relies on. *)
LEMMA WriteFlowInv ==
  ASSUME Inv, NEW f \in Flow, NEW copies \in SUBSET {"pass"}, WriteFlow(f, copies),
         f.live = "NoLiveCopy" => f.age = IF flow.live = "NoLiveCopy" THEN flow.age ELSE 0
  PROVE  /\ flow' \in Flow /\ shown' \in 0..Grace
         /\ flowCopies' \in SUBSET {"cache", "pass"}
         /\ "cache" \notin flowCopies'
         /\ flow'.live = "NoLiveCopy" => shown' = flow'.age
BY Constants DEF Inv, TypeOK, GraceInv, WriteFlow

LEMMA WriteStatusInv == Inv /\ WriteStatus => Inv'
<1>. SUFFICES ASSUME Inv, WriteStatus PROVE Inv'
  OBVIOUS
<1>. USE DEF Inv
<1>1. seen.flow \in Flow /\ pass \in Pass /\ queued \in BOOLEAN /\ pass.pc = "write"
  BY DEF TypeOK, Seen, WriteStatus
<1>2. UNCHANGED <<worldVars, lease, leaseCopies, seen, gcVars>>
  BY DEF WriteStatus
<1>3. CollectorInv'
  BY <1>2 DEF CollectorInv, gcVars
<1>4. SUFFICES /\ flow' \in Flow /\ shown' \in 0..Grace
               /\ flowCopies' \in SUBSET {"cache", "pass"}
               /\ pass' \in Pass /\ queued' \in BOOLEAN
               /\ timer' \in 0..(Grace + Window)
               /\ "cache" \in flowCopies' => seen.flow = flow'
               /\ GraceInv'
  <2>1. TypeOK'
    BY <1>2, <1>4 DEF TypeOK, worldVars, gcVars
  <2>2. Coherent'
    BY <1>2, <1>4 DEF Coherent
  <2>. QED  BY <1>3, <1>4, <2>1, <2>2
<1>5. ASSUME UNCHANGED <<flow, shown, flowCopies, timer>>, pass' \in Pass,
             pass'.pc \in {"idle", "write"}, queued' \in BOOLEAN
      PROVE  <1>4!1
  BY <1>5 DEF TypeOK, Coherent, GraceInv
<1>6. CASE Finish(queued) /\ UNCHANGED <<flow, shown, flowCopies, timer>>
  BY <1>1, <1>5, <1>6, FinishType
<1>7. CASE Conflict /\ UNCHANGED <<flow, shown, flowCopies, timer>>
  BY <1>1, <1>5, <1>7, ConflictType
<1>8. ASSUME NEW f \in Judged(seen.flow), f = seen.flow, Collect(f),
             WriteFlow(flow, IF "cache" \in flowCopies THEN flowCopies \cup {"pass"}
                             ELSE flowCopies \ {"pass"})
      PROVE  <1>4!1
  <2>1. f \in Flow /\ f.live = pass.live
    BY <1>1, JudgedFlow
  <2>2. /\ pass' \in Pass /\ queued' \in BOOLEAN /\ timer' \in 0..(Grace + Window)
        /\ pass'.pc = "delete" => pass.live = "NoLiveCopy" /\ f.age = Grace
    BY <1>8, <2>1, CollectType
  <2>3. flow' = flow /\ shown' = IF flow.live = "NoLiveCopy" THEN shown ELSE 0
    BY <1>8 DEF WriteFlow
  <2>4. /\ "cache" \in flowCopies' <=> "cache" \in flowCopies
        /\ "pass" \in flowCopies' => "cache" \in flowCopies
        /\ flowCopies' \in SUBSET {"cache", "pass"}
    BY <1>8 DEF WriteFlow, TypeOK
  <2>5. shown' \in 0..Grace
    BY <2>3, Constants DEF TypeOK
  <2>6. GraceInv'
    BY <1>8, <2>1, <2>2, <2>3, <2>4 DEF GraceInv, Coherent
  <2>. QED  BY <2>2, <2>3, <2>4, <2>5, <2>6 DEF TypeOK, Coherent
<1>9. ASSUME NEW f \in Judged(seen.flow), "cache" \in flowCopies, Collect(f),
             WriteFlow(f, {"pass"})
      PROVE  <1>4!1
  <2>1. /\ f \in Flow /\ f.live = pass.live
        /\ f.live = "NoLiveCopy" => f.age = IF flow.live = "NoLiveCopy" THEN flow.age ELSE 0
    BY <1>1, <1>9, JudgedFlow DEF Coherent
  <2>2. /\ pass' \in Pass /\ queued' \in BOOLEAN /\ timer' \in 0..(Grace + Window)
        /\ pass'.pc = "delete" => pass.live = "NoLiveCopy" /\ f.age = Grace
    BY <1>9, <2>1, CollectType
  <2>3. /\ flow' \in Flow /\ shown' \in 0..Grace
        /\ flowCopies' \in SUBSET {"cache", "pass"} /\ "cache" \notin flowCopies'
        /\ flow'.live = "NoLiveCopy" => shown' = flow'.age
    BY <1>9, <2>1, WriteFlowInv
  <2>4. flow' = f
    BY <1>9 DEF WriteFlow
  <2>. QED  BY <2>1, <2>2, <2>3, <2>4 DEF GraceInv
<1>. QED  BY <1>6, <1>7, <1>8, <1>9 DEF WriteStatus

LEMMA DeleteFlowInv == Inv /\ DeleteFlow => Inv'
<1>. SUFFICES ASSUME Inv, DeleteFlow PROVE Inv'
  OBVIOUS
<1>. USE DEF Inv
<1>1. UNCHANGED <<worldVars, lease, leaseCopies, seen, timer, gcVars>>
  BY DEF DeleteFlow
<1>2. pass' \in Pass /\ pass'.pc = "idle" /\ queued' \in BOOLEAN
  <2>1. /\ queued \in BOOLEAN /\ (queued \/ flow.exists) \in BOOLEAN
    BY DEF TypeOK
  <2>. QED  BY <2>1, FinishType DEF DeleteFlow
<1>3. /\ flow' \in Flow /\ shown' \in 0..Grace /\ flowCopies' \in SUBSET {"cache", "pass"}
      /\ "cache" \in flowCopies' => seen.flow = flow'
      /\ flow'.live = "NoLiveCopy" => shown' = flow'.age
  <2>1. CASE UNCHANGED <<flow, shown, flowCopies>>
    BY <2>1 DEF TypeOK, Coherent, GraceInv
  <2>2. CASE WriteFlow(NoFlow, {})
    <3>1. NoFlow.live = "unset"
      BY DEF NoFlow, NewFlow
    <3>. QED  BY <2>2, <3>1, EmptyTypes, WriteFlowInv
  <2>. QED  BY <2>1, <2>2 DEF DeleteFlow
<1>4. TypeOK'
  BY <1>1, <1>2, <1>3 DEF TypeOK, worldVars, gcVars
<1>5. Coherent' /\ CollectorInv'
  BY <1>1, <1>3 DEF Coherent, CollectorInv, gcVars
<1>6. GraceInv'
  BY <1>2, <1>3 DEF GraceInv
<1>. QED  BY <1>4, <1>5, <1>6

-----------------------------------------------------------------------------
(* The Lease collector's steps.                                            *)

LEMMA StartGcInv == ASSUME Inv, NEW n \in Node, StartGc(n) PROVE Inv'
<1>. USE DEF Inv
<1>1. UNCHANGED <<worldVars, flow, shown, flowCopies, lease, seen, passVars>>
  BY DEF StartGc
<1>2. gcQueued' \in SUBSET Node
  BY DEF StartGc, TypeOK
<1>3. /\ gc' \in Gc /\ gcTimer' \in [Node -> 0..Window]
      /\ leaseCopies' \in [Node -> SUBSET {"cache", "gc"}]
      /\ \A k \in Node : "cache" \in leaseCopies'[k] <=> "cache" \in leaseCopies[k]
      /\ CollectorInv'
  <2>1. /\ leaseCopies \in [Node -> SUBSET {"cache", "gc"}] /\ gc \in Gc
        /\ gcTimer \in [Node -> 0..Window]
        /\ seen.lease[n].left \in 0..Window /\ gc.pc = "idle"
    BY DEF TypeOK, Seen, Lease, StartGc
  <2>2. CASE seen.lease[n].held /\ ~IsFresh(n)
    <3>1. /\ gc' = [pc |-> "orphan", node |-> n]
          /\ leaseCopies' = [leaseCopies EXCEPT ![n] =
                                IF "cache" \in leaseCopies[n] THEN leaseCopies[n] \cup {"gc"}
                                ELSE leaseCopies[n] \ {"gc"}]
          /\ gcTimer' = gcTimer
      BY <2>2 DEF StartGc
    <3>2. seen.lease[n].left = 0
      BY <2>1, <2>2, Constants DEF IsFresh
    <3>3. "gc" \in leaseCopies'[n] => lease[n].left = 0
      BY <2>1, <3>1, <3>2 DEF Coherent
    <3>. QED  BY <1>1, <2>1, <3>1, <3>3 DEF Gc, CollectorInv
  <2>3. CASE ~(seen.lease[n].held /\ ~IsFresh(n))
    <3>1. /\ gc' = gc /\ leaseCopies' = leaseCopies
          /\ gcTimer' = IF IsFresh(n) THEN [gcTimer EXCEPT ![n] = seen.lease[n].left]
                        ELSE gcTimer
      BY <2>3 DEF StartGc
    <3>2. gcTimer' \in [Node -> 0..Window]
      BY <2>1, <3>1
    <3>. QED  BY <1>1, <2>1, <3>1, <3>2 DEF CollectorInv
  <2>. QED  BY <2>2, <2>3
<1>4. TypeOK'
  BY <1>1, <1>2, <1>3 DEF TypeOK, worldVars, passVars
<1>5. Coherent' /\ GraceInv'
  BY <1>1, <1>3 DEF Coherent, GraceInv, passVars
<1>. QED  BY <1>3, <1>4, <1>5

LEMMA OrphanedInv == Inv /\ Orphaned => Inv'
<1>. SUFFICES ASSUME Inv, Orphaned PROVE Inv'
  OBVIOUS
<1>. USE DEF Inv
<1>1. gc' \in Gc /\ (gc'.pc # "idle" => gc'.node = gc.node /\ gc.pc # "idle")
  BY EmptyTypes DEF Orphaned, TypeOK, Gc, IdleGc
<1>2. TypeOK'
  BY <1>1 DEF Orphaned, TypeOK, worldVars, passVars
<1>3. Coherent' /\ GraceInv'
  BY DEF Orphaned, Coherent, GraceInv, passVars
<1>4. CollectorInv'
  BY <1>1 DEF Orphaned, CollectorInv
<1>. QED  BY <1>2, <1>3, <1>4

(* A write of a Lease leaves every copy of it behind.                      *)
LEMMA WriteLeaseInv ==
  ASSUME Inv, NEW n \in Node, NEW l \in Lease, l.left > 0 => l.held, WriteLease(n, l)
  PROVE  /\ lease' \in [Node -> Lease]
         /\ leaseCopies' \in [Node -> SUBSET {"cache", "gc"}]
         /\ UNCHANGED seen => \A k \in Node : "cache" \in leaseCopies'[k]
                                               => seen'.lease[k] = lease'[k]
         /\ UNCHANGED gc => CollectorInv'
<1>. USE DEF Inv
<1>1. /\ lease \in [Node -> Lease] /\ leaseCopies \in [Node -> SUBSET {"cache", "gc"}]
      /\ lease' = [lease EXCEPT ![n] = l] /\ leaseCopies' = [leaseCopies EXCEPT ![n] = {}]
  BY DEF TypeOK, WriteLease
<1>2. UNCHANGED seen => \A k \in Node : "cache" \in leaseCopies'[k] => seen'.lease[k] = lease'[k]
  BY <1>1 DEF Coherent
<1>3. UNCHANGED gc => CollectorInv'
  BY <1>1 DEF CollectorInv
<1>. QED  BY <1>1, <1>2, <1>3

LEMMA DeleteLeaseInv == Inv /\ DeleteLease => Inv'
<1>. SUFFICES ASSUME Inv, DeleteLease PROVE Inv'
  OBVIOUS
<1>. USE DEF Inv
<1>1. UNCHANGED <<worldVars, flow, shown, flowCopies, seen, passVars, gcTimer>>
  BY DEF DeleteLease
<1>2. gc.node \in Node /\ gc' = IdleGc /\ gc' \in Gc /\ gc'.pc = "idle"
  BY EmptyTypes DEF DeleteLease, CollectorInv, IdleGc
<1>3. /\ lease' \in [Node -> Lease] /\ leaseCopies' \in [Node -> SUBSET {"cache", "gc"}]
      /\ gcQueued' \in SUBSET Node
      /\ \A k \in Node : "cache" \in leaseCopies'[k] => seen'.lease[k] = lease'[k]
      /\ \A k \in Node : lease'[k].left > 0 => lease'[k].held
  <2>1. CASE UNCHANGED <<lease, leaseCopies>>
    BY <1>1, <1>2, <2>1 DEF DeleteLease, TypeOK, Coherent, CollectorInv
  <2>2. CASE WriteLease(gc.node, NoLease) /\ UNCHANGED gcQueued
    <3>1. NoLease \in Lease /\ NoLease.left = 0
      BY EmptyTypes DEF NoLease
    <3>2. \A k \in Node : lease'[k].left > 0 => lease'[k].held
      BY <1>2, <2>2, <3>1 DEF WriteLease, CollectorInv, TypeOK
    <3>. QED  BY <1>1, <1>2, <2>2, <3>1, <3>2, WriteLeaseInv DEF TypeOK
  <2>. QED  BY <2>1, <2>2 DEF DeleteLease
<1>4. TypeOK'
  BY <1>1, <1>2, <1>3 DEF TypeOK, worldVars, passVars
<1>5. Coherent' /\ GraceInv'
  BY <1>1, <1>3 DEF Coherent, GraceInv, passVars
<1>6. CollectorInv'
  BY <1>2, <1>3 DEF CollectorInv
<1>. QED  BY <1>4, <1>5, <1>6

-----------------------------------------------------------------------------
(* The informers', the agents' and the world's steps.                      *)

LEMMA FlowEventInv == Inv /\ FlowEvent => Inv'
<1>. SUFFICES ASSUME Inv, FlowEvent PROVE Inv'
  OBVIOUS
<1>. USE DEF Inv
<1>1. /\ UNCHANGED <<worldVars, flow, shown, lease, leaseCopies, timer, pass, gcTimer, gc>>
      /\ flowCopies' = flowCopies \cup {"cache"}
      /\ seen' = [seen EXCEPT !.flow = flow] /\ queued' = TRUE
      /\ gcQueued' \in SUBSET Node
  BY DEF FlowEvent, TypeOK
<1>2. seen' \in Seen /\ seen'.flow = flow /\ seen'.lease = seen.lease
  BY <1>1 DEF TypeOK, Seen
<1>3. TypeOK'
  BY <1>1, <1>2 DEF TypeOK, worldVars
<1>4. Coherent' /\ CollectorInv' /\ GraceInv'
  BY <1>1, <1>2 DEF Coherent, CollectorInv, GraceInv, TypeOK
<1>. QED  BY <1>3, <1>4

LEMMA NodeInformersInv == ASSUME Inv, NEW n \in Node, NodeInformers(n) PROVE Inv'
<1>. USE DEF Inv
<1>1. CASE LeaseEvent(n)
  <2>1. /\ UNCHANGED <<worldVars, flow, shown, flowCopies, lease, timer, pass, gcTimer, gc>>
        /\ leaseCopies' = [leaseCopies EXCEPT ![n] = leaseCopies[n] \cup {"cache"}]
        /\ seen' = [seen EXCEPT !.lease[n] = lease[n]] /\ queued' = TRUE
        /\ gcQueued' \in SUBSET Node
    BY <1>1 DEF LeaseEvent, TypeOK
  <2>2. /\ seen' \in Seen /\ seen'.flow = seen.flow
        /\ seen'.lease = [seen.lease EXCEPT ![n] = lease[n]]
    BY <2>1 DEF TypeOK, Seen
  <2>3. leaseCopies' \in [Node -> SUBSET {"cache", "gc"}]
    BY <2>1 DEF TypeOK
  <2>4. TypeOK'
    BY <2>1, <2>2, <2>3 DEF TypeOK, worldVars
  <2>5. Coherent' /\ GraceInv'
    BY <2>1, <2>2 DEF Coherent, GraceInv, TypeOK, Seen
  <2>6. CollectorInv'
    BY <2>1 DEF CollectorInv, TypeOK
  <2>. QED  BY <2>4, <2>5, <2>6
<1>2. CASE MirrorEvent(n) \/ NodeEvent(n)
  <2>1. /\ UNCHANGED <<worldVars, flow, shown, flowCopies, lease, leaseCopies, timer, pass,
                       gcTimer, gc>>
        /\ queued' \in BOOLEAN /\ gcQueued' \in SUBSET Node
    BY <1>2 DEF MirrorEvent, NodeEvent, TypeOK, gcVars
  <2>2. seen' \in Seen /\ seen'.flow = seen.flow /\ seen'.lease = seen.lease
    BY <1>2 DEF MirrorEvent, NodeEvent, TypeOK, Seen
  <2>3. TypeOK'
    BY <2>1, <2>2 DEF TypeOK, worldVars
  <2>4. Coherent' /\ CollectorInv' /\ GraceInv'
    BY <2>1, <2>2 DEF Coherent, CollectorInv, GraceInv
  <2>. QED  BY <2>3, <2>4
<1>. QED  BY <1>1, <1>2 DEF NodeInformers

LEMMA AgentInv == ASSUME Inv, NEW n \in Node, Agent(n) PROVE Inv'
<1>. USE DEF Inv
<1>1. UNCHANGED <<worldVars, seen, passVars, gcVars>>
  BY DEF Agent, Publish, Demote
<1>2. ASSUME NEW f \in Flow, WriteFlow(f, {}), UNCHANGED <<lease, leaseCopies>>,
             f.live = "NoLiveCopy" => f.age = IF flow.live = "NoLiveCopy" THEN flow.age ELSE 0
      PROVE  Inv'
  <2>1. /\ flow' \in Flow /\ shown' \in 0..Grace /\ flowCopies' \in SUBSET {"cache", "pass"}
        /\ "cache" \notin flowCopies' /\ "pass" \notin flowCopies'
        /\ flow'.live = "NoLiveCopy" => shown' = flow'.age
    BY <1>2, WriteFlowInv DEF WriteFlow
  <2>2. TypeOK'
    BY <1>1, <1>2, <2>1 DEF TypeOK, worldVars, passVars, gcVars
  <2>3. Coherent' /\ CollectorInv' /\ GraceInv'
    BY <1>1, <1>2, <2>1 DEF Coherent, CollectorInv, GraceInv, gcVars
  <2>. QED  BY <2>2, <2>3
<1>3. ASSUME NEW l \in Lease, l.left > 0 => l.held, WriteLease(n, l),
             UNCHANGED <<flow, shown, flowCopies>>
      PROVE  Inv'
  <2>1. /\ lease' \in [Node -> Lease] /\ leaseCopies' \in [Node -> SUBSET {"cache", "gc"}]
        /\ \A k \in Node : "cache" \in leaseCopies'[k] => seen'.lease[k] = lease'[k]
        /\ CollectorInv'
    BY <1>1, <1>3, WriteLeaseInv DEF gcVars
  <2>2. TypeOK'
    BY <1>1, <1>3, <2>1 DEF TypeOK, worldVars, passVars, gcVars
  <2>3. Coherent' /\ GraceInv'
    BY <1>1, <1>3, <2>1 DEF Coherent, GraceInv, passVars
  <2>. QED  BY <2>1, <2>2, <2>3
<1>4. /\ NewFlow \in Flow /\ NewFlow.live = "unset"
      /\ Renewed \in Lease /\ Renewed.held /\ NoLease \in Lease /\ NoLease.left = 0
  BY EmptyTypes DEF NewFlow, Renewed, NoLease
<1>5. ASSUME NEW l \in {"Origin", "Stale"}
      PROVE  LET f == [flow EXCEPT !.locs[n] = l]
             IN  f \in Flow /\ f.live = flow.live /\ f.age = flow.age
  BY DEF TypeOK, Flow, Location
<1>6. CASE Missing(n) /\ WriteFlow(NewFlow, {}) /\ UNCHANGED <<lease, leaseCopies>>
  BY <1>2, <1>4, <1>6
<1>7. CASE /\ WriteFlow([flow EXCEPT !.locs[n] = "Origin"], {})
           /\ UNCHANGED <<lease, leaseCopies>>
  BY <1>2, <1>5, <1>7
<1>8. CASE WriteLease(n, Renewed) /\ UNCHANGED <<flow, shown, flowCopies>>
  BY <1>3, <1>4, <1>8
<1>9. CASE /\ WriteFlow([flow EXCEPT !.locs[n] = "Stale"], {})
           /\ UNCHANGED <<lease, leaseCopies>>
  BY <1>2, <1>5, <1>9
<1>10. CASE WriteLease(n, NoLease) /\ UNCHANGED <<flow, shown, flowCopies>>
  <2>1. ~(NoLease.left > 0)
    BY <1>4
  <2>. QED  BY <1>3, <1>4, <1>10, <2>1
<1>. QED  BY <1>6, <1>7, <1>8, <1>9, <1>10 DEF Agent, Publish, Demote

LEMMA WorldInv == ASSUME Inv, NEW n \in Node, World(n) PROVE Inv'
<1>. USE DEF Inv
<1>1. UNCHANGED objects
  BY DEF World, ProducerTurns, AgentTurns, NodeLeaves, MirrorTurns
<1>2. /\ producer' \in SUBSET Node /\ agent' \in SUBSET Node /\ nodes' \in SUBSET Node
      /\ mirror' \in [Node -> {"absent", "present", "deleting"}]
  BY DEF World, ProducerTurns, AgentTurns, NodeLeaves, MirrorTurns, TypeOK
<1>3. moves' \in 0..MaxMoves
  BY Constants DEF World, ProducerTurns, AgentTurns, NodeLeaves, MirrorTurns, Move, TypeOK
<1>4. TypeOK'
  BY <1>1, <1>2, <1>3 DEF TypeOK, objects, passVars, gcVars
<1>5. Coherent' /\ CollectorInv' /\ GraceInv'
  BY <1>1 DEF Coherent, CollectorInv, GraceInv, objects, passVars, gcVars
<1>. QED  BY <1>4, <1>5

LEMMA TickInv == Inv /\ Tick => Inv'
<1>. SUFFICES ASSUME Inv, Tick PROVE Inv'
  OBVIOUS
<1>. USE DEF Inv
<1>1. /\ UNCHANGED <<worldVars, flowCopies, leaseCopies, pass, gc>>
      /\ pass.pc = "idle"
      /\ lease' = Aged(lease) /\ flow' = Older(flow)
      /\ seen' = [seen EXCEPT !.lease = Aged(seen.lease), !.flow = Older(seen.flow)]
      /\ shown' = IF flow.live = "NoLiveCopy" /\ shown < Grace THEN shown + 1 ELSE shown
  BY DEF Tick
<1>2. /\ lease \in [Node -> Lease] /\ flow \in Flow /\ shown \in 0..Grace
      /\ seen.lease \in [Node -> Lease] /\ seen.flow \in Flow /\ seen \in Seen
  BY DEF TypeOK, Seen
<1>3. /\ lease' \in [Node -> Lease] /\ flow' \in Flow /\ shown' \in 0..Grace
      /\ \A n \in Node : /\ lease'[n].held = lease[n].held
                         /\ lease'[n].left = Less(lease[n].left)
      /\ flow'.live = flow.live
      /\ flow.live # "unset" =>
           flow'.age = IF flow.age < Grace THEN flow.age + 1 ELSE flow.age
  BY <1>1, <1>2, AgedTypes, Constants
<1>4. seen' \in Seen /\ seen'.lease = Aged(seen.lease) /\ seen'.flow = Older(seen.flow)
  BY <1>1, <1>2, AgedTypes DEF Seen
<1>5. /\ timer' \in 0..(Grace + Window) /\ queued' \in BOOLEAN
      /\ gcTimer' \in [Node -> 0..Window] /\ gcQueued' \in SUBSET Node
  BY Constants DEF Tick, TypeOK, Less
<1>6. TypeOK'
  BY <1>1, <1>3, <1>4, <1>5 DEF TypeOK, worldVars
<1>7. Coherent'
  BY <1>1, <1>2, <1>4 DEF Coherent, Aged
<1>8. CollectorInv'
  <2>1. ASSUME NEW n \in Node
        PROVE  /\ lease[n].left = 0 => lease'[n].left = 0
               /\ lease'[n].left > 0 => lease[n].left > 0
    <3>1. lease[n].left \in Nat
      BY <1>2, Constants DEF Lease
    <3>2. lease'[n].left = IF lease[n].left > 0 THEN lease[n].left - 1 ELSE 0
      BY <1>3 DEF Less
    <3>. QED  BY <3>1, <3>2
  <2>2. ASSUME NEW n \in Node PROVE lease'[n].left > 0 => lease'[n].held
    <3>1. lease[n].left > 0 => lease[n].held
      BY DEF CollectorInv
    <3>. QED  BY <1>3, <2>1, <3>1
  <2>3. gc'.pc # "idle" =>
          /\ gc'.node \in Node
          /\ "gc" \in leaseCopies'[gc'.node] => lease'[gc'.node].left = 0
    BY <1>1, <2>1 DEF CollectorInv
  <2>. QED  BY <2>2, <2>3 DEF CollectorInv
<1>9. GraceInv'
  BY <1>1, <1>3 DEF GraceInv
<1>. QED  BY <1>6, <1>7, <1>8, <1>9

LEMMA NextInv == Inv /\ [Next]_vars => Inv'
<1>1. CASE UNCHANGED vars
  BY <1>1 DEF vars, worldVars, passVars, gcVars, Inv, TypeOK, Coherent, CollectorInv, GraceInv
<1>. QED
  BY <1>1, StartPassInv, JudgeInv, WriteStatusInv, DeleteFlowInv, StartGcInv, OrphanedInv,
     DeleteLeaseInv, FlowEventInv, NodeInformersInv, AgentInv, WorldInv, TickInv
     DEF Next, FlowReconcile, LeaseReconcile

LEMMA Invariance == Spec => []Inv
BY InitInv, NextInv, PTL DEF Spec

-----------------------------------------------------------------------------
(* The results.                                                            *)

(* Every variable of the reconciler, the collector and the agents' writes  *)
(* keeps its type.                                                         *)
THEOREM TypeCorrect == Spec => []TypeOK
<1>1. Inv => TypeOK
  BY DEF Inv
<1>. QED  BY <1>1, Invariance, PTL

(* collect (operator/internal/flow) removes the MxlFlow only after the     *)
(* stored object has read Live=False for a whole grace period on end,      *)
(* however its passes, the informers and the agents' writes interleave.    *)
THEOREM CollectedAfterGrace == Spec => GraceIsShown
<1>1. Inv /\ [Next]_vars => [Collected => flow.live = "NoLiveCopy" /\ shown = Grace]_vars
  <2>. SUFFICES ASSUME Inv, Next, Collected
                PROVE  flow.live = "NoLiveCopy" /\ shown = Grace
    OBVIOUS
  <2>. USE DEF Collected
  <2>1. CASE DeleteFlow
    BY <2>1 DEF DeleteFlow, Inv, GraceInv
  <2>2. CASE WriteStatus
    <3>1. CASE UNCHANGED flow
      BY <3>1
    <3>2. ASSUME NEW f \in Judged(seen.flow), seen.flow.exists, WriteFlow(f, {"pass"})
          PROVE  FALSE
      <4>1. f.exists = seen.flow.exists
        BY JudgedFlow DEF Inv, TypeOK, Seen
      <4>. QED  BY <3>2, <4>1 DEF WriteFlow
    <3>3. CASE WriteFlow(flow, IF "cache" \in flowCopies THEN flowCopies \cup {"pass"}
                               ELSE flowCopies \ {"pass"})
      BY <3>3 DEF WriteFlow
    <3>. QED  BY <2>2, <3>1, <3>2, <3>3 DEF WriteStatus
  <2>3. ASSUME NEW n \in Node, Agent(n)
        PROVE  FALSE
    <3>1. NewFlow.exists
      BY DEF NewFlow
    <3>2. \A l \in {"Origin", "Stale"} : [flow EXCEPT !.locs[n] = l].exists = flow.exists
      BY DEF Inv, TypeOK, Flow
    <3>3. \/ flow' = flow \/ flow' = NewFlow
          \/ flow.exists /\ \E l \in {"Origin", "Stale"} : flow' = [flow EXCEPT !.locs[n] = l]
      BY <2>3, Zenon DEF Agent, Publish, Demote, WriteFlow, Unlisted, Outlived
    <3>. QED  BY <3>1, <3>2, <3>3
  <2>4. CASE Tick
    BY <2>4, AgedTypes DEF Tick, Inv, TypeOK
  <2>5. CASE UNCHANGED flow
    BY <2>5
  <2>. QED
    BY <2>1, <2>2, <2>3, <2>4, <2>5
       DEF Next, FlowReconcile, LeaseReconcile, StartPass, Judge, StartGc, Orphaned,
           DeleteLease, FlowEvent, NodeInformers, LeaseEvent, MirrorEvent, NodeEvent, World,
           ProducerTurns, AgentTurns, NodeLeaves, MirrorTurns, objects
<1>. QED  BY <1>1, Invariance, PTL DEF Spec, GraceIsShown

(* The Lease collector (operator/internal/leasegc) never takes a Lease     *)
(* inside its window: a renewal it did not see makes its delete fail.      *)
THEOREM CollectorSparesRenewed == Spec => RenewedLeaseKept
<1>1. Inv /\ [Next]_vars =>
        [\A n \in Node : gc.pc = "delete" /\ gc'.pc = "idle" /\ lease[n].left > 0
                            => lease'[n].held]_vars
  <2>. SUFFICES ASSUME Inv, Next, NEW n \in Node,
                       gc.pc = "delete", gc'.pc = "idle", lease[n].left > 0
                PROVE  lease'[n].held
    OBVIOUS
  <2>1. lease[n].held /\ gc # gc'
    BY DEF Inv, CollectorInv
  <2>2. DeleteLease
    BY <2>1 DEF Next, FlowReconcile, LeaseReconcile, StartPass, Judge, WriteStatus, DeleteFlow,
                StartGc, Orphaned, FlowEvent, NodeInformers, LeaseEvent, MirrorEvent, NodeEvent,
                Agent, Publish, Demote, World, ProducerTurns, AgentTurns, NodeLeaves,
                MirrorTurns, Tick, objects, gcVars
  <2>3. CASE lease' = lease
    BY <2>1, <2>3
  <2>4. CASE "gc" \in leaseCopies[gc.node] /\ WriteLease(gc.node, NoLease)
    <3>1. gc.node \in Node /\ lease[gc.node].left = 0 /\ lease \in [Node -> Lease]
      BY <2>4 DEF Inv, CollectorInv, TypeOK
    <3>2. n # gc.node
      BY <3>1
    <3>. QED  BY <2>1, <2>4, <3>1, <3>2 DEF WriteLease
  <2>. QED  BY <2>2, <2>3, <2>4 DEF DeleteLease
<1>. QED  BY <1>1, Invariance, PTL DEF Spec, RenewedLeaseKept

(* What no pass of the flow reconciler or of the Lease collector breaks,   *)
(* all together.                                                           *)
THEOREM FlowsAreKept == Spec => FlowsKept
BY TypeCorrect, CollectedAfterGrace, CollectorSparesRenewed DEF FlowsKept

=============================================================================
