------------------------ MODULE MirrorCollectorProofs ------------------------
(***************************************************************************)
(* Proofs about the mirror reconciler for any set of nodes, receivers and  *)
(* pods, any grace period and hand-over window and any Lease duration.     *)
(***************************************************************************)
EXTENDS MirrorCollector, TLAPS

-----------------------------------------------------------------------------
(* What the operators return.                                              *)

(* A condition that is set again, or that grows older, stays a condition.  *)
LEMMA ConditionTypes ==
  ASSUME NEW w \in Nat, NEW c \in Condition(w), NEW ok \in BOOLEAN
  PROVE  /\ setStatusCondition(c, ok) \in Condition(w)
         /\ Older(c, w) \in Condition(w)
         /\ Unset \in Condition(w)
BY DEF Condition, setStatusCondition, Older, Unset

(* A version that was written over is still a known lag.                   *)
LEMMA MovedType ==
  ASSUME NEW lag \in Lag, NEW m2
  PROVE  Moved(lag, m2) \in Lag
BY DEF Lag, Moved

(* Growing older only changes the two conditions of a mirror.              *)
LEMMA AgedMirror ==
  ASSUME NEW m \in Mirror
  PROVE  /\ Aged(m) \in Mirror
         /\ Aged(m).state = m.state
         /\ Aged(m).owners = m.owners
         /\ Aged(m).requestor = m.requestor
         /\ Aged(m).source = m.source
         /\ Aged(m).sourceable = Older(m.sourceable, Grace)
<1>1. /\ Older(m.claimed, Handover) \in Condition(Handover)
      /\ Older(m.sourceable, Grace) \in Condition(Grace)
  BY ConstantsAssumption, ConditionTypes DEF ConstantsAssumption, Mirror
<1>. QED  BY <1>1 DEF Aged, Mirror

(* A pass keeps its type as time passes.                                   *)
LEMMA AgedPass ==
  ASSUME NEW q \in Pass
  PROVE  LET q2 == [Aged(q) EXCEPT !.src.deadline = Less(@)]
         IN  /\ q2 \in Pass
             /\ q2.pc = q.pc /\ q2.lag = q.lag /\ q2.wanted = q.wanted
             /\ q2.owners = q.owners /\ q2.requestor = q.requestor
             /\ q2.why = q.why /\ q2.src.node = q.src.node
             /\ q2.src.ok = q.src.ok
             /\ q2.src.disposition = q.src.disposition
<1>. DEFINE q2 == [Aged(q) EXCEPT !.src.deadline = Less(@)]
<1>1. /\ Older(q.claimed, Handover) \in Condition(Handover)
      /\ Older(q.sourceable, Grace) \in Condition(Grace)
  BY ConstantsAssumption, ConditionTypes DEF ConstantsAssumption, Pass
<1>2. Less(q.src.deadline) \in 0..LeaseWindow
  BY ConstantsAssumption DEF ConstantsAssumption, Pass, Judgement, Less
<1>. QED  BY <1>1, <1>2 DEF Aged, Pass, Judgement

(* The source judgement; an answer other than keep means no usable source. *)
LEMMA SourceType ==
  ASSUME NEW from, NEW j \in source(from),
         lease \in [Node -> 0..LeaseWindow], located \in SUBSET Node
  PROVE  /\ j \in Judgement
         /\ j.disposition # "keep" => ~j.ok
<1>1. NoJudgement \in Judgement
  BY ConstantsAssumption DEF ConstantsAssumption, NoJudgement, Judgement
<1>2. CASE Target \notin nodes \/ located = {} \/ Fresh = {}
  BY <1>1, <1>2 DEF source, Judgement, NoJudgement
<1>3. CASE Target \in nodes /\ located # {} /\ Fresh # {}
  <2>1. PICK n \in Fresh :
          j = [ok |-> TRUE, node |-> n,
               deadline |-> IF Leases THEN lease[n] ELSE 0,
               disposition |-> "keep"]
    BY <1>3 DEF source
  <2>2. n \in Node /\ lease[n] \in 0..LeaseWindow
    BY DEF Fresh
  <2>. QED
    BY <2>1, <2>2, ConstantsAssumption DEF ConstantsAssumption, Judgement
<1>. QED  BY <1>2, <1>3

(* The constants built from None are well typed.                           *)
LEMMA EmptyTypes ==
  /\ NoMirror \in Mirror
  /\ IdlePass \in Pass
  /\ SweepDue \in Sweep
  /\ Swept \in Sweep
<1>1. \A w \in Nat : Unset \in Condition(w)
  BY DEF Unset, Condition
<1>2. NoJudgement \in Judgement
  BY ConstantsAssumption DEF ConstantsAssumption, NoJudgement, Judgement
<1>. QED
  BY <1>1, <1>2, ConstantsAssumption
  DEF ConstantsAssumption, NoMirror, Mirror, IdlePass, Pass, Lag, SweepDue, Swept, Sweep

-----------------------------------------------------------------------------
(* Types.                                                                  *)

(* A write by anyone but the pass touches the lags and nothing else.       *)
LEMMA WriteType ==
  ASSUME TypeOK, NEW m2 \in Mirror, Write(m2)
  PROVE  /\ mirror' \in Mirror
         /\ cacheLag' \in Lag
         /\ pass' \in Pass
         /\ sweep' \in Sweep
<1>1. /\ Moved(cacheLag, m2) \in Lag
      /\ Moved(pass.lag, m2) \in Lag
      /\ Moved(sweep.lag, m2) \in Lag
  BY MovedType DEF TypeOK, Pass, Sweep
<1>. QED  BY <1>1 DEF TypeOK, Write, Pass, Sweep

(* The reconcile pass preserves types.                                     *)
LEMMA ReconcileType ==
  ASSUME TypeOK, Reconcile
  PROVE  TypeOK'
<1>. USE DEF apiVars, claimVars, sourceVars, agentVars, queueVars, boundVars
<1>1. CASE StartPass
  <2>1. pass' \in Pass
    <3>1. CASE cache.state # "present"
      BY <1>1, <3>1 DEF StartPass, TypeOK
    <3>2. CASE cache.state = "present"
      <4>1. claimFrom(cache, seenReceivers, seenPods) \in BOOLEAN
        BY DEF claimFrom
      <4>. DEFINE ok == claimFrom(cache, seenReceivers, seenPods)
      <4>2. pass' = [IdlePass EXCEPT !.pc = IF ok THEN "source" ELSE "live",
                                     !.lag = cacheLag,
                                     !.source = cache.source,
                                     !.requested = cache.requestor # None,
                                     !.claimed = cache.claimed,
                                     !.sourceable = cache.sourceable,
                                     !.owners = cache.owners,
                                     !.requestor = cache.requestor,
                                     !.wanted = ok]
        BY <1>1, <3>2 DEF StartPass
      <4>. HIDE DEF ok
      <4>3. /\ cache.owners \in SUBSET Receiver
            /\ cache.requestor \in Pod \cup {None}
            /\ cache.source \in Node \cup {None}
            /\ cache.claimed \in Condition(Handover)
            /\ cache.sourceable \in Condition(Grace)
            /\ cacheLag \in Lag
        BY DEF TypeOK, Mirror
      <4>. QED
        BY <4>1, <4>2, <4>3, EmptyTypes DEF ok, Pass
    <3>. QED  BY <3>1, <3>2
  <2>. QED  BY <1>1, <2>1 DEF StartPass, TypeOK
<1>2. CASE ConfirmUnclaimed
  <2>1. claimFrom(pass, receivers, pods) \in BOOLEAN
    BY DEF claimFrom
  <2>. QED  BY <1>2, <2>1 DEF ConfirmUnclaimed, TypeOK, Pass
<1>3. CASE JudgeSource
  <2>1. PICK j \in source(pass.source) :
          pass' = [pass EXCEPT
                     !.src = j,
                     !.source = None,
                     !.pc  = IF j.node = Target THEN "delete"
                             ELSE IF j.node # None /\ j.node # pass.source
                             THEN "repoint" ELSE "apply",
                     !.why = IF j.node = Target THEN "local" ELSE "none"]
    BY <1>3 DEF JudgeSource
  <2>2. j \in Judgement
    BY SourceType DEF TypeOK
  <2>3. pass' \in Pass
    BY <2>1, <2>2 DEF TypeOK, Pass
  <2>. QED  BY <1>3, <2>3 DEF JudgeSource, TypeOK
<1>4. CASE Repoint
  <2>1. CASE mirror.state = "absent"
    BY <1>4, <2>1 DEF Repoint, TypeOK, Pass
  <2>2. CASE mirror.state # "absent"
    <3>. DEFINE m2 == [mirror EXCEPT !.source = pass.src.node]
    <3>1. m2 \in Mirror
      BY DEF TypeOK, Mirror, Pass, Judgement
    <3>2. Moved(cacheLag, m2) \in Lag /\ Moved(sweep.lag, m2) \in Lag
      BY MovedType DEF TypeOK, Sweep
    <3>. HIDE DEF m2
    <3>4. pass' = [pass EXCEPT !.pc = "apply", !.lag = "current",
                               !.requested = m2.requestor # None,
                               !.claimed = m2.claimed,
                               !.sourceable = m2.sourceable]
      BY <1>4, <2>2 DEF Repoint, m2
    <3>5. pass' \in Pass
      BY <3>1, <3>4 DEF TypeOK, Pass, Mirror, Lag
    <3>6. mirror' = m2 /\ cacheLag' = Moved(cacheLag, m2)
          /\ sweep' = [sweep EXCEPT !.lag = Moved(@, m2)]
      BY <1>4, <2>2 DEF Repoint, m2
    <3>. QED  BY <1>4, <3>1, <3>2, <3>5, <3>6 DEF Repoint, TypeOK, Sweep
  <2>. QED  BY <2>1, <2>2
<1>5. CASE ApplyAndCollect
  <2>1. CASE mirror.state = "absent"
    BY <1>5, <2>1, EmptyTypes DEF ApplyAndCollect, TypeOK
  <2>2. CASE mirror.state # "absent"
    <3>. DEFINE c == Conditions
                m2 == [mirror EXCEPT !.claimed = c.claimed,
                                     !.sourceable = c.sourceable]
    <3>1. c.claimed \in Condition(Handover) /\ c.sourceable \in Condition(Grace)
      BY ConditionTypes, ConstantsAssumption
      DEF ConstantsAssumption, TypeOK, Pass, Judgement, Conditions
    <3>2. m2 \in Mirror
      BY <3>1 DEF TypeOK, Mirror
    <3>3. Moved(cacheLag, m2) \in Lag /\ Moved(sweep.lag, m2) \in Lag
      BY MovedType DEF TypeOK, Sweep
    <3>4. Wait(c) \in Nat
      BY <3>1, ConstantsAssumption DEF ConstantsAssumption, Wait, Condition
    <3>5. pass.src.deadline \in Nat
      BY ConstantsAssumption DEF ConstantsAssumption, TypeOK, Pass, Judgement
    <3>6. /\ mirror' = m2 /\ cacheLag' = Moved(cacheLag, m2)
          /\ sweep' = [sweep EXCEPT !.lag = Moved(@, m2)]
      BY <1>5, <2>2 DEF ApplyAndCollect
    <3>7. queued' \in BOOLEAN /\ timer' \in Nat /\ pass' \in Pass
      <4>. HIDE DEF c
      <4>1. CASE pass.wanted /\ pass.src.disposition = "keep"
        <5>1. pass' = IdlePass /\ RequeueAt(pass.src)
          BY <1>5, <2>2, <4>1 DEF ApplyAndCollect, c
        <5>. QED
          BY <5>1, <3>5, EmptyTypes DEF RequeueAt, Sooner, TypeOK
      <4>2. CASE ~(pass.wanted /\ pass.src.disposition = "keep") /\ Wait(c) > 0
        <5>1. pass' = IdlePass /\ timer' = Sooner(Wait(c)) /\ queued' = queued
          BY <1>5, <2>2, <4>2 DEF ApplyAndCollect, c
        <5>. QED  BY <5>1, <3>4, EmptyTypes DEF Sooner, TypeOK
      <4>3. CASE ~(pass.wanted /\ pass.src.disposition = "keep") /\ ~(Wait(c) > 0)
        <5>1. /\ pass' = [pass EXCEPT
                            !.pc = "delete",
                            !.lag = IF @ = "replaced" THEN @ ELSE "current",
                            !.requested = FALSE,
                            !.claimed = Unset,
                            !.sourceable = Unset,
                            !.why = IF pass.wanted THEN "unsourced"
                                    ELSE "unclaimed"]
              /\ queued' = queued /\ timer' = timer
          BY <1>5, <2>2, <4>3 DEF ApplyAndCollect, c
        <5>2. Unset \in Condition(Handover) /\ Unset \in Condition(Grace)
          BY ConstantsAssumption DEF ConstantsAssumption, Unset, Condition
        <5>. QED  BY <5>1, <5>2 DEF TypeOK, Pass, Lag
      <4>. QED  BY <4>1, <4>2, <4>3
    <3>. HIDE DEF c, m2
    <3>. QED
      BY <1>5, <3>2, <3>3, <3>6, <3>7 DEF ApplyAndCollect, TypeOK, Sweep
  <2>. QED  BY <2>1, <2>2
<1>6. CASE Delete
  <2>. DEFINE m2 == IF mirror.state = "present" /\ pass.lag = "current"
                    THEN [mirror EXCEPT !.state = "deleting"] ELSE mirror
  <2>1. m2 \in Mirror
    BY DEF TypeOK, Mirror
  <2>2. Moved(cacheLag, m2) \in Lag /\ Moved(sweep.lag, m2) \in Lag
    BY MovedType DEF TypeOK, Sweep
  <2>3. /\ mirror' = m2 /\ cacheLag' = Moved(cacheLag, m2)
        /\ sweep' = [sweep EXCEPT !.lag = Moved(@, m2)]
    BY <1>6 DEF Delete
  <2>. HIDE DEF m2
  <2>. QED  BY <1>6, <2>1, <2>2, <2>3, EmptyTypes DEF Delete, TypeOK, Sweep
<1>. QED
  BY <1>1, <1>2, <1>3, <1>4, <1>5, <1>6 DEF Reconcile

(* So do the other writers of the mirror.                                  *)
LEMMA WritersType ==
  ASSUME TypeOK, Writers
  PROVE  TypeOK'
<1>. USE DEF apiVars, claimVars, sourceVars, agentVars, queueVars, boundVars
<1>1. ASSUME NEW r \in Receiver, NEW n \in Node, EnsureMirror(r, n)
      PROVE  TypeOK'
  <2>. DEFINE m2 == IF mirror.state = "absent"
                    THEN [NoMirror EXCEPT !.state = "present", !.owners = {r},
                                          !.source = n]
                    ELSE [mirror EXCEPT !.owners = @ \cup {r}, !.source = n]
  <2>1. m2 \in Mirror
    BY EmptyTypes DEF TypeOK, Mirror
  <2>2. Write(m2)
    BY <1>1 DEF EnsureMirror
  <2>3. claims' \in 0..MaxClaims
    BY <1>1, ConstantsAssumption DEF ConstantsAssumption, EnsureMirror, TypeOK
  <2>. QED  BY <1>1, <2>1, <2>2, <2>3, WriteType DEF EnsureMirror, TypeOK
<1>2. ASSUME NEW r \in Receiver, ReleaseMirror(r)
      PROVE  TypeOK'
  <2>. DEFINE released == [mirror EXCEPT !.owners = @ \ {r}]
  <2>1. released \in Mirror /\ [released EXCEPT !.state = "deleting"] \in Mirror
    BY DEF TypeOK, Mirror
  <2>2. Write(released) \/ Write([released EXCEPT !.state = "deleting"])
    BY <1>2 DEF ReleaseMirror
  <2>3. /\ mirror' \in Mirror /\ cacheLag' \in Lag
        /\ pass' \in Pass /\ sweep' \in Sweep
    BY <2>1, <2>2, WriteType
  <2>. QED  BY <1>2, <2>3 DEF ReleaseMirror, TypeOK
<1>3. CASE CollectDependents
  <2>1. /\ [mirror EXCEPT !.state = "deleting"] \in Mirror
        /\ [mirror EXCEPT !.owners = Solid] \in Mirror
    BY DEF TypeOK, Mirror, Solid
  <2>2. \/ Write([mirror EXCEPT !.state = "deleting"])
        \/ Write([mirror EXCEPT !.owners = Solid])
    BY <1>3 DEF CollectDependents
  <2>3. /\ mirror' \in Mirror /\ cacheLag' \in Lag
        /\ pass' \in Pass /\ sweep' \in Sweep
    BY <2>1, <2>2, WriteType
  <2>. QED  BY <1>3, <2>3 DEF CollectDependents, TypeOK
<1>4. ASSUME NEW p \in Pod, NEW n \in Node, Materialize(p, n)
      PROVE  TypeOK'
  <2>. DEFINE m2 == [NoMirror EXCEPT !.state = "present", !.requestor = p,
                                     !.source = n]
  <2>1. m2 \in Mirror
    BY EmptyTypes DEF Mirror
  <2>2. Write(m2)
    BY <1>4 DEF Materialize
  <2>3. claims' \in 0..MaxClaims
    BY <1>4, ConstantsAssumption DEF ConstantsAssumption, Materialize, TypeOK
  <2>. QED  BY <1>4, <2>1, <2>2, <2>3, WriteType DEF Materialize, TypeOK
<1>5. CASE HandOver
  BY <1>5, EmptyTypes DEF HandOver, TypeOK, Sweep, Lag
<1>6. CASE HandOverPatch
  <2>. DEFINE m2 == IF sweep.lag = "current"
                    THEN [mirror EXCEPT !.requestor = sweep.pod] ELSE mirror
  <2>1. m2 \in Mirror
    BY DEF TypeOK, Mirror, Sweep
  <2>2. Moved(cacheLag, m2) \in Lag /\ Moved(pass.lag, m2) \in Lag
    BY MovedType DEF TypeOK, Pass
  <2>3. /\ mirror' = m2 /\ cacheLag' = Moved(cacheLag, m2)
        /\ pass' = [pass EXCEPT !.lag = Moved(@, m2)]
    BY <1>6 DEF HandOverPatch
  <2>. HIDE DEF m2
  <2>. QED
    BY <1>6, <2>1, <2>2, <2>3, EmptyTypes DEF HandOverPatch, TypeOK, Pass
<1>7. CASE GatewayStatusWrite
  <2>1. touches' \in 0..MaxTouches
    BY <1>7, ConstantsAssumption
    DEF ConstantsAssumption, GatewayStatusWrite, TypeOK
  <2>. QED  BY <1>7, <2>1 DEF GatewayStatusWrite, TypeOK, Pass, Sweep, Lag
<1>8. CASE FinalizersDropped
  <2>1. Write(NoMirror)
    BY <1>8 DEF FinalizersDropped
  <2>. QED  BY <1>8, <2>1, EmptyTypes, WriteType DEF FinalizersDropped, TypeOK
<1>. QED
  BY <1>1, <1>2, <1>3, <1>4, <1>5, <1>6, <1>7, <1>8 DEF Writers

(* The informer and the cluster preserve types.                            *)
LEMMA ClusterType ==
  ASSUME TypeOK, Informer \/ Cluster
  PROVE  TypeOK'
<1>. USE DEF apiVars, claimVars, sourceVars, agentVars, queueVars, boundVars
<1>1. CASE MirrorEvent
  BY <1>1 DEF MirrorEvent, TypeOK, Lag
<1>2. ASSUME NEW r \in Receiver, ReceiverEvent(r)
      PROVE  TypeOK'
  BY <1>2 DEF ReceiverEvent, TypeOK
<1>3. ASSUME NEW p \in Pod, PodEvent(p)
      PROVE  TypeOK'
  BY <1>3 DEF PodEvent, TypeOK
<1>4. ASSUME NEW r \in Receiver, ReceiverCreated(r) \/ ReceiverDeleted(r)
      PROVE  TypeOK'
  BY <1>4 DEF ReceiverCreated, ReceiverDeleted, ReceiverTurns, TypeOK, Life
<1>5. ASSUME NEW p \in Pod, PodCreated(p) \/ PodDeleted(p) \/ PodReads(p)
      PROVE  TypeOK'
  BY <1>5 DEF PodCreated, PodDeleted, PodTurns, PodReads, TypeOK, Life
<1>6. ASSUME NEW n \in Node, FlowEvent(n) \/ LeaseEvent(n) \/ NodeEvent(n)
      PROVE  TypeOK'
  <2>1. 0 \in 0..LeaseWindow /\ LeaseWindow \in 0..LeaseWindow
    BY ConstantsAssumption DEF ConstantsAssumption
  <2>2. CASE FlowEvent(n)
    <3>1. lease' \in [Node -> 0..LeaseWindow] /\ located' \in SUBSET Node
      BY <2>1, <2>2 DEF FlowEvent, TypeOK
    <3>2. moves' \in 0..MaxMoves /\ unresolved' \in 0..Grace
      BY <2>2, ConstantsAssumption DEF ConstantsAssumption, FlowEvent, TypeOK
    <3>. QED  BY <2>2, <3>1, <3>2 DEF FlowEvent, TypeOK
  <2>3. CASE LeaseEvent(n)
    BY <2>1, <2>3 DEF LeaseEvent, TypeOK
  <2>4. CASE NodeEvent(n)
    BY <2>4 DEF NodeEvent, TypeOK
  <2>. QED  BY <1>6, <2>2, <2>3, <2>4
<1>7. CASE DropDeparted
  BY <1>7, ConstantsAssumption DEF ConstantsAssumption, DropDeparted, TypeOK
<1>8. CASE Tick
  <2>1. Aged(mirror) \in Mirror /\ Aged(cache) \in Mirror
    BY AgedMirror DEF TypeOK
  <2>2. pass' \in Pass
    BY <1>8, AgedPass DEF Tick, TypeOK
  <2>3. lease' \in [Node -> 0..LeaseWindow]
    BY <1>8, ConstantsAssumption DEF ConstantsAssumption, Tick, Less, TypeOK
  <2>4. timer' \in Nat /\ queued' \in BOOLEAN /\ unresolved' \in 0..Grace
    BY <1>8, ConstantsAssumption DEF ConstantsAssumption, Tick, Less, TypeOK
  <2>5. readFor' \in [Pod -> 0..2]
    BY <1>8 DEF Tick, TypeOK
  <2>6. sweep' \in Sweep
    BY <1>8, EmptyTypes DEF Tick, TypeOK
  <2>. QED
    BY <1>8, <2>1, <2>2, <2>3, <2>4, <2>5, <2>6 DEF Tick, TypeOK
<1>. QED
  BY <1>1, <1>2, <1>3, <1>4, <1>5, <1>6, <1>7, <1>8 DEF Informer, Cluster

(* Every step, and every stuttering step, preserves types.                 *)
LEMMA TypeStep ==
  ASSUME TypeOK, [Next]_vars
  PROVE  TypeOK'
<1>1. CASE UNCHANGED vars
  BY <1>1 DEF vars, TypeOK
<1>. QED  BY <1>1, ReconcileType, WritersType, ClusterType DEF Next

(* The reconciler's data keeps its shape, whoever interferes.              *)
THEOREM TypeCorrect == Spec => []TypeOK
<1>1. ASSUME Init
      PROVE  TypeOK
  <2>1. lease \in [Node -> 0..LeaseWindow] /\ located \in SUBSET Node
    BY <1>1, ConstantsAssumption DEF ConstantsAssumption, Init
  <2>2. 0 \in 0..Grace /\ 0 \in 0..MaxMoves /\ 0 \in 0..MaxTouches /\ 0 \in 0..MaxClaims
    BY ConstantsAssumption DEF ConstantsAssumption
  <2>3. /\ receivers \in [Receiver -> Life] /\ seenReceivers \in [Receiver -> Life]
        /\ pods \in [Pod -> Life] /\ seenPods \in [Pod -> Life]
        /\ readFor \in [Pod -> 0..2]
    BY <1>1 DEF Init, Life
  <2>4. cacheLag \in Lag
    BY <1>1 DEF Init, Lag
  <2>. QED  BY <1>1, <2>1, <2>2, <2>3, <2>4, EmptyTypes DEF Init, TypeOK
<1>. QED  BY <1>1, TypeStep, PTL DEF Spec

-----------------------------------------------------------------------------
(* What a step does to the pass and to the copies of the mirror.           *)

(* A write by another leaves the pass with the judgements it had, and with *)
(* the current version only if it changed nothing.                         *)
LEMMA WriteEffect ==
  ASSUME TypeOK, NEW m2, Write(m2)
  PROVE  /\ mirror' = m2
         /\ pass'.pc = pass.pc /\ pass'.src = pass.src
         /\ pass'.wanted = pass.wanted /\ pass'.why = pass.why
         /\ pass'.owners = pass.owners /\ pass'.requestor = pass.requestor
         /\ pass'.lag = "current" => pass.lag = "current" /\ mirror' = mirror
         /\ sweep'.pod = sweep.pod
BY DEF Write, Moved, TypeOK, Pass, Sweep

(* What the writers other than the pass and the sweep may store.           *)
Rewritten(m2) ==
  /\ m2.source # mirror.source => m2.source \in (Node \cup {None}) \ {Target}
  /\ \A r \in m2.owners \ mirror.owners : receivers[r] = "live"
  /\ \/ m2.requestor = mirror.requestor
     \/ m2.requestor = None
     \/ pods[m2.requestor] = "live"

(* Every one of them keeps to that.                                        *)
LEMMA WritersRewrite ==
  ASSUME TypeOK, Writers, ~HandOver, ~HandOverPatch, ~GatewayStatusWrite
  PROVE  /\ Rewritten(mirror')
         /\ Write(mirror')
         /\ UNCHANGED <<cache, claimVars>>
<1>1. None # Target
  BY ConstantsAssumption DEF ConstantsAssumption
<1>2. ASSUME NEW r \in Receiver, NEW n \in Node, EnsureMirror(r, n)
      PROVE  /\ Rewritten(mirror')
             /\ Write(mirror')
             /\ UNCHANGED <<cache, claimVars>>
  <2>. DEFINE m2 == IF mirror.state = "absent"
                    THEN [NoMirror EXCEPT !.state = "present", !.owners = {r},
                                          !.source = n]
                    ELSE [mirror EXCEPT !.owners = @ \cup {r}, !.source = n]
  <2>1. Write(m2) /\ receivers[r] = "live" /\ n # Target
    BY <1>2 DEF EnsureMirror
  <2>2. /\ m2.source = n
        /\ m2.owners \subseteq mirror.owners \cup {r}
        /\ m2.requestor \in {None, mirror.requestor}
    BY DEF TypeOK, Mirror, NoMirror
  <2>3. mirror' = m2
    BY <2>1 DEF Write
  <2>. HIDE DEF m2
  <2>. QED
    BY <1>2, <2>1, <2>2, <2>3 DEF EnsureMirror, Rewritten
<1>3. ASSUME NEW r \in Receiver, ReleaseMirror(r)
      PROVE  /\ Rewritten(mirror')
             /\ Write(mirror')
             /\ UNCHANGED <<cache, claimVars>>
  <2>. DEFINE released == [mirror EXCEPT !.owners = @ \ {r}]
  <2>1. \/ mirror' = released /\ Write(released)
        \/ /\ mirror' = [released EXCEPT !.state = "deleting"]
           /\ Write([released EXCEPT !.state = "deleting"])
    BY <1>3 DEF ReleaseMirror, Write
  <2>2. /\ mirror'.source = mirror.source
        /\ mirror'.owners \subseteq mirror.owners
        /\ mirror'.requestor = mirror.requestor
    BY <2>1 DEF TypeOK, Mirror
  <2>. QED  BY <1>3, <2>1, <2>2 DEF ReleaseMirror, Rewritten
<1>4. CASE CollectDependents
  <2>1. \/ /\ mirror' = [mirror EXCEPT !.state = "deleting"]
           /\ Write([mirror EXCEPT !.state = "deleting"])
        \/ /\ mirror' = [mirror EXCEPT !.owners = Solid]
           /\ Write([mirror EXCEPT !.owners = Solid])
    BY <1>4 DEF CollectDependents, Write
  <2>2. /\ mirror'.source = mirror.source
        /\ mirror'.owners \subseteq mirror.owners
        /\ mirror'.requestor = mirror.requestor
    BY <2>1 DEF TypeOK, Mirror, Solid
  <2>. QED  BY <1>4, <2>1, <2>2 DEF CollectDependents, Rewritten
<1>5. ASSUME NEW p \in Pod, NEW n \in Node, Materialize(p, n)
      PROVE  /\ Rewritten(mirror')
             /\ Write(mirror')
             /\ UNCHANGED <<cache, claimVars>>
  <2>. DEFINE m2 == [NoMirror EXCEPT !.state = "present", !.requestor = p,
                                     !.source = n]
  <2>1. Write(m2) /\ mirror' = m2 /\ pods[p] = "live" /\ n # Target
    BY <1>5 DEF Materialize, Write
  <2>2. m2.source = n /\ m2.owners = {} /\ m2.requestor = p
    BY DEF NoMirror
  <2>. HIDE DEF m2
  <2>. QED  BY <1>5, <2>1, <2>2 DEF Materialize, Rewritten
<1>6. CASE FinalizersDropped
  <2>1. Write(NoMirror) /\ mirror' = NoMirror
    BY <1>6 DEF FinalizersDropped, Write
  <2>2. NoMirror.source = None /\ NoMirror.owners = {} /\ NoMirror.requestor = None
    BY DEF NoMirror
  <2>. QED  BY <1>1, <1>6, <2>1, <2>2 DEF FinalizersDropped, Rewritten
<1>. QED
  BY <1>2, <1>3, <1>4, <1>5, <1>6 DEF Writers

(* Applying the conditions ends the pass, or leaves it to delete a mirror  *)
(* whose wait is over.                                                     *)
LEMMA ApplyEffect ==
  ASSUME TypeOK, ApplyAndCollect
  PROVE  /\ mirror'.source = mirror.source
         /\ mirror'.owners = mirror.owners
         /\ mirror'.requestor = mirror.requestor
         /\ cache' = cache /\ UNCHANGED claimVars /\ reading' = reading
         /\ sweep'.pod = sweep.pod
         /\ \/ pass' = IdlePass
            \/ /\ pass'.pc = "delete"
               /\ pass'.owners = pass.owners /\ pass'.requestor = pass.requestor
               /\ pass'.wanted = pass.wanted /\ pass'.src = pass.src
               /\ pass'.why = IF pass.wanted THEN "unsourced" ELSE "unclaimed"
               /\ mirror'.sourceable
                    = setStatusCondition(pass.sourceable, pass.src.ok)
               /\ pass.wanted /\ pass.src.disposition = "wait"
                    => mirror'.sourceable.age >= Grace
               /\ pass.wanted => pass.src.disposition # "keep"
<1>1. CASE mirror.state = "absent"
  BY <1>1 DEF ApplyAndCollect
<1>2. CASE mirror.state # "absent"
  <2>. DEFINE c == Conditions
              m2 == [mirror EXCEPT !.claimed = c.claimed,
                                   !.sourceable = c.sourceable]
              keep == pass.wanted /\ pass.src.disposition = "keep"
  <2>1. /\ mirror' = m2 /\ cache' = cache
        /\ UNCHANGED claimVars /\ reading' = reading
        /\ sweep' = [sweep EXCEPT !.lag = Moved(@, m2)]
    BY <1>2 DEF ApplyAndCollect
  <2>2. /\ m2.source = mirror.source
        /\ m2.owners = mirror.owners
        /\ m2.requestor = mirror.requestor
        /\ m2.sourceable = c.sourceable
    BY DEF TypeOK, Mirror
  <2>3. sweep'.pod = sweep.pod
    BY <2>1 DEF TypeOK, Sweep
  <2>4. CASE keep \/ Wait(c) > 0
    <3>1. pass' = IdlePass
      BY <1>2, <2>4 DEF ApplyAndCollect
    <3>. QED  BY <2>1, <2>2, <2>3, <3>1
  <2>5. CASE ~keep /\ ~(Wait(c) > 0)
    <3>1. pass' = [pass EXCEPT
                     !.pc = "delete",
                     !.lag = IF @ = "replaced" THEN @ ELSE "current",
                     !.requested = FALSE,
                     !.claimed = Unset,
                     !.sourceable = Unset,
                     !.why = IF pass.wanted THEN "unsourced" ELSE "unclaimed"]
      BY <1>2, <2>5 DEF ApplyAndCollect
    <3>2. /\ pass'.pc = "delete"
          /\ pass'.owners = pass.owners /\ pass'.requestor = pass.requestor
          /\ pass'.wanted = pass.wanted /\ pass'.src = pass.src
          /\ pass'.why = IF pass.wanted THEN "unsourced" ELSE "unclaimed"
      BY <3>1 DEF TypeOK, Pass
    <3>3. c.sourceable = setStatusCondition(pass.sourceable, pass.src.ok)
      BY DEF Conditions
    <3>4. c.sourceable \in Condition(Grace)
      BY <3>3, ConditionTypes, ConstantsAssumption
      DEF ConstantsAssumption, TypeOK, Pass, Judgement
    <3>5. pass.wanted /\ pass.src.disposition = "wait" => c.sourceable.age >= Grace
      BY <2>5, <3>4, ConstantsAssumption DEF ConstantsAssumption, Wait, Condition
    <3>. HIDE DEF c, m2
    <3>. QED  BY <2>1, <2>2, <2>3, <2>5, <3>2, <3>3, <3>5
  <2>. QED  BY <2>4, <2>5
<1>. QED  BY <1>1, <1>2

(* A step of the informer or of the cluster other than a tick leaves the   *)
(* mirror and the pass alone.                                              *)
LEMMA ClusterEffect ==
  ASSUME Informer \/ Cluster, ~Tick
  PROVE  UNCHANGED <<mirror, pass, sweep>>
BY DEF Informer, Cluster, MirrorEvent, ReceiverEvent, PodEvent, ReceiverCreated,
       ReceiverDeleted, ReceiverTurns, PodCreated, PodDeleted, PodTurns, PodReads,
       FlowEvent, LeaseEvent, NodeEvent, DropDeparted, apiVars, agentVars

(* A tick ages what it finds.                                              *)
LEMMA TickEffect ==
  ASSUME TypeOK, Tick
  PROVE  /\ mirror' = Aged(mirror) /\ cache' = Aged(cache)
         /\ mirror'.source = mirror.source
         /\ mirror'.owners = mirror.owners
         /\ mirror'.requestor = mirror.requestor
         /\ cache'.owners = cache.owners
         /\ cache'.requestor = cache.requestor
         /\ pass'.pc = pass.pc /\ pass'.lag = pass.lag
         /\ pass'.wanted = pass.wanted /\ pass'.why = pass.why
         /\ pass'.owners = pass.owners /\ pass'.requestor = pass.requestor
         /\ pass'.src.node = pass.src.node /\ pass'.src.ok = pass.src.ok
         /\ pass'.src.disposition = pass.src.disposition
<1>1. /\ mirror' = Aged(mirror) /\ cache' = Aged(cache)
      /\ pass' = [Aged(pass) EXCEPT !.src.deadline = Less(@)]
  BY DEF Tick
<1>. QED  BY <1>1, AgedMirror, AgedPass DEF TypeOK

-----------------------------------------------------------------------------
(* The mirror never points at its own target.                              *)

(* No step sends a pass, or the mirror itself, to the target node.         *)
LEMMA RepointsElsewhereStep ==
  ASSUME TypeOK, RepointsElsewhere, [Next]_vars
  PROVE  RepointsElsewhere'
<1>. USE DEF RepointsElsewhere, NoSelfMirror
<1>1. CASE StartPass
  BY <1>1 DEF StartPass, IdlePass, apiVars
<1>2. CASE ConfirmUnclaimed
  BY <1>2 DEF ConfirmUnclaimed, TypeOK, Pass, apiVars
<1>3. CASE JudgeSource
  BY <1>3 DEF JudgeSource, TypeOK, Pass, apiVars
<1>4. CASE Repoint
  BY <1>4 DEF Repoint, TypeOK, Mirror, Pass
<1>5. CASE ApplyAndCollect
  BY <1>5, ApplyEffect DEF IdlePass
<1>6. CASE Delete
  BY <1>6 DEF Delete, IdlePass, TypeOK, Mirror
<1>7. CASE HandOver
  BY <1>7 DEF HandOver, apiVars
<1>8. CASE HandOverPatch
  BY <1>8 DEF HandOverPatch, TypeOK, Mirror, Pass
<1>9. CASE GatewayStatusWrite
  BY <1>9 DEF GatewayStatusWrite, TypeOK, Pass
<1>10. CASE Writers /\ ~HandOver /\ ~HandOverPatch /\ ~GatewayStatusWrite
  <2>1. Rewritten(mirror') /\ Write(mirror')
    BY <1>10, WritersRewrite
  <2>. QED  BY <2>1, WriteEffect DEF Rewritten
<1>11. CASE Tick
  BY <1>11, TickEffect
<1>12. CASE (Informer \/ Cluster) /\ ~Tick
  BY <1>12, ClusterEffect
<1>13. CASE UNCHANGED vars
  BY <1>13 DEF vars
<1>. QED
  BY <1>1, <1>2, <1>3, <1>4, <1>5, <1>6, <1>7, <1>8, <1>9, <1>10, <1>11, <1>12,
     <1>13 DEF Next, Reconcile

(* However the origin moves while a pass is under way, repoint never sends *)
(* a mirror to pull from the node it is meant to feed.                     *)
THEOREM NeverSelfMirrors == Spec => []NoSelfMirror
<1>1. Init => RepointsElsewhere
  BY ConstantsAssumption
  DEF ConstantsAssumption, Init, RepointsElsewhere, NoSelfMirror, NoMirror,
      IdlePass
<1>2. RepointsElsewhere => NoSelfMirror
  BY DEF RepointsElsewhere
<1>. QED
  BY <1>1, <1>2, RepointsElsewhereStep, TypeCorrect, PTL DEF Spec

-----------------------------------------------------------------------------
(* An unclaimed mirror's claimants are gone for good.                      *)

(* Nobody returns to being new, and nobody returns from being gone.        *)
LEMMA LivesGoForward ==
  ASSUME TypeOK, [Next]_vars
  PROVE  /\ \A r \in Receiver :
              /\ receivers[r] # "new" => receivers'[r] # "new"
              /\ receivers[r] = "gone" => receivers'[r] = "gone"
         /\ \A p \in Pod :
              /\ pods[p] # "new" => pods'[p] # "new"
              /\ pods[p] = "gone" => pods'[p] = "gone"
<1>1. ASSUME NEW r \in Receiver, ReceiverCreated(r) \/ ReceiverDeleted(r)
      PROVE  /\ pods' = pods
             /\ \A k \in Receiver :
                  /\ receivers[k] # "new" => receivers'[k] # "new"
                  /\ receivers[k] = "gone" => receivers'[k] = "gone"
  BY <1>1 DEF ReceiverCreated, ReceiverDeleted, ReceiverTurns, TypeOK
<1>2. ASSUME NEW p \in Pod, PodCreated(p) \/ PodDeleted(p)
      PROVE  /\ receivers' = receivers
             /\ \A k \in Pod :
                  /\ pods[k] # "new" => pods'[k] # "new"
                  /\ pods[k] = "gone" => pods'[k] = "gone"
  BY <1>2 DEF PodCreated, PodDeleted, PodTurns, TypeOK
<1>3. CASE \E r \in Receiver : ReceiverCreated(r) \/ ReceiverDeleted(r)
  BY <1>1, <1>3
<1>4. CASE \E p \in Pod : PodCreated(p) \/ PodDeleted(p)
  BY <1>2, <1>4
<1>5. CASE /\ ~\E r \in Receiver : ReceiverCreated(r) \/ ReceiverDeleted(r)
           /\ ~\E p \in Pod : PodCreated(p) \/ PodDeleted(p)
  <2>. USE DEF claimVars
  <2>1. CASE Reconcile
    BY <2>1 DEF Reconcile, StartPass, ConfirmUnclaimed, JudgeSource, Repoint,
                ApplyAndCollect, Delete
  <2>2. CASE Writers
    BY <2>2 DEF Writers, EnsureMirror, ReleaseMirror, CollectDependents,
                Materialize, HandOver, HandOverPatch, GatewayStatusWrite,
                FinalizersDropped
  <2>3. CASE Informer
    BY <2>3 DEF Informer, MirrorEvent, ReceiverEvent, PodEvent
  <2>4. CASE Cluster
    BY <2>4, <1>5 DEF Cluster, PodReads, FlowEvent, LeaseEvent, NodeEvent,
                      DropDeparted, Tick
  <2>5. CASE UNCHANGED vars
    BY <2>5 DEF vars
  <2>. QED  BY <2>1, <2>2, <2>3, <2>4, <2>5 DEF Next
<1>. QED  BY <1>3, <1>4, <1>5

KnownReceivers == {r \in Receiver : receivers[r] # "new"}

KnownPods == {p \in Pod : pods[p] # "new"}

(* Whom the copies name, and who reads, is known.                          *)
AllKnown ==
  /\ mirror.owners \subseteq KnownReceivers
  /\ mirror.requestor \in KnownPods \cup {None}
  /\ cache.owners \subseteq KnownReceivers
  /\ cache.requestor \in KnownPods \cup {None}
  /\ pass.owners \subseteq KnownReceivers
  /\ pass.requestor \in KnownPods \cup {None}
  /\ reading \subseteq KnownPods
  /\ sweep.pod \in KnownPods \cup {None}

(* That is ClaimantsExist, said with sets.                                 *)
LEMMA ClaimantsKnown == TypeOK => (ClaimantsExist <=> AllKnown)
<1>. SUFFICES ASSUME TypeOK
              PROVE  ClaimantsExist <=> AllKnown
  OBVIOUS
<1>1. /\ mirror.owners \subseteq Receiver /\ mirror.requestor \in Pod \cup {None}
      /\ cache.owners \subseteq Receiver /\ cache.requestor \in Pod \cup {None}
      /\ pass.owners \subseteq Receiver /\ pass.requestor \in Pod \cup {None}
      /\ reading \subseteq Pod /\ sweep.pod \in Pod \cup {None}
  BY DEF TypeOK, Mirror, Pass, Sweep
<1>2. None \notin Pod
  BY ConstantsAssumption DEF ConstantsAssumption
<1>. QED
  BY <1>1, <1>2 DEF ClaimantsExist, Named, AllKnown, KnownReceivers, KnownPods

(* No step names a claimant before it exists.                              *)
LEMMA ClaimantsExistStep ==
  ASSUME TypeOK, ClaimantsExist, [Next]_vars
  PROVE  ClaimantsExist'
<1>1. TypeOK'
  BY TypeStep
<1>2. /\ KnownReceivers \subseteq KnownReceivers'
      /\ KnownPods \subseteq KnownPods'
  <2>1. /\ \A r \in Receiver : receivers[r] # "new" => receivers'[r] # "new"
        /\ \A p \in Pod : pods[p] # "new" => pods'[p] # "new"
    BY LivesGoForward
  <2>. QED  BY <2>1 DEF KnownReceivers, KnownPods
<1>3. AllKnown
  BY ClaimantsKnown
<1>. SUFFICES /\ mirror'.owners \subseteq KnownReceivers
              /\ mirror'.requestor \in KnownPods \cup {None}
              /\ cache'.owners \subseteq KnownReceivers
              /\ cache'.requestor \in KnownPods \cup {None}
              /\ pass'.owners \subseteq KnownReceivers
              /\ pass'.requestor \in KnownPods \cup {None}
              /\ reading' \subseteq KnownPods
              /\ sweep'.pod \in KnownPods \cup {None}
  <2>1. AllKnown'
    BY <1>2 DEF AllKnown
  <2>. QED  BY <1>1, <2>1, ClaimantsKnown, PTL
<1>. USE <1>3 DEF apiVars, agentVars, AllKnown
<1>4. CASE StartPass
  BY <1>4 DEF StartPass, IdlePass
<1>5. CASE ConfirmUnclaimed
  BY <1>5 DEF ConfirmUnclaimed, TypeOK, Pass
<1>6. CASE JudgeSource
  BY <1>6 DEF JudgeSource, TypeOK, Pass
<1>7. CASE Repoint
  <2>1. /\ mirror'.owners = mirror.owners
        /\ mirror'.requestor = mirror.requestor
    BY <1>7 DEF Repoint, TypeOK, Mirror
  <2>2. pass'.owners = pass.owners /\ pass'.requestor = pass.requestor
    BY <1>7 DEF Repoint, TypeOK, Pass
  <2>3. sweep'.pod = sweep.pod /\ cache' = cache /\ reading' = reading
    BY <1>7 DEF Repoint, TypeOK, Sweep
  <2>. QED  BY <2>1, <2>2, <2>3
<1>8. CASE ApplyAndCollect
  BY <1>8, ApplyEffect DEF IdlePass
<1>9. CASE Delete
  BY <1>9 DEF Delete, IdlePass, TypeOK, Mirror, Sweep
<1>10. CASE HandOver
  BY <1>10 DEF HandOver, Swept, SweepDue
<1>11. CASE HandOverPatch
  BY <1>11 DEF HandOverPatch, Swept, SweepDue, TypeOK, Mirror, Pass, Sweep
<1>12. CASE GatewayStatusWrite
  BY <1>12 DEF GatewayStatusWrite, TypeOK, Pass, Sweep
<1>13. CASE Writers /\ ~HandOver /\ ~HandOverPatch /\ ~GatewayStatusWrite
  <2>1. Rewritten(mirror') /\ Write(mirror') /\ cache' = cache
    BY <1>13, WritersRewrite
  <2>2. mirror' \in Mirror
    BY <1>1 DEF TypeOK
  <2>3. /\ mirror'.owners \subseteq KnownReceivers
        /\ mirror'.requestor \in KnownPods \cup {None}
    BY <2>1, <2>2 DEF Rewritten, KnownReceivers, KnownPods, Mirror
  <2>4. reading' \subseteq KnownPods
    BY <1>13 DEF Writers, EnsureMirror, ReleaseMirror, CollectDependents,
                 Materialize, FinalizersDropped, KnownPods
  <2>. QED  BY <2>1, <2>3, <2>4, WriteEffect
<1>14. CASE Tick
  <2>1. reading' = reading /\ sweep'.pod \in {sweep.pod, None}
    BY <1>14 DEF Tick, SweepDue
  <2>. QED  BY <1>14, <2>1, TickEffect
<1>15. CASE (Informer \/ Cluster) /\ ~Tick
  <2>1. UNCHANGED <<mirror, pass, sweep>>
    BY <1>15, ClusterEffect
  <2>2. cache' \in {cache, mirror}
    BY <1>15 DEF Informer, Cluster, MirrorEvent, ReceiverEvent, PodEvent,
         ReceiverCreated, ReceiverDeleted, ReceiverTurns, PodCreated, PodDeleted,
         PodTurns, PodReads, FlowEvent, LeaseEvent, NodeEvent, DropDeparted
  <2>3. reading' \subseteq KnownPods
    BY <1>15 DEF Informer, Cluster, MirrorEvent, ReceiverEvent, PodEvent,
         ReceiverCreated, ReceiverDeleted, ReceiverTurns, PodCreated, PodDeleted,
         PodTurns, PodReads, FlowEvent, LeaseEvent, NodeEvent, DropDeparted,
         KnownPods
  <2>. QED  BY <2>1, <2>2, <2>3
<1>16. CASE UNCHANGED vars
  BY <1>16 DEF vars
<1>. QED
  BY <1>4, <1>5, <1>6, <1>7, <1>8, <1>9, <1>10, <1>11, <1>12, <1>13, <1>14,
     <1>15, <1>16 DEF Next, Reconcile

(* What was gone when a pass judged it is gone when it acts.               *)
LEMMA VerdictIsFinalStep ==
  ASSUME TypeOK, ClaimantsExist, VerdictIsFinal, [Next]_vars
  PROVE  VerdictIsFinal'
<1>. DEFINE judged(q) == q.pc \notin {"idle", "live"}
<1>1. pass.owners \subseteq Receiver /\ pass.requestor \in Pod \cup {None}
  BY DEF TypeOK, Pass
<1>2. /\ \A r \in Receiver : receivers[r] = "gone" => receivers'[r] = "gone"
      /\ \A p \in Pod : pods[p] = "gone" => pods'[p] = "gone"
  BY LivesGoForward
<1>3. ASSUME pass'.owners = pass.owners, pass'.requestor = pass.requestor,
             pass'.wanted = pass.wanted, judged(pass') => judged(pass),
             pass'.why = "unclaimed" => pass'.pc = "delete" /\ ~pass.wanted
      PROVE  VerdictIsFinal'
  BY <1>1, <1>2, <1>3 DEF VerdictIsFinal, Gone
<1>4. ASSUME pass' = IdlePass
      PROVE  VerdictIsFinal'
  BY <1>4 DEF VerdictIsFinal, IdlePass
<1>5. CASE StartPass
  <2>1. CASE cache.state # "present"
    BY <1>3, <1>5, <2>1 DEF StartPass, VerdictIsFinal
  <2>2. CASE cache.state = "present"
    BY <1>5, <2>2 DEF StartPass, IdlePass, VerdictIsFinal
  <2>. QED  BY <2>1, <2>2
<1>6. CASE ConfirmUnclaimed
  <2>1. pass' = [pass EXCEPT !.pc = "source",
                             !.wanted = claimFrom(pass, receivers, pods)]
        /\ receivers' = receivers /\ pods' = pods
    BY <1>6 DEF ConfirmUnclaimed, claimVars
  <2>2. /\ pass'.wanted = claimFrom(pass, receivers, pods)
        /\ pass'.owners = pass.owners /\ pass'.requestor = pass.requestor
        /\ pass'.why = pass.why
    BY <2>1 DEF TypeOK, Pass
  <2>3. ~claimFrom(pass, receivers, pods) => Gone(pass)
    <3>1. /\ \A r \in pass.owners : receivers[r] \in Life /\ receivers[r] # "new"
          /\ pass.requestor # None => /\ pods[pass.requestor] \in Life
                                      /\ pods[pass.requestor] # "new"
      BY <1>1 DEF TypeOK, ClaimantsExist, Named
    <3>. QED  BY <3>1 DEF claimFrom, Gone, Life
  <2>4. pass.why # "unclaimed"
    BY <1>6 DEF ConfirmUnclaimed, VerdictIsFinal
  <2>. QED  BY <2>1, <2>2, <2>3, <2>4 DEF VerdictIsFinal, Gone
<1>7. CASE JudgeSource
  <2>1. /\ pass'.owners = pass.owners /\ pass'.requestor = pass.requestor
        /\ pass'.wanted = pass.wanted /\ pass'.why \in {"local", "none"}
        /\ pass.pc = "source"
    BY <1>7 DEF JudgeSource, TypeOK, Pass
  <2>. QED  BY <1>3, <2>1
<1>8. CASE Repoint
  <2>1. /\ pass'.owners = pass.owners /\ pass'.requestor = pass.requestor
        /\ pass'.wanted = pass.wanted /\ pass'.why = pass.why
        /\ pass.pc = "repoint"
    BY <1>8 DEF Repoint, TypeOK, Pass
  <2>. QED  BY <1>3, <2>1 DEF VerdictIsFinal
<1>9. CASE ApplyAndCollect
  <2>1. pass.pc = "apply"
    BY <1>9 DEF ApplyAndCollect
  <2>2. CASE pass' = IdlePass
    BY <1>4, <2>2
  <2>3. CASE pass' # IdlePass
    <3>1. /\ pass'.owners = pass.owners /\ pass'.requestor = pass.requestor
          /\ pass'.wanted = pass.wanted
          /\ pass'.why = IF pass.wanted THEN "unsourced" ELSE "unclaimed"
      BY <1>9, <2>3, ApplyEffect
    <3>2. pass'.pc = "delete"
      BY <1>9, <2>3, ApplyEffect
    <3>. QED  BY <1>3, <2>1, <3>1, <3>2
  <2>. QED  BY <2>2, <2>3
<1>10. CASE Delete
  BY <1>4, <1>10 DEF Delete
<1>11. CASE HandOver
  BY <1>3, <1>11 DEF HandOver, VerdictIsFinal
<1>12. CASE HandOverPatch
  <2>1. /\ pass'.owners = pass.owners /\ pass'.requestor = pass.requestor
        /\ pass'.wanted = pass.wanted /\ pass'.why = pass.why
        /\ pass'.pc = pass.pc
    BY <1>12 DEF HandOverPatch, TypeOK, Pass
  <2>. QED  BY <1>3, <2>1 DEF VerdictIsFinal
<1>13. CASE GatewayStatusWrite
  <2>1. /\ pass'.owners = pass.owners /\ pass'.requestor = pass.requestor
        /\ pass'.wanted = pass.wanted /\ pass'.why = pass.why
        /\ pass'.pc = pass.pc
    BY <1>13 DEF GatewayStatusWrite, TypeOK, Pass
  <2>. QED  BY <1>3, <2>1 DEF VerdictIsFinal
<1>14. CASE Writers /\ ~HandOver /\ ~HandOverPatch /\ ~GatewayStatusWrite
  BY <1>3, <1>14, WritersRewrite, WriteEffect DEF VerdictIsFinal
<1>15. CASE Tick
  BY <1>3, <1>15, TickEffect DEF VerdictIsFinal
<1>16. CASE (Informer \/ Cluster) /\ ~Tick
  BY <1>3, <1>16, ClusterEffect DEF VerdictIsFinal
<1>17. CASE UNCHANGED vars
  BY <1>3, <1>17 DEF vars, VerdictIsFinal
<1>. QED
  BY <1>5, <1>6, <1>7, <1>8, <1>9, <1>10, <1>11, <1>12, <1>13, <1>14, <1>15,
     <1>16, <1>17 DEF Next, Reconcile

(* The delete of a pass that judged its mirror unclaimed never takes it    *)
(* from a claimant that pass had read: the verdict was confirmed live, and *)
(* it cannot turn.                                                         *)
THEOREM UnclaimedIsFinal == Spec => JudgedClaimantsGone
<1>. DEFINE Step ==
       Marks("unclaimed") =>
         /\ \A r \in pass.owners : receivers[r] = "gone"
         /\ pass.requestor # None => pods[pass.requestor] = "gone"
<1>1. Init => ClaimantsExist /\ VerdictIsFinal
  BY DEF Init, ClaimantsExist, VerdictIsFinal, Named, Gone, NoMirror, IdlePass,
         SweepDue
<1>2. VerdictIsFinal => Step
  BY DEF VerdictIsFinal, Gone, Marks
<1>3. VerdictIsFinal => [Step]_vars
  BY <1>2
<1>. HIDE DEF Step
<1>4. Spec => [][Step]_vars
  BY <1>1, <1>3, ClaimantsExistStep, VerdictIsFinalStep, TypeCorrect, PTL DEF Spec
<1>. QED  BY <1>4 DEF Step, JudgedClaimantsGone

-----------------------------------------------------------------------------
(* The grace period.                                                       *)

(* No step leaves a pass about to delete a version that has not shown      *)
(* Sourceable=False for the grace period.                                  *)
LEMMA GraceRunOutStep ==
  ASSUME TypeOK, GraceRunOut, [Next]_vars
  PROVE  GraceRunOut'
<1>. DEFINE ranOut == \/ pass.src.disposition = "gone"
                      \/ /\ mirror.sourceable.status = "False"
                         /\ mirror.sourceable.age >= Grace
<1>1. ASSUME pass'.src = pass.src, pass'.pc = pass.pc, pass'.why = pass.why,
             pass'.lag = "current" => pass.lag = "current" /\ mirror' = mirror
      PROVE  GraceRunOut'
  BY <1>1 DEF GraceRunOut
<1>2. ASSUME pass'.pc # "delete", pass'.src.disposition # "keep" => ~pass'.src.ok
      PROVE  GraceRunOut'
  BY <1>2 DEF GraceRunOut
<1>3. CASE StartPass
  <2>1. CASE cache.state # "present"
    BY <1>1, <1>3, <2>1 DEF StartPass, apiVars
  <2>2. CASE cache.state = "present"
    <3>1. pass'.src = NoJudgement /\ pass'.pc # "delete"
      BY <1>3, <2>2 DEF StartPass, IdlePass
    <3>. QED  BY <1>2, <3>1 DEF NoJudgement
  <2>. QED  BY <2>1, <2>2
<1>4. CASE ConfirmUnclaimed
  <2>1. pass'.pc = "source" /\ pass'.src = pass.src
    BY <1>4 DEF ConfirmUnclaimed, TypeOK, Pass
  <2>. QED  BY <1>2, <2>1 DEF GraceRunOut
<1>5. CASE JudgeSource
  <2>0. PICK j \in source(pass.source) :
          pass' = [pass EXCEPT
                     !.src = j,
                     !.source = None,
                     !.pc  = IF j.node = Target THEN "delete"
                             ELSE IF j.node # None /\ j.node # pass.source
                             THEN "repoint" ELSE "apply",
                     !.why = IF j.node = Target THEN "local" ELSE "none"]
    BY <1>5 DEF JudgeSource
  <2>1. pass'.src = j /\ pass'.why # "unsourced"
    BY <2>0 DEF TypeOK, Pass
  <2>2. j.disposition # "keep" => ~j.ok
    BY SourceType DEF TypeOK
  <2>. QED  BY <2>1, <2>2 DEF GraceRunOut
<1>6. CASE Repoint
  <2>1. pass'.pc = "apply" /\ pass'.src = pass.src
    BY <1>6 DEF Repoint, TypeOK, Pass
  <2>. QED  BY <1>2, <2>1 DEF GraceRunOut
<1>7. CASE ApplyAndCollect
  <2>1. CASE pass' = IdlePass
    BY <1>2, <2>1 DEF IdlePass, NoJudgement
  <2>2. CASE pass' # IdlePass
    <3>1. /\ pass'.wanted = pass.wanted /\ pass'.src = pass.src
          /\ pass'.why = IF pass.wanted THEN "unsourced" ELSE "unclaimed"
          /\ mirror'.sourceable
               = setStatusCondition(pass.sourceable, pass.src.ok)
          /\ pass.wanted /\ pass.src.disposition = "wait"
               => mirror'.sourceable.age >= Grace
          /\ pass.wanted => pass.src.disposition # "keep"
      BY <1>7, <2>2, ApplyEffect
    <3>2. pass.src.disposition \in {"keep", "wait", "gone"}
      BY DEF TypeOK, Pass, Judgement
    <3>3. ~pass.src.ok => mirror'.sourceable.status = "False"
      BY <3>1 DEF setStatusCondition
    <3>. QED  BY <3>1, <3>2, <3>3 DEF GraceRunOut
  <2>. QED  BY <2>1, <2>2
<1>8. CASE Delete
  BY <1>2, <1>8 DEF Delete, IdlePass, NoJudgement
<1>9. CASE HandOver
  BY <1>1, <1>9 DEF HandOver, apiVars
<1>10. CASE HandOverPatch
  <2>1. /\ pass'.src = pass.src /\ pass'.pc = pass.pc /\ pass'.why = pass.why
        /\ pass'.lag = Moved(pass.lag, mirror')
    BY <1>10 DEF HandOverPatch, TypeOK, Pass
  <2>2. pass'.lag = "current" => pass.lag = "current" /\ mirror' = mirror
    BY <2>1 DEF Moved
  <2>. QED  BY <1>1, <2>1, <2>2
<1>11. CASE GatewayStatusWrite
  <2>1. /\ pass'.src = pass.src /\ pass'.pc = pass.pc /\ pass'.why = pass.why
        /\ pass'.lag # "current"
    BY <1>11 DEF GatewayStatusWrite, TypeOK, Pass
  <2>. QED  BY <1>1, <2>1
<1>12. CASE Writers /\ ~HandOver /\ ~HandOverPatch /\ ~GatewayStatusWrite
  BY <1>1, <1>12, WritersRewrite, WriteEffect
<1>13. CASE Tick
  <2>1. mirror.sourceable \in Condition(Grace)
    BY DEF TypeOK, Mirror
  <2>2. mirror'.sourceable = Older(mirror.sourceable, Grace)
    BY <1>13, TickEffect, AgedMirror DEF TypeOK
  <2>3. mirror.sourceable.status = "False" /\ mirror.sourceable.age >= Grace
          => mirror'.sourceable.status = "False" /\ mirror'.sourceable.age >= Grace
    BY <2>1, <2>2, ConstantsAssumption DEF ConstantsAssumption, Older, Condition
  <2>. QED  BY <1>13, <2>3, TickEffect DEF GraceRunOut
<1>14. CASE (Informer \/ Cluster) /\ ~Tick
  BY <1>1, <1>14, ClusterEffect
<1>15. CASE UNCHANGED vars
  BY <1>1, <1>15 DEF vars
<1>. QED
  BY <1>3, <1>4, <1>5, <1>6, <1>7, <1>8, <1>9, <1>10, <1>11, <1>12, <1>13,
     <1>14, <1>15 DEF Next, Reconcile

(* A wanted mirror that goes for want of a source has, on the very version *)
(* that is deleted, shown Sourceable=False for the whole grace period, or  *)
(* a node at one of its ends has left.                                     *)
THEOREM GracePublished == Spec => GraceIsPublished
<1>. DEFINE Step ==
       Marks("unsourced") =>
         \/ pass.src.disposition = "gone"
         \/ /\ mirror.sourceable.status = "False"
            /\ mirror.sourceable.age >= Grace
<1>1. Init => GraceRunOut
  BY DEF Init, GraceRunOut, IdlePass, NoJudgement
<1>2. ASSUME TypeOK, GraceRunOut, [Next]_vars
      PROVE  [Step]_vars
  <2>. SUFFICES ASSUME Next, Marks("unsourced")
                PROVE  Step
    BY <1>2
  <2>1. pass.pc = "delete" /\ pass'.pc = "idle"
    BY DEF Marks
  <2>2. Delete
    <3>1. CASE Reconcile
      BY <2>1, <3>1 DEF Reconcile, StartPass, ConfirmUnclaimed, JudgeSource,
                        Repoint, ApplyAndCollect
    <3>2. CASE Writers
      <4>1. CASE HandOver \/ HandOverPatch \/ GatewayStatusWrite
        BY <1>2, <2>1, <4>1
        DEF HandOver, HandOverPatch, GatewayStatusWrite, TypeOK, Pass
      <4>2. CASE ~(HandOver \/ HandOverPatch \/ GatewayStatusWrite)
        BY <1>2, <2>1, <3>2, <4>2, WritersRewrite, WriteEffect
      <4>. QED  BY <4>1, <4>2
    <3>3. CASE Informer \/ Cluster
      BY <1>2, <2>1, <3>3, ClusterEffect, TickEffect
    <3>. QED  BY <3>1, <3>2, <3>3 DEF Next
  <2>3. pass.lag = "current"
    BY <2>2 DEF Delete, Marks
  <2>. QED  BY <1>2, <2>3 DEF GraceRunOut, Marks
<1>. HIDE DEF Step
<1>4. Spec => [][Step]_vars
  BY <1>1, <1>2, GraceRunOutStep, TypeCorrect, PTL DEF Spec
<1>. QED  BY <1>4 DEF Step, GraceIsPublished

=============================================================================
