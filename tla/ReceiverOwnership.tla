-------------------------- MODULE ReceiverOwnership --------------------------
(***************************************************************************)
(* The operator's MxlReceiver reconciler                                   *)
(* (operator/internal/receiver/controller.go) for one flow and one target  *)
(* node: receivers that share the mirror of their namespace through its    *)
(* owner references, and receivers whose podRef names a pod in another     *)
(* namespace, where each has a mirror of its own.                          *)
(*                                                                         *)
(* A pass is cut at its API calls.  A cached read is taken together with   *)
(* the call that follows it: an informer that delivers later gives every   *)
(* outcome a read taken earlier would.  A resourceVersion is kept as       *)
(* whether a copy is still the stored version.  Time is left out: a        *)
(* delayed requeue (the 10s of markPending, the Lease deadline, a          *)
(* back-off) is a request in the queue, which is served at any time.       *)
(*                                                                         *)
(* Pods, flows and Leases are only read, through the cache, so consumer    *)
(* and origin are that cached view.                                        *)
(***************************************************************************)
EXTENDS Naturals

CONSTANTS
  Receiver,     \* the MxlReceivers of the flow, by UID
  Remote,       \* those whose podRef names another namespace
  Source,       \* nodes the flow can come from, other than the target
  Target,       \* the node the consumers run on
  Leases,       \* origins hold Leases, which lapse without an event
  OnDemand,     \* a pod asks for the flow through its agent
  Concurrent,   \* passes for different receivers may overlap
  Retries,      \* retry.DefaultRetry.Steps
  MaxMoves,     \* bound: changes of origins and consumers
  MaxTouches,   \* bound: status writes by the gateways
  Shared,       \* the name of the mirror the receivers share
  Nil           \* no node

ASSUME ReceiverAssumption ==
  /\ Remote \subseteq Receiver
  /\ Target \notin Source /\ Nil \notin Source /\ Nil # Target
  /\ Leases \in BOOLEAN /\ OnDemand \in BOOLEAN /\ Concurrent \in BOOLEAN
  /\ Retries \in Nat \ {0}
  /\ MaxMoves \in Nat /\ MaxTouches \in Nat
  /\ Shared \notin Receiver

VARIABLES
  mirror,       \* the stored MxlFlowMirrors, by name
  cache,        \* the informer's copies
  cached,       \* whether each copy is the stored version
  recv,         \* the stored MxlReceivers
  seen,         \* the informer's copies
  current,      \* whether each copy is the stored version
  consumer,     \* whether the receiver's pod runs on the target node
  reader,       \* the pod the on-demand path serves: "new", "live", "gone"
  origin,       \* the fresh Origin node of the flow, or Nil
  queued,       \* receivers in the work queue, at once or after a delay
  pass,         \* the pass under way for each receiver
  moves, touches

mirrorVars == <<mirror, cache, cached>>
recvVars == <<recv, seen, current>>
worldVars == <<consumer, reader, origin, moves, touches>>
vars == <<mirror, cache, cached, recv, seen, current, consumer, reader, origin,
          queued, pass, moves, touches>>

-----------------------------------------------------------------------------
(* Values.                                                                 *)

Name == {Shared} \cup Remote

(* mirrorNameForReceiver.                                                  *)
mirrorNameForReceiver(r) == IF r \in Remote THEN r ELSE Shared

(* spec.requestor names the receiver's own pod as it is now, a pod that    *)
(* has been replaced or deleted since, or the on-demand reader.            *)
Requestor == {"none", "consumer", "stale", "reader"}

Mirror == [state: {"absent", "present", "deleting"},
           owners: SUBSET Receiver,
           requestor: Requestor,
           source: Source \cup {Nil}]

NoMirror == [state |-> "absent", owners |-> {}, requestor |-> "none",
             source |-> Nil]

Recv == [life: {"new", "live", "deleting", "gone"},
         finalizer: BOOLEAN,
         phase: {"Unset", "Pending", "Bound"}]

NewRecv == [life |-> "new", finalizer |-> FALSE, phase |-> "Unset"]

(* The steps of a pass that only a receiver with the finalizer gets to,    *)
(* and those of a deletion.                                                *)
Serving == {"resolve", "release", "erase", "reread", "remove", "ensure",
            "exists", "adopt", "patch", "status"}

Ending == {"sweep", "relist", "unfinalize"}

(* A pass: its copy of the receiver (current, phase), the phase it is to   *)
(* report and whether a mirror goes with it, the source and pod it         *)
(* resolved, the fields of the mirror it found drifted, whether the        *)
(* version its delete is preconditioned on is the stored one, and the      *)
(* attempts made of the call at hand.                                      *)
Pass == [pc: {"idle", "finalizer"} \cup Serving \cup Ending,
         current: BOOLEAN,
         phase: {"Unset", "Pending", "Bound"},
         to: {"Pending", "Bound"},
         primary: BOOLEAN,
         source: Source \cup {Nil},
         pod: Requestor,
         drift: SUBSET {"source", "requestor"},
         holds: BOOLEAN,
         tries: 0..Retries]

IdlePass == [pc |-> "idle", current |-> FALSE, phase |-> "Unset",
             to |-> "Pending", primary |-> FALSE, source |-> Nil,
             pod |-> "none", drift |-> {}, holds |-> FALSE, tries |-> 0]

-----------------------------------------------------------------------------
(* Writing and failing.                                                    *)

(* A write of mirror k by anyone: copies of it stop being current.         *)
Write(k, m) ==
  /\ mirror' = [mirror EXCEPT ![k] = m]
  /\ cached' = [cached EXCEPT ![k] = @ /\ m = mirror[k]]
  /\ UNCHANGED cache

(* What a write of mirror k that stores m does to the version each pass    *)
(* holds for its delete.                                                   *)
Overtake(k, m) ==
  [q \in Receiver |->
     IF mirrorNameForReceiver(q) = k /\ m # mirror[k]
     THEN [pass[q] EXCEPT !.holds = FALSE] ELSE pass[q]]

(* A write of receiver r: the informer's copy stops being current.  The    *)
(* pass that wrote goes on with the response.                              *)
WriteRecv(r, v) ==
  /\ recv' = [recv EXCEPT ![r] = v]
  /\ current' = [current EXCEPT ![r] = @ /\ v = recv[r]]
  /\ UNCHANGED seen

(* Pass r moves on without having written the mirror.                      *)
Goto(r, p) == pass' = [pass EXCEPT ![r] = p]

(* Reconcile returns an error, or asks for a delayed requeue.              *)
Requeue(r) ==
  /\ Goto(r, IdlePass)
  /\ queued' = queued \cup {r}
  /\ UNCHANGED <<mirrorVars, recvVars, worldVars>>

(* Faulty variant: conflicts are retried without end.                      *)
ConflictForever(r) ==
  /\ Goto(r, [pass[r] EXCEPT !.tries = @ + 1])
  /\ UNCHANGED <<mirrorVars, recvVars, worldVars, queued>>

(* The call conflicts: another attempt, or an error after the last one.    *)
Conflict(r) ==
  IF pass[r].tries + 1 < Retries
  THEN /\ Goto(r, [pass[r] EXCEPT !.tries = @ + 1])
       /\ UNCHANGED <<mirrorVars, recvVars, worldVars, queued>>
  ELSE Requeue(r)

(* On to the status update that ends the pass.                             *)
Finish(p) == [p EXCEPT !.pc = "status", !.source = Nil, !.pod = "none",
                       !.drift = {}, !.holds = FALSE, !.tries = 0]

Proceed(r, p) ==
  /\ Goto(r, p)
  /\ UNCHANGED <<mirrorVars, recvVars, worldVars, queued>>

-----------------------------------------------------------------------------
(* Reconcile.                                                              *)

(* Faulty variant: a live receiver is served without the finalizer.        *)
StartWithoutFinalizer(r) ==
  /\ pass[r].pc = "idle"
  /\ r \in queued
  /\ Concurrent \/ \A q \in Receiver : pass[q].pc = "idle"
  /\ queued' = queued \ {r}
  /\ Goto(r, IF seen[r].life = "live"
             THEN [IdlePass EXCEPT !.pc = "resolve", !.current = current[r],
                                   !.phase = seen[r].phase]
             ELSE IdlePass)
  /\ UNCHANGED <<mirrorVars, recvVars, worldVars>>

(* The receiver is read from the cache.  A deleted one goes the way of     *)
(* handleDeletion if it still has the finalizer.                           *)
StartPass(r) ==
  /\ pass[r].pc = "idle"
  /\ r \in queued
  /\ Concurrent \/ \A q \in Receiver : pass[q].pc = "idle"
  /\ queued' = queued \ {r}
  /\ LET begin(pc) == [IdlePass EXCEPT !.pc = pc, !.current = current[r],
                                       !.phase = seen[r].phase]
     IN  Goto(r, CASE seen[r].life = "live" ->
                        begin(IF seen[r].finalizer THEN "resolve" ELSE "finalizer")
                   [] seen[r].life = "deleting" /\ seen[r].finalizer -> begin("sweep")
                   [] OTHER -> IdlePass)
  /\ UNCHANGED <<mirrorVars, recvVars, worldVars>>

(* The finalizer goes on before anything else.  A stale copy conflicts     *)
(* and a receiver that is gone is not found; both come back later.         *)
AddFinalizer(r) ==
  /\ pass[r].pc = "finalizer"
  /\ IF pass[r].current
     THEN /\ WriteRecv(r, [recv[r] EXCEPT !.finalizer = TRUE])
          /\ Goto(r, [pass[r] EXCEPT !.pc = "resolve"])
          /\ UNCHANGED <<mirrorVars, worldVars, queued>>
     ELSE Requeue(r)

(* The nodes the receiver's pods run on, as the cache shows them.          *)
resolveTargets(r) == IF consumer[r] THEN {Target} ELSE {}

(* The node of a fresh Origin, as the cache shows it.                      *)
resolveSourceNode == origin

(* resolveTargets and resolveSourceNode, and what follows from them: no    *)
(* consumer releases; no source leaves everything as it is; a source on    *)
(* the target node releases; else the mirror is ensured.                   *)
Resolve(r) ==
  /\ pass[r].pc = "resolve"
  /\ LET release == IF r \in Remote THEN "remove" ELSE "release"
     IN  Proceed(r,
           CASE resolveTargets(r) = {} ->
                  [pass[r] EXCEPT !.pc = release, !.to = "Pending"]
             [] resolveTargets(r) # {} /\ resolveSourceNode = Nil ->
                  [pass[r] EXCEPT !.pc = "status", !.to = "Pending"]
             [] resolveTargets(r) = {resolveSourceNode} ->
                  [pass[r] EXCEPT !.pc = release, !.to = "Bound"]
             [] OTHER -> [pass[r] EXCEPT !.pc = "ensure", !.to = "Bound",
                                         !.primary = TRUE,
                                         !.source = resolveSourceNode,
                                         !.pod = IF r \in Remote THEN "consumer"
                                                 ELSE "none"])

(* Faulty variant: a merge patch writes the cached list back.              *)
RemoveByPatch(r) ==
  LET copy == cache[Shared]
      m == [mirror[Shared] EXCEPT !.owners = copy.owners \ {r}]
  IN  /\ pass[r].pc = "release"
      /\ IF copy.state = "absent" \/ r \notin copy.owners
         THEN Proceed(r, Finish(pass[r]))
         ELSE IF mirror[Shared].state = "absent"
         THEN Requeue(r)
         ELSE /\ Write(Shared, m)
              /\ pass' = [Overtake(Shared, m) EXCEPT
                            ![r] = IF m.owners = {}
                                   THEN [pass[r] EXCEPT !.pc = "erase",
                                                        !.holds = TRUE]
                                   ELSE Finish(pass[r])]
              /\ UNCHANGED <<recvVars, worldVars, queued>>

(* removeOwnerRef, one attempt: the cached mirror without this receiver's  *)
(* reference, in an Update.  Emptying the list leads on to the delete.     *)
(* gcOrphanMirrors passes over a mirror that is being deleted.             *)
removeOwnerRef(r) ==
  LET copy == cache[Shared]
      m == [mirror[Shared] EXCEPT !.owners = @ \ {r}]
  IN  /\ pass[r].pc = "release"
      /\ IF \/ copy.state = "absent" \/ r \notin copy.owners
            \/ copy.state = "deleting" /\ pass[r].tries = 0
         THEN Proceed(r, Finish(pass[r]))
         ELSE IF cached[Shared]
         THEN /\ Write(Shared, m)
              /\ pass' = [Overtake(Shared, m) EXCEPT
                            ![r] = IF m.owners = {}
                                   THEN [pass[r] EXCEPT !.pc = "erase",
                                                        !.holds = TRUE,
                                                        !.tries = 0]
                                   ELSE Finish(pass[r])]
              /\ UNCHANGED <<recvVars, worldVars, queued>>
         ELSE IF mirror[Shared].state = "absent"
         THEN Requeue(r)
         ELSE Conflict(r)

(* A delete of mirror k that takes effect, or finds nothing to do, and     *)
(* ends the pass's part in it.  Finalizers hold the object back.           *)
DeleteMirror(r, k, p) ==
  LET m == IF mirror[k].state = "present"
           THEN [mirror[k] EXCEPT !.state = "deleting"] ELSE mirror[k]
  IN  /\ Write(k, m)
      /\ pass' = [Overtake(k, m) EXCEPT ![r] = p]
      /\ UNCHANGED <<recvVars, worldVars, queued>>

(* deleteIfStillEmpty, first attempt: preconditioned on the version the    *)
(* Update returned.                                                        *)
EraseReleased(r) ==
  /\ pass[r].pc = "erase"
  /\ IF pass[r].holds
     THEN DeleteMirror(r, Shared, Finish(pass[r]))
     ELSE IF mirror[Shared].state = "absent"
     THEN Proceed(r, Finish(pass[r]))
     ELSE Proceed(r, [pass[r] EXCEPT !.pc = "reread", !.tries = 1])

(* deleteIfStillEmpty after a conflict: the cached mirror decides, and the *)
(* next attempt carries its version.                                       *)
deleteIfStillEmpty(r) ==
  /\ pass[r].pc = "reread"
  /\ LET copy == cache[Shared]
     IN  IF copy.state = "absent" \/ copy.owners # {}
         THEN Proceed(r, Finish(pass[r]))
         ELSE IF pass[r].tries = Retries
         THEN Requeue(r)
         ELSE IF cached[Shared]
         THEN DeleteMirror(r, Shared, Finish(pass[r]))
         ELSE IF mirror[Shared].state = "absent"
         THEN Proceed(r, Finish(pass[r]))
         ELSE Proceed(r, [pass[r] EXCEPT !.tries = @ + 1])

(* gcOrphanMirrors for a mirror in another namespace: deleted by name.     *)
RemoveRemote(r) ==
  /\ pass[r].pc = "remove"
  /\ IF cache[r].state = "present"
     THEN DeleteMirror(r, r, Finish(pass[r]))
     ELSE Proceed(r, Finish(pass[r]))

(* Faulty variant: the origin's node is stamped on creation and not        *)
(* refreshed.                                                              *)
FoundUnmoved(r, copy) ==
  IF copy.state = "deleting"
  THEN Finish([pass[r] EXCEPT !.to = "Pending", !.primary = FALSE])
  ELSE [pass[r] EXCEPT
          !.pc = IF r \in Remote THEN "patch" ELSE "adopt",
          !.drift = IF r \in Remote /\ copy.requestor # pass[r].pod
                    THEN {"requestor"} ELSE {}]

(* What ensureMirror does with a mirror it found: adopt it in its own      *)
(* namespace, then compare its spec.  One that is being deleted is not     *)
(* adopted.                                                                *)
Found(r, copy) ==
  IF copy.state = "deleting"
  THEN Finish([pass[r] EXCEPT !.to = "Pending", !.primary = FALSE])
  ELSE [pass[r] EXCEPT
          !.pc = IF r \in Remote THEN "patch" ELSE "adopt",
          !.drift = (IF copy.source # pass[r].source THEN {"source"} ELSE {})
                    \cup (IF r \in Remote /\ copy.requestor # pass[r].pod
                          THEN {"requestor"} ELSE {})]

(* ensureMirror: create the mirror the cache does not show.                *)
ensureMirror(r) ==
  LET k == mirrorNameForReceiver(r)
      m == [state |-> "present",
            owners |-> IF r \in Remote THEN {} ELSE {r},
            requestor |-> pass[r].pod,
            source |-> pass[r].source]
  IN  /\ pass[r].pc = "ensure"
      /\ IF cache[k].state # "absent"
         THEN Proceed(r, Found(r, cache[k]))
         ELSE IF mirror[k].state = "absent"
         THEN /\ Write(k, m)
              /\ pass' = [Overtake(k, m) EXCEPT ![r] = Finish(pass[r])]
              /\ UNCHANGED <<recvVars, worldVars, queued>>
         ELSE Proceed(r, [pass[r] EXCEPT !.pc = "exists"])

(* ensureMirror after AlreadyExists: read again, from the same cache.      *)
AlreadyExists(r) ==
  LET k == mirrorNameForReceiver(r)
  IN  /\ pass[r].pc = "exists"
      /\ IF cache[k].state = "absent"
         THEN Requeue(r)
         ELSE Proceed(r, Found(r, cache[k]))

(* ensureOwnerRef, one attempt.                                            *)
ensureOwnerRef(r) ==
  LET copy == cache[Shared]
      m == [mirror[Shared] EXCEPT !.owners = @ \cup {r}]
      next == [pass[r] EXCEPT !.pc = "patch", !.tries = 0]
  IN  /\ pass[r].pc = "adopt"
      /\ IF copy.state = "absent" THEN Requeue(r)
         ELSE IF r \in copy.owners THEN Proceed(r, next)
         ELSE IF cached[Shared]
         THEN /\ Write(Shared, m)
              /\ pass' = [Overtake(Shared, m) EXCEPT ![r] = next]
              /\ UNCHANGED <<recvVars, worldVars, queued>>
         ELSE IF mirror[Shared].state = "absent" THEN Requeue(r)
         ELSE Conflict(r)

(* patchMirrorIfDrifted: a merge patch of the drifted keys, without a      *)
(* resourceVersion.                                                        *)
patchMirrorIfDrifted(r) ==
  LET k == mirrorNameForReceiver(r)
      p == pass[r]
      m == [mirror[k] EXCEPT
              !.source = IF "source" \in p.drift THEN p.source ELSE @,
              !.requestor = IF "requestor" \in p.drift THEN p.pod ELSE @]
  IN  /\ p.pc = "patch"
      /\ IF p.drift = {} THEN Proceed(r, Finish(p))
         ELSE IF mirror[k].state = "absent" THEN Requeue(r)
         ELSE /\ Write(k, m)
              /\ pass' = [Overtake(k, m) EXCEPT ![r] = Finish(p)]
              /\ UNCHANGED <<recvVars, worldVars, queued>>

(* markPending and markBound.  A pass that turns a receiver Bound without  *)
(* a mirror dereferences the nil MirrorRef in its event and is recovered   *)
(* as an error.                                                            *)
markStatus(r) ==
  LET p == pass[r]
  IN  /\ p.pc = "status"
      /\ IF p.to = "Pending" /\ p.phase = "Pending" THEN Requeue(r)
         ELSE IF p.to = "Bound" /\ p.phase # "Bound" /\ ~p.primary THEN Requeue(r)
         ELSE IF ~p.current THEN Requeue(r)
         ELSE /\ WriteRecv(r, [recv[r] EXCEPT !.phase = p.to])
              /\ Goto(r, IdlePass)
              /\ queued' = IF p.to = "Pending" \/ Leases
                           THEN queued \cup {r} ELSE queued
              /\ UNCHANGED <<mirrorVars, worldVars>>

(* handleDeletion.  Only mirrors in other namespaces are its own to        *)
(* delete, and they are listed live.                                       *)
handleDeletion(r) ==
  /\ pass[r].pc = "sweep"
  /\ LET next == [pass[r] EXCEPT !.pc = "relist"]
     IN  IF r \in Remote THEN DeleteMirror(r, r, next) ELSE Proceed(r, next)

(* Faulty variant: what remains is read from the cache.                    *)
ListRemainingFromCache(r) ==
  /\ pass[r].pc = "relist"
  /\ IF r \in Remote /\ cache[r].state # "absent"
     THEN Requeue(r)
     ELSE Proceed(r, [pass[r] EXCEPT !.pc = "unfinalize"])

(* Faulty variant: the mirror's own deletion is expected to wake the       *)
(* receiver.                                                               *)
ListRemainingOnce(r) ==
  /\ pass[r].pc = "relist"
  /\ Proceed(r, IF r \in Remote /\ mirror[r].state # "absent" THEN IdlePass
                ELSE [pass[r] EXCEPT !.pc = "unfinalize"])

(* The second live list: the finalizer stays while a mirror remains.       *)
ListRemaining(r) ==
  /\ pass[r].pc = "relist"
  /\ IF r \in Remote /\ mirror[r].state # "absent"
     THEN Requeue(r)
     ELSE Proceed(r, [pass[r] EXCEPT !.pc = "unfinalize"])

(* The receiver goes with its finalizer.  A conflict is left to the event  *)
(* that caused it.                                                         *)
RemoveFinalizer(r) ==
  /\ pass[r].pc = "unfinalize"
  /\ IF pass[r].current
     THEN WriteRecv(r, [recv[r] EXCEPT !.life = "gone", !.finalizer = FALSE])
     ELSE UNCHANGED recvVars
  /\ Goto(r, IdlePass)
  /\ UNCHANGED <<mirrorVars, worldVars, queued>>

-----------------------------------------------------------------------------
(* The others that write mirrors.                                          *)

(* A write of mirror k that is none of the passes'.                        *)
WriteOther(k, m) ==
  /\ Write(k, m)
  /\ pass' = Overtake(k, m)
  /\ UNCHANGED <<recvVars, consumer, origin, queued>>

(* The agent creates the shared mirror for a pod that asked.               *)
Materialize(n) ==
  /\ reader # "gone"
  /\ reader' = "live"
  /\ mirror[Shared].state = "absent"
  /\ n = origin
  /\ WriteOther(Shared, [state |-> "present", owners |-> {},
                         requestor |-> "reader", source |-> n])
  /\ UNCHANGED <<moves, touches>>

(* The gateways' status writes.                                            *)
GatewayStatusWrite(k) ==
  /\ mirror[k].state # "absent"
  /\ touches < MaxTouches
  /\ touches' = touches + 1
  /\ cached' = [cached EXCEPT ![k] = FALSE]
  /\ pass' = [q \in Receiver |-> IF mirrorNameForReceiver(q) = k
                                 THEN [pass[q] EXCEPT !.holds = FALSE]
                                 ELSE pass[q]]
  /\ UNCHANGED <<mirror, cache, recvVars, consumer, reader, origin, queued,
                 moves>>

(* The gateways drop their finalizers and the object goes.                 *)
FinalizersDropped(k) ==
  /\ mirror[k].state = "deleting"
  /\ WriteOther(k, NoMirror)
  /\ UNCHANGED <<reader, moves, touches>>

Exists(r) == recv[r].life \in {"live", "deleting"}

Solid == {r \in mirror[Shared].owners : Exists(r)}

(* An owner is gone, and the mirror is not already on its way out for it.  *)
Dangling ==
  /\ mirror[Shared].state # "absent"
  /\ mirror[Shared].owners # Solid
  /\ Solid = {} => mirror[Shared].state = "present"

(* Garbage collection by the apiserver.                                    *)
CollectDependents ==
  /\ Dangling
  /\ WriteOther(Shared, IF Solid = {} THEN [mirror[Shared] EXCEPT !.state = "deleting"]
                        ELSE [mirror[Shared] EXCEPT !.owners = Solid])
  /\ UNCHANGED <<reader, moves, touches>>

(* Nothing claims m: none of its owners exists, its requestor is no pod.   *)
Unclaimed(m) ==
  /\ \A r \in m.owners : ~Exists(r)
  /\ m.requestor \in {"none", "stale"} \/ (m.requestor = "reader" /\ reader = "gone")

(* The mirror reconciler collects what nothing claims.                     *)
CollectUnclaimed(k) ==
  /\ mirror[k].state = "present"
  /\ Unclaimed(mirror[k])
  /\ WriteOther(k, [mirror[k] EXCEPT !.state = "deleting"])
  /\ UNCHANGED <<reader, moves, touches>>

-----------------------------------------------------------------------------
(* Users, pods, flows and the informer.                                    *)

CreateReceiver(r) ==
  /\ recv[r].life = "new"
  /\ WriteRecv(r, [recv[r] EXCEPT !.life = "live"])
  /\ UNCHANGED <<mirrorVars, worldVars, queued, pass>>

DeleteReceiver(r) ==
  /\ recv[r].life = "live"
  /\ WriteRecv(r, [recv[r] EXCEPT !.life = IF recv[r].finalizer THEN "deleting"
                                           ELSE "gone"])
  /\ Goto(r, [pass[r] EXCEPT !.current = FALSE])
  /\ UNCHANGED <<mirrorVars, worldVars, queued>>

(* The receivers the cache lists.                                          *)
Listed == {r \in Receiver : seen[r].life \in {"live", "deleting"}}

(* The pod a mirror or a pass names is not the receiver's pod any more.    *)
Outdated(q) == IF q = "consumer" THEN "stale" ELSE q

(* podToReceivers wakes the receivers in the pod's namespace.  A pod in    *)
(* another namespace wakes none of these.                                  *)
ConsumerTurns(r, on) ==
  /\ moves < MaxMoves
  /\ moves' = moves + 1
  /\ consumer' = [consumer EXCEPT ![r] = on]
  /\ IF r \in Remote
     THEN /\ mirror' = [mirror EXCEPT ![r].requestor = Outdated(@)]
          /\ cache' = [cache EXCEPT ![r].requestor = Outdated(@)]
          /\ Goto(r, [pass[r] EXCEPT !.pod = Outdated(@)])
          /\ UNCHANGED queued
     ELSE /\ queued' = queued \cup (Listed \ Remote)
          /\ UNCHANGED <<mirror, cache, pass>>
  /\ UNCHANGED <<cached, recvVars, reader, origin, touches>>

ConsumerArrives(r) == ~consumer[r] /\ ConsumerTurns(r, TRUE)

ConsumerLeaves(r) == consumer[r] /\ ConsumerTurns(r, FALSE)

(* A pod of the same name under another UID.                               *)
ConsumerReplaced(r) == r \in Remote /\ consumer[r] /\ ConsumerTurns(r, TRUE)

ReaderLeaves ==
  /\ reader = "live"
  /\ reader' = "gone"
  /\ UNCHANGED <<mirrorVars, recvVars, consumer, origin, queued, pass, moves,
                 touches>>

(* flowToReceivers and leaseToReceivers wake every receiver of the flow.   *)
OriginEvent(n) ==
  /\ moves < MaxMoves
  /\ moves' = moves + 1
  /\ n # origin
  /\ origin' = n
  /\ queued' = queued \cup Listed
  /\ UNCHANGED <<mirrorVars, recvVars, consumer, reader, pass, touches>>

(* The last fresh Lease runs out, which is no event.                       *)
OriginLapses ==
  /\ Leases
  /\ moves < MaxMoves
  /\ moves' = moves + 1
  /\ origin # Nil
  /\ origin' = Nil
  /\ UNCHANGED <<mirrorVars, recvVars, consumer, reader, queued, pass, touches>>

ReceiverEvent(r) ==
  /\ ~current[r]
  /\ seen' = [seen EXCEPT ![r] = recv[r]]
  /\ current' = [current EXCEPT ![r] = TRUE]
  /\ queued' = queued \cup {r}
  /\ UNCHANGED <<mirrorVars, recv, worldVars, pass>>

(* mirrorToReceivers wakes the receivers in the mirror's own namespace.    *)
MirrorEvent(k) ==
  /\ ~cached[k]
  /\ cache' = [cache EXCEPT ![k] = mirror[k]]
  /\ cached' = [cached EXCEPT ![k] = TRUE]
  /\ queued' = IF k = Shared THEN queued \cup (Listed \ Remote) ELSE queued
  /\ UNCHANGED <<mirror, recvVars, worldVars, pass>>

-----------------------------------------------------------------------------

Init ==
  /\ mirror = [k \in Name |-> NoMirror]
  /\ cache = mirror
  /\ cached = [k \in Name |-> TRUE]
  /\ recv = [r \in Receiver |-> NewRecv]
  /\ seen = recv
  /\ current = [r \in Receiver |-> TRUE]
  /\ consumer \in [Receiver -> BOOLEAN]
  /\ reader = IF OnDemand THEN "new" ELSE "gone"
  /\ origin \in Source \cup {Nil, Target}
  /\ queued = {}
  /\ pass = [r \in Receiver |-> IdlePass]
  /\ moves = 0
  /\ touches = 0

Reconcile(r) ==
  \/ StartPass(r) \/ AddFinalizer(r) \/ Resolve(r)
  \/ removeOwnerRef(r) \/ EraseReleased(r) \/ deleteIfStillEmpty(r)
  \/ RemoveRemote(r)
  \/ ensureMirror(r) \/ AlreadyExists(r) \/ ensureOwnerRef(r)
  \/ patchMirrorIfDrifted(r) \/ markStatus(r)
  \/ handleDeletion(r) \/ ListRemaining(r) \/ RemoveFinalizer(r)

Informer ==
  \/ \E r \in Receiver : ReceiverEvent(r)
  \/ \E k \in Name : MirrorEvent(k)

Others ==
  \/ \E n \in Source : Materialize(n)
  \/ \E k \in Name : GatewayStatusWrite(k) \/ FinalizersDropped(k) \/ CollectUnclaimed(k)
  \/ CollectDependents

World ==
  \/ \E r \in Receiver : \/ CreateReceiver(r) \/ DeleteReceiver(r)
                         \/ ConsumerArrives(r) \/ ConsumerLeaves(r)
                         \/ ConsumerReplaced(r)
  \/ ReaderLeaves
  \/ \E n \in Source \cup {Nil, Target} : OriginEvent(n)
  \/ OriginLapses

Next ==
  \/ \E r \in Receiver : Reconcile(r)
  \/ Informer
  \/ Others
  \/ World

Spec == Init /\ [][Next]_vars

(* The worker serves its queue in order, and the informer, the garbage     *)
(* collectors and the gateways' finalizers get their turn: strong fairness *)
(* of the first and weak fairness of the others, as the states that do not *)
(* last.  Users, pods and origins owe nothing.                             *)
Fairness ==
  /\ \A r \in Receiver :
       /\ \A pc \in {"finalizer"} \cup Serving \cup Ending : []<>(pass[r].pc # pc)
       /\ []<>~(pass[r].pc = "idle" /\ r \in queued)
       /\ []<>current[r]
  /\ \A k \in Name : /\ []<>cached[k]
                     /\ []<>(mirror[k].state # "deleting")
                     /\ []<>~(mirror[k].state = "present" /\ Unclaimed(mirror[k]))
  /\ []<>~Dangling

FairSpec == Spec /\ Fairness

-----------------------------------------------------------------------------
(* Properties.                                                             *)

(* Every variable keeps its type.                                          *)
TypeOK ==
  /\ mirror \in [Name -> Mirror]
  /\ cache \in [Name -> Mirror]
  /\ cached \in [Name -> BOOLEAN]
  /\ recv \in [Receiver -> Recv]
  /\ seen \in [Receiver -> Recv]
  /\ current \in [Receiver -> BOOLEAN]
  /\ consumer \in [Receiver -> BOOLEAN]
  /\ reader \in {"new", "live", "gone"}
  /\ origin \in Source \cup {Nil, Target}
  /\ queued \in SUBSET Receiver
  /\ pass \in [Receiver -> Pass]
  /\ moves \in 0..MaxMoves
  /\ touches \in 0..MaxTouches

Promise == INSTANCE SharedMirror
             WITH state <- mirror[Shared].state,
                  owners <- mirror[Shared].owners,
                  alive <- {r \in Receiver : Exists(r)}

(* The reconciler keeps the promise of SharedMirror, whatever its cache    *)
(* shows and however its retries interleave with the other writers: no     *)
(* receiver is recorded after it is gone, and neither its own delete nor   *)
(* the collectors take the mirror from a receiver that exists.             *)
PromiseKept == Promise!Spec

(* A receiver loses its owner reference only in its own release, with the  *)
(* object itself, or once it is gone: concurrent Updates of the list never *)
(* strip a sibling.                                                        *)
SiblingsKeepReferences ==
  [][\A r \in mirror[Shared].owners :
       r \notin mirror'[Shared].owners =>
         \/ pass[r].pc = "release"
         \/ ~Exists(r)
         \/ mirror[Shared].state = "deleting"]_vars

(* A receiver that is gone leaves no mirror in another namespace behind,   *)
(* where no owner reference could collect it: handleDeletion lists live.   *)
NoOrphanRemote ==
  \A r \in Remote : recv[r].life = "gone" => mirror[r].state = "absent"

Wants(r) == recv[r].life = "live" /\ consumer[r] /\ origin \in Source

Served(r) ==
  LET m == mirror[mirrorNameForReceiver(r)]
  IN  /\ m.state = "present"
      /\ m.source = origin
      /\ IF r \in Remote THEN m.requestor = "consumer" ELSE r \in m.owners

(* A receiver whose consumer needs a mirror does not go on without one     *)
(* that follows the origin and names the receiver as a claimant, though    *)
(* siblings release, collectors delete and the cache lags.                 *)
WantedIsServed == \A r \in Receiver : []<>(Wants(r) => Served(r))

(* A receiver without a consumer does not keep its owner reference.        *)
UnwantedIsReleased ==
  \A r \in Receiver \ Remote :
    []<>~(/\ recv[r].life = "live" /\ ~consumer[r]
          /\ mirror[Shared].state = "present" /\ r \in mirror[Shared].owners)

(* A deleted receiver goes: its finalizer never waits for something that   *)
(* does not come.                                                          *)
DeletedGoes ==
  \A r \in Receiver : []<>(recv[r].life # "deleting")

(* A Lease that lapses without an event still takes Bound from a receiver  *)
(* whose consumer waits for the flow.                                      *)
LapseDemotes ==
  \A r \in Receiver :
    []<>~(recv[r].life = "live" /\ consumer[r] /\ origin = Nil
          /\ recv[r].phase = "Bound")

(* The end of what a receiver is there for is noticed: a deleted receiver  *)
(* goes, a lapsed Lease takes Bound from one, and one beside its mirror    *)
(* does not keep its owner reference without a consumer.                   *)
EndsAreNoticed == DeletedGoes /\ LapseDemotes /\ UnwantedIsReleased

(* A receiver whose consumer runs on the origin's node becomes Bound.      *)
LocalReceiverBinds ==
  \A r \in Receiver :
    []<>(recv[r].life = "live" /\ consumer[r] /\ origin = Target
         => recv[r].phase = "Bound")

-----------------------------------------------------------------------------
(* What makes the safety properties inductive.                             *)

(* A mirror the cache holds in its stored version is the stored mirror.    *)
CacheCoherent == \A k \in Name : cached[k] => cache[k] = mirror[k]

(* The cached receiver is the stored one or an earlier version of it, and  *)
(* the finalizer stays on until a pass that saw the deletion removes it.   *)
CopyBehind ==
  \A r \in Receiver :
    /\ current[r] => seen[r] = recv[r]
    /\ recv[r].finalizer => Exists(r)
    /\ recv[r].life = "deleting" => recv[r].finalizer
    /\ seen[r].life = "live" /\ seen[r].finalizer => recv[r].finalizer
    /\ seen[r].life \in {"deleting", "gone"}
         => recv[r].life \in {"deleting", "gone"}

(* A pass that serves a receiver serves one that cannot go meanwhile, only *)
(* passes of receivers in the mirror's namespace touch its owners, and the *)
(* version a release holds, from its Update to its delete, has no owner.   *)
InOrder(r, p) ==
  /\ p.pc \in Serving => recv[r].finalizer
  /\ p.pc = "finalizer" /\ p.current => recv[r].life = "live"
  /\ p.pc \in Ending => seen[r].life \in {"deleting", "gone"}
  /\ p.pc = "unfinalize" /\ r \in Remote => mirror[r].state = "absent"
  /\ p.pc \in {"release", "erase", "reread", "adopt"} => r \notin Remote
  /\ p.pc = "remove" => r \in Remote
  /\ p.holds => /\ p.pc = "erase"
                /\ mirror[Shared].owners = {}

PassesInOrder == \A r \in Receiver : InOrder(r, pass[r])

(* Nobody owns a mirror before existing, nobody owns one that is not       *)
(* there, and a mirror in another namespace exists only beside its         *)
(* receiver's finalizer.                                                   *)
MirrorsAccountedFor ==
  /\ mirror[Shared].state = "absent" => mirror[Shared].owners = {}
  /\ \A r \in mirror[Shared].owners : recv[r].life # "new"
  /\ \A r \in Remote : mirror[r].state # "absent" => recv[r].finalizer

=============================================================================
