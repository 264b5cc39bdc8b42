----------------------- MODULE ReceiverOwnershipProofs -----------------------
(***************************************************************************)
(* Proofs about ReceiverOwnership, for any receivers, sources and bounds,  *)
(* and whether passes overlap or not.                                      *)
(***************************************************************************)
EXTENDS ReceiverOwnership, TLAPS

-----------------------------------------------------------------------------
(* What the operators return.                                              *)

(* The empty values are well typed.                                        *)
LEMMA EmptyTypes ==
  /\ IdlePass \in Pass
  /\ NoMirror \in Mirror
  /\ NewRecv \in Recv
BY ReceiverAssumption DEF ReceiverAssumption, IdlePass, Pass, NoMirror, Mirror, NewRecv, Recv,
   Requestor

(* A receiver's mirror has a name, and only receivers of the mirror's      *)
(* namespace share one.                                                    *)
LEMMA Names ==
  /\ Shared \in Name
  /\ \A r \in Remote : r \in Name /\ r \in Receiver /\ r # Shared
  /\ \A r \in Receiver : mirrorNameForReceiver(r) \in Name
  /\ \A r \in Receiver : mirrorNameForReceiver(r) = Shared <=> r \notin Remote
BY ReceiverAssumption DEF ReceiverAssumption, Name, mirrorNameForReceiver

(* A pass that is done with the mirror only reports its phase.             *)
LEMMA FinishType ==
  ASSUME NEW p \in Pass
  PROVE  /\ Finish(p) \in Pass
         /\ Finish(p).pc = "status"
         /\ ~Finish(p).holds
<1>1. 0 \in 0..Retries
  BY ReceiverAssumption DEF ReceiverAssumption
<1>2. /\ "none" \in Requestor
      /\ {} \in SUBSET {"source", "requestor"}
      /\ Nil \in Source \cup {Nil}
  BY DEF Requestor
<1>. QED  BY <1>1, <1>2 DEF Finish, Pass, Serving, Ending

(* What a pass does with a mirror it found.                                *)
LEMMA FoundType ==
  ASSUME NEW r \in Receiver, NEW copy \in Mirror, pass[r] \in Pass
  PROVE  /\ Found(r, copy) \in Pass
         /\ Found(r, copy).pc \in {"status", "patch", "adopt"}
         /\ Found(r, copy).pc = "adopt" => r \notin Remote
         /\ Found(r, copy).holds => pass[r].holds
<1>1. CASE copy.state = "deleting"
  <2>1. [pass[r] EXCEPT !.to = "Pending", !.primary = FALSE] \in Pass
    BY DEF Pass
  <2>. QED  BY <1>1, <2>1, FinishType DEF Found
<1>2. CASE copy.state # "deleting"
  BY <1>2 DEF Found, Pass, Serving, Ending
<1>. QED  BY <1>1, <1>2

(* A write changes one mirror, and leaves a copy current only if it        *)
(* changed nothing.                                                        *)
LEMMA WriteEffect ==
  ASSUME TypeOK, NEW k \in Name, NEW m \in Mirror, Write(k, m)
  PROVE  /\ mirror' \in [Name -> Mirror]
         /\ mirror'[k] = m
         /\ \A j \in Name \ {k} : mirror'[j] = mirror[j]
         /\ cache' = cache
         /\ cached' \in [Name -> BOOLEAN]
         /\ CacheCoherent => CacheCoherent'
<1>1. /\ mirror' = [mirror EXCEPT ![k] = m]
      /\ cached' = [cached EXCEPT ![k] = cached[k] /\ m = mirror[k]]
      /\ cache' = cache
  BY DEF Write
<1>2. mirror \in [Name -> Mirror] /\ cached \in [Name -> BOOLEAN]
  BY DEF TypeOK
<1>3. /\ mirror' \in [Name -> Mirror]
      /\ mirror'[k] = m
      /\ \A j \in Name \ {k} : mirror'[j] = mirror[j]
  BY <1>1, <1>2
<1>4. /\ cached' \in [Name -> BOOLEAN]
      /\ cached'[k] = (cached[k] /\ m = mirror[k])
      /\ \A j \in Name \ {k} : cached'[j] = cached[j]
  BY <1>1, <1>2
<1>5. ASSUME CacheCoherent, NEW j \in Name, cached'[j]
      PROVE  cache'[j] = mirror'[j]
  BY <1>1, <1>3, <1>4, <1>5 DEF CacheCoherent
<1>. QED  BY <1>1, <1>3, <1>4, <1>5 DEF CacheCoherent

(* A pass that lets go of the version it held is otherwise the same.       *)
LEMMA LettingGo ==
  ASSUME NEW p \in Pass
  PROVE  /\ [p EXCEPT !.holds = FALSE] \in Pass
         /\ [p EXCEPT !.holds = FALSE].pc = p.pc
         /\ [p EXCEPT !.holds = FALSE].current = p.current
         /\ ~[p EXCEPT !.holds = FALSE].holds
BY DEF Pass

(* A write takes from the passes on that mirror the version they held,     *)
(* unless it changed nothing.                                              *)
LEMMA OvertakeEffect ==
  ASSUME TypeOK, NEW k \in Name, NEW m \in Mirror
  PROVE  /\ Overtake(k, m) \in [Receiver -> Pass]
         /\ \A q \in Receiver :
              /\ Overtake(k, m)[q].pc = pass[q].pc
              /\ Overtake(k, m)[q].current = pass[q].current
              /\ Overtake(k, m)[q].holds =>
                   pass[q].holds /\ (mirrorNameForReceiver(q) = k => m = mirror[k])
<1>1. pass \in [Receiver -> Pass]
  BY DEF TypeOK
<1>2. ASSUME NEW q \in Receiver
      PROVE  /\ [pass[q] EXCEPT !.holds = FALSE] \in Pass
             /\ [pass[q] EXCEPT !.holds = FALSE].pc = pass[q].pc
             /\ [pass[q] EXCEPT !.holds = FALSE].current = pass[q].current
             /\ ~[pass[q] EXCEPT !.holds = FALSE].holds
  <2>1. pass[q] \in Pass
    BY <1>1
  <2>. QED  BY <2>1, LettingGo
<1>. QED  BY <1>1, <1>2 DEF Overtake

-----------------------------------------------------------------------------
(* The inductive invariant, and what preserves it.                         *)

IInv ==
  /\ TypeOK
  /\ CacheCoherent
  /\ CopyBehind
  /\ PassesInOrder
  /\ MirrorsAccountedFor

(* A pass that ended, or whose receiver it goes on to report, is in order. *)
LEMMA RestInOrder ==
  ASSUME NEW r \in Receiver
  PROVE  /\ InOrder(r, IdlePass)
         /\ \A p \in Pass : recv[r].finalizer => InOrder(r, Finish(p))
<1>1. InOrder(r, IdlePass)
  BY DEF InOrder, IdlePass, Serving, Ending
<1>2. ASSUME NEW p \in Pass, recv[r].finalizer
      PROVE  InOrder(r, Finish(p))
  BY <1>2, FinishType DEF InOrder, Serving, Ending
<1>. QED  BY <1>1, <1>2

(* A pass that moves on by itself, to a step that is in order.             *)
LEMMA PassStep ==
  ASSUME IInv, NEW r \in Receiver, NEW p \in Pass, InOrder(r, p), Goto(r, p),
         UNCHANGED <<mirrorVars, recvVars, worldVars>>, queued' \in SUBSET Receiver
  PROVE  IInv'
<1>1. pass \in [Receiver -> Pass]
  BY DEF IInv, TypeOK
<1>2. /\ pass' \in [Receiver -> Pass]
      /\ pass'[r] = p
      /\ \A q \in Receiver \ {r} : pass'[q] = pass[q]
  BY <1>1 DEF Goto
<1>3. TypeOK'
  BY <1>2 DEF IInv, TypeOK, mirrorVars, recvVars, worldVars
<1>4. CacheCoherent' /\ CopyBehind' /\ MirrorsAccountedFor'
  BY DEF IInv, CacheCoherent, CopyBehind, MirrorsAccountedFor, Exists, mirrorVars, recvVars
<1>5. ASSUME NEW q \in Receiver
      PROVE  InOrder(q, pass[q])'
  <2>1. InOrder(q, pass'[q])
    BY <1>2 DEF IInv, PassesInOrder
  <2>. QED  BY <2>1 DEF InOrder, mirrorVars, recvVars
<1>. QED  BY <1>3, <1>4, <1>5 DEF IInv, PassesInOrder

(* Where the pass that writes mirror k goes on from the write of m.        *)
Fits(q, p, k, m) ==
  /\ p \in Pass
  /\ p.pc \in {"status", "patch", "erase", "relist"}
  /\ p.pc \in {"status", "patch", "erase"} => recv[q].finalizer
  /\ p.pc = "relist" => seen[q].life \in {"deleting", "gone"}
  /\ p.pc = "erase" => q \notin Remote
  /\ p.holds => p.pc = "erase" /\ k = Shared /\ m.owners = {}

(* A write of a mirror: it names nobody as owner who is still to come, and *)
(* keeps a mirror in another namespace only beside its finalizer.          *)
LEMMA WriteStep ==
  ASSUME IInv, NEW k \in Name, NEW m \in Mirror, Write(k, m),
         \A q \in Receiver : \/ pass'[q] = Overtake(k, m)[q]
                             \/ Fits(q, pass'[q], k, m),
         pass' \in [Receiver -> Pass],
         k = Shared => \A q \in m.owners : recv[q].life # "new",
         k = Shared /\ m.state = "absent" => m.owners = {},
         k \in Remote /\ m.state # "absent" => mirror[k].state # "absent"
                                            \/ (recv[k].finalizer /\ pass[k].pc # "unfinalize"),
         UNCHANGED <<recvVars, consumer, origin, queued>>,
         reader' \in {"new", "live", "gone"},
         moves' \in 0..MaxMoves, touches' \in 0..MaxTouches
  PROVE  IInv'
<1>1. /\ mirror' \in [Name -> Mirror]
      /\ mirror'[k] = m
      /\ \A j \in Name \ {k} : mirror'[j] = mirror[j]
      /\ cache' = cache
      /\ cached' \in [Name -> BOOLEAN]
      /\ CacheCoherent'
  BY WriteEffect DEF IInv
<1>2. TypeOK'
  BY <1>1 DEF IInv, TypeOK, recvVars
<1>3. CopyBehind'
  BY DEF IInv, CopyBehind, Exists, recvVars
<1>4. MirrorsAccountedFor'
  <2>1. /\ mirror'[Shared].state = "absent" => mirror'[Shared].owners = {}
        /\ \A q \in mirror'[Shared].owners : recv[q].life # "new"
    BY <1>1, Names DEF IInv, MirrorsAccountedFor
  <2>2. ASSUME NEW q \in Remote, mirror'[q].state # "absent"
        PROVE  recv[q].finalizer
    BY <1>1, <2>2, Names DEF IInv, MirrorsAccountedFor
  <2>. QED  BY <2>1, <2>2 DEF MirrorsAccountedFor, recvVars
<1>5. ASSUME NEW q \in Receiver
      PROVE  InOrder(q, pass[q])'
  <2>1. InOrder(q, pass[q]) /\ pass[q] \in Pass
    BY DEF IInv, PassesInOrder, TypeOK
  <2>2. CASE Fits(q, pass'[q], k, m)
    BY <1>1, <2>2, Names DEF Fits, InOrder, Serving, Ending, recvVars
  <2>3. CASE pass'[q] = Overtake(k, m)[q]
    <3>1. /\ pass'[q].pc = pass[q].pc
          /\ pass'[q].current = pass[q].current
          /\ pass'[q].holds =>
               pass[q].holds /\ (mirrorNameForReceiver(q) = k => m = mirror[k])
      BY <2>3, OvertakeEffect DEF IInv
    <3>2. pass'[q].holds => pass'[q].pc = "erase" /\ mirror'[Shared].owners = {}
      BY <1>1, <2>1, <3>1, Names DEF InOrder
    <3>3. pass'[q].pc = "unfinalize" /\ q \in Remote => mirror'[q].state = "absent"
      BY <1>1, <2>1, <3>1, Names DEF InOrder
    <3>. QED  BY <2>1, <3>1, <3>2, <3>3 DEF InOrder, recvVars
  <2>. QED  BY <2>2, <2>3
<1>. QED  BY <1>1, <1>2, <1>3, <1>4, <1>5 DEF IInv, PassesInOrder

(* A write of a receiver that moves it forward in its life, with the pass  *)
(* for it in order for what it now is.                                     *)
LEMMA RecvStep ==
  ASSUME IInv, NEW r \in Receiver, NEW v \in Recv, NEW p \in Pass,
         WriteRecv(r, v), Goto(r, p),
         UNCHANGED <<mirrorVars, worldVars>>, queued' \in SUBSET Receiver,
         v.finalizer => v.life \in {"live", "deleting"},
         v.life = "deleting" => v.finalizer,
         v.life # "new",
         seen[r].life = "live" /\ seen[r].finalizer => v.finalizer,
         seen[r].life \in {"deleting", "gone"} => v.life \in {"deleting", "gone"},
         r \in Remote /\ mirror[r].state # "absent" => v.finalizer,
         p.pc \in Serving => v.finalizer,
         p.pc = "finalizer" /\ p.current => v.life = "live",
         p.pc = "idle" \/ p.pc = pass[r].pc \/ p.pc = "resolve",
         p.holds => pass[r].holds /\ p.pc = "erase"
  PROVE  IInv'
<1>1. /\ pass \in [Receiver -> Pass] /\ recv \in [Receiver -> Recv]
      /\ current \in [Receiver -> BOOLEAN]
  BY DEF IInv, TypeOK
<1>2. /\ pass' \in [Receiver -> Pass]
      /\ pass'[r] = p
      /\ \A q \in Receiver \ {r} : pass'[q] = pass[q]
  BY <1>1 DEF Goto
<1>3. /\ recv' \in [Receiver -> Recv]
      /\ recv'[r] = v
      /\ \A q \in Receiver \ {r} : recv'[q] = recv[q]
      /\ seen' = seen
  BY <1>1 DEF WriteRecv
<1>4. current' = [current EXCEPT ![r] = current[r] /\ v = recv[r]]
  BY DEF WriteRecv
<1>5. /\ current' \in [Receiver -> BOOLEAN]
      /\ current'[r] = (current[r] /\ v = recv[r])
      /\ \A q \in Receiver \ {r} : current'[q] = current[q]
  BY <1>1, <1>4
<1>6. TypeOK'
  BY <1>2, <1>3, <1>5 DEF IInv, TypeOK, mirrorVars, worldVars
<1>7. CacheCoherent'
  BY DEF IInv, CacheCoherent, mirrorVars
<1>8. CopyBehind'
  BY <1>3, <1>5 DEF IInv, CopyBehind, Exists
<1>9. MirrorsAccountedFor'
  <2>1. mirror[Shared].owners \subseteq Receiver
    BY Names DEF IInv, TypeOK, Mirror
  <2>. QED  BY <1>3, <2>1, Names DEF IInv, MirrorsAccountedFor, mirrorVars
<1>10. ASSUME NEW q \in Receiver
       PROVE  InOrder(q, pass[q])'
  <2>1. InOrder(q, pass[q])
    BY DEF IInv, PassesInOrder
  <2>2. CASE q # r
    BY <1>2, <1>3, <2>1, <2>2 DEF InOrder, mirrorVars
  <2>3. CASE q = r
    BY <1>2, <1>3, <2>1, <2>3 DEF InOrder, Serving, Ending, mirrorVars
  <2>. QED  BY <2>2, <2>3
<1>. QED  BY <1>6, <1>7, <1>8, <1>9, <1>10 DEF IInv, PassesInOrder

-----------------------------------------------------------------------------
(* The steps of a pass.                                                    *)

(* What the invariant says of one receiver and of the shared mirror.       *)
LEMMA Standing ==
  ASSUME IInv, NEW r \in Receiver
  PROVE  /\ pass[r] \in Pass /\ recv[r] \in Recv /\ seen[r] \in Recv
         /\ InOrder(r, pass[r])
         /\ queued \in SUBSET Receiver
         /\ \A k \in Name : mirror[k] \in Mirror /\ cache[k] \in Mirror
BY DEF IInv, TypeOK, PassesInOrder

(* A pass that ends to come back later.                                    *)
LEMMA RequeueStep ==
  ASSUME IInv, NEW r \in Receiver, Requeue(r)
  PROVE  IInv'
BY Standing, EmptyTypes, RestInOrder, PassStep DEF Requeue

(* A pass that moves on without a write.                                   *)
LEMMA ProceedStep ==
  ASSUME IInv, NEW r \in Receiver, NEW p \in Pass, InOrder(r, p), Proceed(r, p)
  PROVE  IInv'
BY Standing, PassStep DEF Proceed

(* A pass that reports after a step that served its receiver.              *)
LEMMA FinishStep ==
  ASSUME IInv, NEW r \in Receiver, pass[r].pc \in Serving,
         Proceed(r, Finish(pass[r]))
  PROVE  IInv'
<1>1. pass[r] \in Pass /\ recv[r].finalizer
  BY Standing DEF InOrder
<1>. QED  BY <1>1, FinishType, RestInOrder, ProceedStep

(* A conflict leaves the pass where it was, or ends it.                    *)
LEMMA ConflictStep ==
  ASSUME IInv, NEW r \in Receiver, Conflict(r)
  PROVE  IInv'
<1>1. CASE pass[r].tries + 1 < Retries
  <2>. DEFINE p == [pass[r] EXCEPT !.tries = pass[r].tries + 1]
  <2>1. pass[r] \in Pass /\ InOrder(r, pass[r])
    BY Standing
  <2>2. pass[r].tries + 1 \in 0..Retries
    BY <1>1, <2>1, ReceiverAssumption DEF Pass, ReceiverAssumption
  <2>3. /\ p \in Pass /\ p.pc = pass[r].pc
        /\ p.current = pass[r].current /\ p.holds = pass[r].holds
    BY <2>1, <2>2 DEF Pass
  <2>4. InOrder(r, p)
    BY <2>1, <2>3 DEF InOrder
  <2>5. Proceed(r, p)
    BY <1>1 DEF Conflict, Proceed
  <2>. QED  BY <2>3, <2>4, <2>5, ProceedStep
<1>2. CASE ~(pass[r].tries + 1 < Retries)
  BY <1>2, RequeueStep DEF Conflict
<1>. QED  BY <1>1, <1>2

(* The cached receiver leads the pass to a step that is in order for the   *)
(* stored one.                                                             *)
LEMMA StartPassStep ==
  ASSUME IInv, NEW r \in Receiver, StartPass(r)
  PROVE  IInv'
<1>. DEFINE begin(pc) == [IdlePass EXCEPT !.pc = pc, !.current = current[r],
                                          !.phase = seen[r].phase]
<1>1. /\ seen[r] \in Recv /\ recv[r] \in Recv /\ current[r] \in BOOLEAN
      /\ queued' \in SUBSET Receiver
  BY Standing DEF IInv, TypeOK, StartPass
<1>2. ASSUME NEW pc \in {"resolve", "finalizer", "sweep"}
      PROVE  /\ begin(pc) \in Pass
             /\ begin(pc).pc = pc
             /\ begin(pc).current = current[r]
             /\ ~begin(pc).holds
  BY <1>1, EmptyTypes DEF IdlePass, Pass, Serving, Ending, Recv
<1>3. /\ current[r] => seen[r] = recv[r]
      /\ seen[r].life = "live" /\ seen[r].finalizer => recv[r].finalizer
  BY DEF IInv, CopyBehind
<1>4. UNCHANGED <<mirrorVars, recvVars, worldVars>>
  BY DEF StartPass
<1>5. CASE seen[r].life = "live" /\ seen[r].finalizer
  <2>1. Goto(r, begin("resolve"))
    BY <1>5 DEF StartPass
  <2>2. InOrder(r, begin("resolve"))
    BY <1>2, <1>3, <1>5 DEF InOrder, Serving, Ending
  <2>. HIDE DEF begin
  <2>. QED  BY <1>1, <1>2, <1>4, <2>1, <2>2, PassStep
<1>6. CASE seen[r].life = "live" /\ ~seen[r].finalizer
  <2>1. Goto(r, begin("finalizer"))
    BY <1>6 DEF StartPass
  <2>2. InOrder(r, begin("finalizer"))
    BY <1>2, <1>3, <1>6 DEF InOrder, Serving, Ending
  <2>. HIDE DEF begin
  <2>. QED  BY <1>1, <1>2, <1>4, <2>1, <2>2, PassStep
<1>7. CASE seen[r].life = "deleting" /\ seen[r].finalizer
  <2>1. Goto(r, begin("sweep"))
    BY <1>7 DEF StartPass
  <2>2. InOrder(r, begin("sweep"))
    BY <1>2, <1>3, <1>7 DEF InOrder, Serving, Ending
  <2>. HIDE DEF begin
  <2>. QED  BY <1>1, <1>2, <1>4, <2>1, <2>2, PassStep
<1>8. CASE ~(seen[r].life = "live") /\ ~(seen[r].life = "deleting" /\ seen[r].finalizer)
  <2>1. Goto(r, IdlePass)
    BY <1>8 DEF StartPass
  <2>. QED  BY <1>1, <1>4, <2>1, EmptyTypes, RestInOrder, PassStep
<1>. QED  BY <1>1, <1>5, <1>6, <1>7, <1>8

(* Every way Resolve takes is open to the receiver.                        *)
LEMMA ResolveStep ==
  ASSUME IInv, NEW r \in Receiver, Resolve(r)
  PROVE  IInv'
<1>1. /\ pass[r] \in Pass /\ InOrder(r, pass[r]) /\ pass[r].pc = "resolve"
      /\ consumer[r] \in BOOLEAN /\ origin \in Source \cup {Nil, Target}
  BY Standing DEF IInv, TypeOK, Resolve
<1>2. ASSUME NEW p \in Pass, ~p.holds, Proceed(r, p),
             p.pc \in {"status", "ensure", IF r \in Remote THEN "remove" ELSE "release"}
      PROVE  IInv'
  <2>1. recv[r].finalizer
    BY <1>1 DEF InOrder, Serving
  <2>2. InOrder(r, p)
    BY <1>2, <2>1 DEF InOrder, Serving, Ending
  <2>. QED  BY <1>2, <2>2, ProceedStep
<1>3. ~pass[r].holds
  BY <1>1 DEF InOrder
<1>. DEFINE release == IF r \in Remote THEN "remove" ELSE "release"
            end(pc, to) == [pass[r] EXCEPT !.pc = pc, !.to = to]
            go == [pass[r] EXCEPT !.pc = "ensure", !.to = "Bound", !.primary = TRUE,
                                  !.source = origin,
                                  !.pod = IF r \in Remote THEN "consumer" ELSE "none"]
<1>4. ASSUME NEW pc \in {"status", release}, NEW to \in {"Pending", "Bound"}
      PROVE  end(pc, to) \in Pass /\ end(pc, to).pc = pc /\ ~end(pc, to).holds
  BY <1>1, <1>3 DEF Pass, Serving, Ending
<1>5. CASE ~consumer[r]
  <2>1. Proceed(r, end(release, "Pending"))
    BY <1>5, ReceiverAssumption
       DEF Resolve, ReceiverAssumption, resolveTargets, resolveSourceNode
  <2>. QED  BY <1>2, <1>4, <2>1
<1>6. CASE consumer[r] /\ origin = Nil
  <2>1. Proceed(r, end("status", "Pending"))
    BY <1>6, ReceiverAssumption
       DEF Resolve, ReceiverAssumption, resolveTargets, resolveSourceNode
  <2>. QED  BY <1>2, <1>4, <2>1
<1>7. CASE consumer[r] /\ origin = Target
  <2>1. Proceed(r, end(release, "Bound"))
    BY <1>7, ReceiverAssumption
       DEF Resolve, ReceiverAssumption, resolveTargets, resolveSourceNode
  <2>. QED  BY <1>2, <1>4, <2>1
<1>8. CASE consumer[r] /\ origin \in Source
  <2>1. Proceed(r, go)
    BY <1>8, ReceiverAssumption
       DEF Resolve, ReceiverAssumption, resolveTargets, resolveSourceNode
  <2>2. "consumer" \in Requestor /\ "none" \in Requestor
    BY DEF Requestor
  <2>3. go \in Pass /\ go.pc = "ensure" /\ ~go.holds
    BY <1>1, <1>3, <1>8, <2>2 DEF Pass, Serving, Ending
  <2>. QED  BY <1>2, <2>1, <2>3
<1>. QED  BY <1>1, <1>5, <1>6, <1>7, <1>8

(* A pass that serves its receiver writes a mirror and goes on.            *)
LEMMA PassWriteStep ==
  ASSUME IInv, NEW r \in Receiver, NEW k \in Name, NEW m \in Mirror, NEW p,
         Write(k, m), pass' = [Overtake(k, m) EXCEPT ![r] = p], Fits(r, p, k, m),
         k = Shared => \A q \in m.owners : recv[q].life # "new",
         k = Shared /\ m.state = "absent" => m.owners = {},
         k \in Remote /\ m.state # "absent" => mirror[k].state # "absent"
                                            \/ (recv[k].finalizer /\ pass[k].pc # "unfinalize"),
         UNCHANGED <<recvVars, worldVars, queued>>
  PROVE  IInv'
<1>1. Overtake(k, m) \in [Receiver -> Pass]
  BY OvertakeEffect DEF IInv
<1>2. /\ pass' \in [Receiver -> Pass]
      /\ \A q \in Receiver : pass'[q] = Overtake(k, m)[q] \/ Fits(q, pass'[q], k, m)
  BY <1>1 DEF Fits
<1>3. UNCHANGED <<recvVars, consumer, origin, queued>>
  BY DEF worldVars
<1>4. /\ reader' \in {"new", "live", "gone"}
      /\ moves' \in 0..MaxMoves /\ touches' \in 0..MaxTouches
  BY DEF IInv, TypeOK, worldVars
<1>. QED  BY <1>2, <1>3, <1>4, WriteStep

(* A pass that only reports after it wrote.                                *)
LEMMA FinishFits ==
  ASSUME IInv, NEW r \in Receiver, NEW k, NEW m, pass[r].pc \in Serving
  PROVE  Fits(r, Finish(pass[r]), k, m)
<1>1. pass[r] \in Pass /\ recv[r].finalizer
  BY Standing DEF InOrder
<1>. QED  BY <1>1, FinishType DEF Fits

(* A delete leaves the owner references alone.                             *)
LEMMA DeleteMirrorStep ==
  ASSUME IInv, NEW r \in Receiver, NEW k \in Name, NEW p, DeleteMirror(r, k, p),
         \A n \in Mirror : Fits(r, p, k, n)
  PROVE  IInv'
<1>. DEFINE m == IF mirror[k].state = "present"
                 THEN [mirror[k] EXCEPT !.state = "deleting"] ELSE mirror[k]
<1>1. mirror[k] \in Mirror
  BY Standing
<1>2. /\ m \in Mirror
      /\ m.owners = mirror[k].owners
      /\ m.state = "absent" <=> mirror[k].state = "absent"
  BY <1>1 DEF Mirror
<1>3. /\ Write(k, m) /\ pass' = [Overtake(k, m) EXCEPT ![r] = p]
      /\ UNCHANGED <<recvVars, worldVars, queued>>
  BY DEF DeleteMirror
<1>4. k = Shared => /\ \A q \in m.owners : recv[q].life # "new"
                    /\ m.state = "absent" => m.owners = {}
  BY <1>2 DEF IInv, MirrorsAccountedFor
<1>5. Fits(r, p, k, m)
  BY <1>2
<1>. HIDE DEF m
<1>. QED  BY <1>2, <1>3, <1>4, <1>5, PassWriteStep

(* removeOwnerRef takes its own reference from the stored list.            *)
LEMMA removeOwnerRefStep ==
  ASSUME IInv, NEW r \in Receiver, removeOwnerRef(r)
  PROVE  IInv'
<1>. DEFINE m == [mirror[Shared] EXCEPT !.owners = mirror[Shared].owners \ {r}]
            p == IF m.owners = {}
                 THEN [pass[r] EXCEPT !.pc = "erase", !.holds = TRUE, !.tries = 0]
                 ELSE Finish(pass[r])
<1>1. /\ pass[r] \in Pass /\ InOrder(r, pass[r]) /\ pass[r].pc = "release"
      /\ Shared \in Name /\ mirror[Shared] \in Mirror
  BY Standing, Names DEF removeOwnerRef
<1>2. recv[r].finalizer /\ r \notin Remote /\ pass[r].pc \in Serving
  BY <1>1 DEF InOrder, Serving
<1>3. CASE Proceed(r, Finish(pass[r]))
  BY <1>2, <1>3, FinishStep
<1>4. CASE Requeue(r) \/ Conflict(r)
  BY <1>4, RequeueStep, ConflictStep
<1>5. CASE /\ Write(Shared, m) /\ pass' = [Overtake(Shared, m) EXCEPT ![r] = p]
           /\ UNCHANGED <<recvVars, worldVars, queued>>
  <2>1. /\ m \in Mirror /\ m.owners \subseteq mirror[Shared].owners
        /\ m.state = mirror[Shared].state
    BY <1>1 DEF Mirror
  <2>2. 0 \in 0..Retries
    BY ReceiverAssumption DEF ReceiverAssumption
  <2>3. Fits(r, p, Shared, m)
    <3>1. CASE m.owners = {}
      <4>1. /\ p \in Pass /\ p.pc = "erase"
        BY <1>1, <2>2, <3>1 DEF Pass, Serving, Ending
      <4>. QED  BY <1>2, <3>1, <4>1 DEF Fits
    <3>2. CASE m.owners # {}
      BY <1>2, <3>2, FinishFits
    <3>. QED  BY <3>1, <3>2
  <2>4. /\ \A q \in m.owners : recv[q].life # "new"
        /\ m.state = "absent" => m.owners = {}
    BY <2>1 DEF IInv, MirrorsAccountedFor
  <2>. HIDE DEF m, p
  <2>. QED  BY <1>1, <1>5, <2>1, <2>3, <2>4, PassWriteStep, Names
<1>. QED  BY <1>3, <1>4, <1>5 DEF removeOwnerRef

(* The delete that follows an emptied list.                                *)
LEMMA EraseStep ==
  ASSUME IInv, NEW r \in Receiver, EraseReleased(r) \/ deleteIfStillEmpty(r)
  PROVE  IInv'
<1>1. /\ pass[r] \in Pass /\ InOrder(r, pass[r])
      /\ pass[r].pc \in {"erase", "reread"} /\ Shared \in Name
  BY Standing, Names DEF EraseReleased, deleteIfStillEmpty
<1>2. recv[r].finalizer /\ r \notin Remote /\ pass[r].pc \in Serving
  BY <1>1 DEF InOrder, Serving
<1>3. CASE DeleteMirror(r, Shared, Finish(pass[r]))
  BY <1>1, <1>2, <1>3, FinishFits, DeleteMirrorStep
<1>4. CASE Proceed(r, Finish(pass[r])) \/ Requeue(r)
  BY <1>2, <1>4, FinishStep, RequeueStep
<1>5. ASSUME NEW n \in 0..Retries, ~pass[r].holds,
             Proceed(r, [pass[r] EXCEPT !.pc = "reread", !.tries = n])
      PROVE  IInv'
  <2>. DEFINE p == [pass[r] EXCEPT !.pc = "reread", !.tries = n]
  <2>1. p \in Pass /\ p.pc = "reread" /\ ~p.holds
    BY <1>1, <1>5 DEF Pass, Serving, Ending
  <2>2. InOrder(r, p)
    BY <1>2, <2>1 DEF InOrder, Serving, Ending
  <2>. QED  BY <1>5, <2>1, <2>2, ProceedStep
<1>6. CASE ~pass[r].holds /\ Proceed(r, [pass[r] EXCEPT !.pc = "reread", !.tries = 1])
  <2>1. 1 \in 0..Retries
    BY ReceiverAssumption DEF ReceiverAssumption
  <2>. QED  BY <1>5, <1>6, <2>1
<1>7. CASE /\ pass[r].pc = "reread" /\ pass[r].tries # Retries
           /\ Proceed(r, [pass[r] EXCEPT !.tries = pass[r].tries + 1])
  <2>1. pass[r].tries + 1 \in 0..Retries
    BY <1>1, <1>7, ReceiverAssumption DEF Pass, ReceiverAssumption
  <2>2. ~pass[r].holds
    BY <1>1, <1>7 DEF InOrder
  <2>3. [pass[r] EXCEPT !.tries = pass[r].tries + 1]
          = [pass[r] EXCEPT !.pc = "reread", !.tries = pass[r].tries + 1]
    BY <1>1, <1>7 DEF Pass
  <2>. QED  BY <1>5, <1>7, <2>1, <2>2, <2>3
<1>8. CASE EraseReleased(r)
  BY <1>3, <1>4, <1>6, <1>8 DEF EraseReleased
<1>9. CASE deleteIfStillEmpty(r)
  BY <1>3, <1>4, <1>7, <1>9 DEF deleteIfStillEmpty
<1>. QED  BY <1>8, <1>9

(* A mirror in another namespace is deleted by name.                       *)
LEMMA RemoveRemoteStep ==
  ASSUME IInv, NEW r \in Receiver, RemoveRemote(r)
  PROVE  IInv'
<1>1. InOrder(r, pass[r]) /\ pass[r].pc = "remove"
  BY Standing DEF RemoveRemote
<1>2. r \in Remote /\ pass[r].pc \in Serving
  BY <1>1 DEF InOrder, Serving
<1>3. CASE DeleteMirror(r, r, Finish(pass[r]))
  BY <1>2, <1>3, Names, FinishFits, DeleteMirrorStep
<1>4. CASE Proceed(r, Finish(pass[r]))
  BY <1>2, <1>4, FinishStep
<1>. QED  BY <1>3, <1>4 DEF RemoveRemote

(* ensureMirror creates a mirror for a receiver that has the finalizer, or *)
(* goes on with the mirror it found.                                       *)
LEMMA EnsureStep ==
  ASSUME IInv, NEW r \in Receiver, ensureMirror(r) \/ AlreadyExists(r)
  PROVE  IInv'
<1>. DEFINE k == mirrorNameForReceiver(r)
            m == [state |-> "present",
                  owners |-> IF r \in Remote THEN {} ELSE {r},
                  requestor |-> pass[r].pod,
                  source |-> pass[r].source]
<1>1. /\ pass[r] \in Pass /\ InOrder(r, pass[r])
      /\ pass[r].pc \in {"ensure", "exists"}
      /\ k \in Name /\ cache[k] \in Mirror
  BY Standing, Names DEF ensureMirror, AlreadyExists
<1>2. recv[r].finalizer /\ pass[r].pc \in Serving /\ ~pass[r].holds
  BY <1>1 DEF InOrder, Serving
<1>3. CASE Proceed(r, Found(r, cache[k]))
  <2>1. /\ Found(r, cache[k]) \in Pass
        /\ Found(r, cache[k]).pc \in {"status", "patch", "adopt"}
        /\ Found(r, cache[k]).pc = "adopt" => r \notin Remote
        /\ ~Found(r, cache[k]).holds
    BY <1>1, <1>2, FoundType
  <2>2. InOrder(r, Found(r, cache[k]))
    BY <1>2, <2>1 DEF InOrder, Serving, Ending
  <2>. QED  BY <1>3, <2>1, <2>2, ProceedStep
<1>4. CASE Requeue(r)
  BY <1>4, RequeueStep
<1>5. CASE Proceed(r, [pass[r] EXCEPT !.pc = "exists"])
  <2>. DEFINE p == [pass[r] EXCEPT !.pc = "exists"]
  <2>1. p \in Pass /\ p.pc = "exists" /\ ~p.holds
    BY <1>1, <1>2 DEF Pass, Serving, Ending
  <2>2. InOrder(r, p)
    BY <1>2, <2>1 DEF InOrder, Serving, Ending
  <2>. QED  BY <1>5, <2>1, <2>2, ProceedStep
<1>6. CASE /\ Write(k, m) /\ pass' = [Overtake(k, m) EXCEPT ![r] = Finish(pass[r])]
           /\ UNCHANGED <<recvVars, worldVars, queued>>
  <2>1. m \in Mirror /\ m.state = "present"
    BY <1>1 DEF Pass, Mirror
  <2>2. k = Shared => \A q \in m.owners : recv[q].life # "new"
    BY <1>2, Names DEF IInv, CopyBehind, Exists
  <2>3. k \in Remote => recv[k].finalizer /\ pass[k].pc # "unfinalize"
    BY <1>1, <1>2, ReceiverAssumption DEF mirrorNameForReceiver, ReceiverAssumption
  <2>4. Fits(r, Finish(pass[r]), k, m)
    BY <1>2, FinishFits
  <2>. HIDE DEF k, m
  <2>. QED  BY <1>1, <1>6, <2>1, <2>2, <2>3, <2>4, PassWriteStep
<1>7. CASE ensureMirror(r)
  BY <1>3, <1>5, <1>6, <1>7 DEF ensureMirror
<1>8. CASE AlreadyExists(r)
  BY <1>3, <1>4, <1>8 DEF AlreadyExists
<1>. QED  BY <1>7, <1>8

(* ensureOwnerRef adds a receiver that exists to the stored list.          *)
LEMMA ensureOwnerRefStep ==
  ASSUME IInv, NEW r \in Receiver, ensureOwnerRef(r)
  PROVE  IInv'
<1>. DEFINE m == [mirror[Shared] EXCEPT !.owners = mirror[Shared].owners \cup {r}]
            p == [pass[r] EXCEPT !.pc = "patch", !.tries = 0]
<1>1. /\ pass[r] \in Pass /\ InOrder(r, pass[r]) /\ pass[r].pc = "adopt"
      /\ Shared \in Name /\ mirror[Shared] \in Mirror
  BY Standing, Names DEF ensureOwnerRef
<1>2. recv[r].finalizer /\ ~pass[r].holds
  BY <1>1 DEF InOrder, Serving
<1>3. p \in Pass /\ p.pc = "patch" /\ ~p.holds
  <2>1. 0 \in 0..Retries
    BY ReceiverAssumption DEF ReceiverAssumption
  <2>. QED  BY <1>1, <1>2, <2>1 DEF Pass, Serving, Ending
<1>4. CASE Requeue(r) \/ Conflict(r)
  BY <1>4, RequeueStep, ConflictStep
<1>5. CASE Proceed(r, p)
  <2>1. InOrder(r, p)
    BY <1>2, <1>3 DEF InOrder, Serving, Ending
  <2>. HIDE DEF p
  <2>. QED  BY <1>3, <1>5, <2>1, ProceedStep
<1>6. CASE /\ Write(Shared, m) /\ pass' = [Overtake(Shared, m) EXCEPT ![r] = p]
           /\ UNCHANGED <<recvVars, worldVars, queued>>
           /\ cache[Shared].state # "absent" /\ cached[Shared]
  <2>1. /\ m \in Mirror /\ m.owners = mirror[Shared].owners \cup {r}
        /\ m.state # "absent"
    BY <1>1, <1>6 DEF Mirror, IInv, CacheCoherent
  <2>2. Fits(r, p, Shared, m)
    BY <1>2, <1>3 DEF Fits
  <2>3. \A q \in m.owners : recv[q].life # "new"
    BY <1>2, <2>1 DEF IInv, MirrorsAccountedFor, CopyBehind, Exists
  <2>. HIDE DEF m, p
  <2>. QED  BY <1>1, <1>6, <2>1, <2>2, <2>3, PassWriteStep, Names
<1>. QED  BY <1>4, <1>5, <1>6 DEF ensureOwnerRef

(* The patch leaves owners and state alone.                                *)
LEMMA patchMirrorIfDriftedStep ==
  ASSUME IInv, NEW r \in Receiver, patchMirrorIfDrifted(r)
  PROVE  IInv'
<1>. DEFINE k == mirrorNameForReceiver(r)
            m == [mirror[k] EXCEPT
                    !.source = IF "source" \in pass[r].drift THEN pass[r].source
                               ELSE mirror[k].source,
                    !.requestor = IF "requestor" \in pass[r].drift THEN pass[r].pod
                                  ELSE mirror[k].requestor]
<1>1. /\ pass[r] \in Pass /\ InOrder(r, pass[r]) /\ pass[r].pc = "patch"
      /\ k \in Name /\ mirror[k] \in Mirror
  BY Standing, Names DEF patchMirrorIfDrifted
<1>2. pass[r].pc \in Serving
  BY <1>1 DEF Serving
<1>3. CASE Proceed(r, Finish(pass[r])) \/ Requeue(r)
  BY <1>2, <1>3, FinishStep, RequeueStep
<1>4. CASE /\ Write(k, m) /\ pass' = [Overtake(k, m) EXCEPT ![r] = Finish(pass[r])]
           /\ UNCHANGED <<recvVars, worldVars, queued>>
  <2>1. /\ m \in Mirror
        /\ m.owners = mirror[k].owners /\ m.state = mirror[k].state
    BY <1>1 DEF Mirror, Pass
  <2>2. Fits(r, Finish(pass[r]), k, m)
    BY <1>2, FinishFits
  <2>3. k = Shared => /\ \A q \in m.owners : recv[q].life # "new"
                      /\ m.state = "absent" => m.owners = {}
    BY <2>1 DEF IInv, MirrorsAccountedFor
  <2>. HIDE DEF k, m
  <2>. QED  BY <1>1, <1>4, <2>1, <2>2, <2>3, PassWriteStep
<1>. QED  BY <1>3, <1>4 DEF patchMirrorIfDrifted

(* The status update changes the phase of a receiver that has its          *)
(* finalizer.                                                              *)
LEMMA markStatusStep ==
  ASSUME IInv, NEW r \in Receiver, markStatus(r)
  PROVE  IInv'
<1>. DEFINE v == [recv[r] EXCEPT !.phase = pass[r].to]
<1>1. /\ pass[r] \in Pass /\ recv[r] \in Recv /\ queued \in SUBSET Receiver
      /\ InOrder(r, pass[r]) /\ pass[r].pc = "status"
  BY Standing DEF markStatus
<1>2. recv[r].finalizer
  BY <1>1 DEF InOrder, Serving
<1>3. CASE Requeue(r)
  BY <1>3, RequeueStep
<1>4. CASE /\ WriteRecv(r, v) /\ Goto(r, IdlePass)
           /\ queued' \in SUBSET Receiver /\ UNCHANGED <<mirrorVars, worldVars>>
  <2>1. /\ v \in Recv /\ v.finalizer = recv[r].finalizer /\ v.life = recv[r].life
    BY <1>1 DEF Recv, Pass
  <2>2. /\ v.life \in {"live", "deleting"}
        /\ seen[r].life \in {"deleting", "gone"} => v.life \in {"deleting", "gone"}
    BY <1>2, <2>1 DEF IInv, CopyBehind, Exists
  <2>3. IdlePass \in Pass /\ IdlePass.pc = "idle" /\ ~IdlePass.holds
        /\ ~(IdlePass.pc \in Serving)
    BY EmptyTypes DEF IdlePass, Serving
  <2>. HIDE DEF v
  <2>. QED  BY <1>2, <1>4, <2>1, <2>2, <2>3, RecvStep
<1>5. queued \cup {r} \in SUBSET Receiver
  BY <1>1
<1>. QED  BY <1>1, <1>3, <1>4, <1>5 DEF markStatus

(* The finalizer goes on a receiver the pass holds in its stored version.  *)
LEMMA AddFinalizerStep ==
  ASSUME IInv, NEW r \in Receiver, AddFinalizer(r)
  PROVE  IInv'
<1>. DEFINE v == [recv[r] EXCEPT !.finalizer = TRUE]
            p == [pass[r] EXCEPT !.pc = "resolve"]
<1>1. /\ pass[r] \in Pass /\ recv[r] \in Recv /\ queued \in SUBSET Receiver
      /\ InOrder(r, pass[r]) /\ pass[r].pc = "finalizer"
  BY Standing DEF AddFinalizer
<1>2. CASE ~pass[r].current
  BY <1>2, RequeueStep DEF AddFinalizer
<1>3. CASE pass[r].current
  <2>1. recv[r].life = "live"
    BY <1>1, <1>3 DEF InOrder
  <2>2. /\ WriteRecv(r, v) /\ Goto(r, p)
        /\ queued' \in SUBSET Receiver /\ UNCHANGED <<mirrorVars, worldVars>>
    BY <1>1, <1>3 DEF AddFinalizer
  <2>3. v \in Recv /\ v.finalizer /\ v.life = "live"
    BY <1>1, <2>1 DEF Recv
  <2>4. seen[r].life \notin {"deleting", "gone"}
    BY <2>1 DEF IInv, CopyBehind
  <2>5. p \in Pass /\ p.pc = "resolve" /\ ~p.holds
    BY <1>1 DEF Pass, Serving, Ending, InOrder
  <2>. HIDE DEF v, p
  <2>. QED  BY <2>2, <2>3, <2>4, <2>5, RecvStep
<1>. QED  BY <1>2, <1>3

(* The way a deleted receiver goes: its mirror is deleted, found gone in a *)
(* live list, and only then does the finalizer come off.                   *)
LEMMA DeletionStep ==
  ASSUME IInv, NEW r \in Receiver,
         handleDeletion(r) \/ ListRemaining(r) \/ RemoveFinalizer(r)
  PROVE  IInv'
<1>1. /\ pass[r] \in Pass /\ recv[r] \in Recv /\ queued \in SUBSET Receiver
      /\ InOrder(r, pass[r]) /\ pass[r].pc \in {"sweep", "relist", "unfinalize"}
  BY Standing DEF handleDeletion, ListRemaining, RemoveFinalizer
<1>2. seen[r].life \in {"deleting", "gone"} /\ ~pass[r].holds
  BY <1>1 DEF InOrder, Ending
<1>3. CASE handleDeletion(r)
  <2>. DEFINE p == [pass[r] EXCEPT !.pc = "relist"]
  <2>1. p \in Pass /\ p.pc = "relist" /\ ~p.holds
    BY <1>1, <1>2 DEF Pass, Serving, Ending
  <2>2. InOrder(r, p)
    BY <1>2, <2>1 DEF InOrder, Serving, Ending
  <2>3. \A m \in Mirror : Fits(r, p, r, m)
    BY <1>2, <2>1 DEF Fits
  <2>4. CASE r \in Remote
    <3>1. DeleteMirror(r, r, p)
      BY <1>3, <2>4 DEF handleDeletion
    <3>. HIDE DEF p
    <3>. QED  BY <2>3, <2>4, <3>1, Names, DeleteMirrorStep
  <2>5. CASE r \notin Remote
    <3>1. Proceed(r, p)
      BY <1>3, <2>5 DEF handleDeletion
    <3>. HIDE DEF p
    <3>. QED  BY <2>1, <2>2, <3>1, ProceedStep
  <2>. QED  BY <2>4, <2>5
<1>4. CASE ListRemaining(r)
  <2>. DEFINE p == [pass[r] EXCEPT !.pc = "unfinalize"]
  <2>1. p \in Pass /\ p.pc = "unfinalize" /\ ~p.holds
    BY <1>1, <1>2 DEF Pass, Serving, Ending
  <2>2. CASE r \in Remote /\ mirror[r].state # "absent"
    BY <1>4, <2>2, RequeueStep DEF ListRemaining
  <2>3. CASE ~(r \in Remote /\ mirror[r].state # "absent")
    <3>1. InOrder(r, p)
      BY <1>2, <2>1, <2>3 DEF InOrder, Serving, Ending
    <3>2. Proceed(r, p)
      BY <1>4, <2>3 DEF ListRemaining
    <3>. HIDE DEF p
    <3>. QED  BY <2>1, <3>1, <3>2, ProceedStep
  <2>. QED  BY <2>2, <2>3
<1>5. CASE RemoveFinalizer(r)
  <2>. DEFINE v == [recv[r] EXCEPT !.life = "gone", !.finalizer = FALSE]
  <2>1. /\ Goto(r, IdlePass) /\ UNCHANGED <<mirrorVars, worldVars>>
        /\ queued' \in SUBSET Receiver
    BY <1>1, <1>5 DEF RemoveFinalizer
  <2>2. IdlePass \in Pass /\ IdlePass.pc = "idle" /\ ~IdlePass.holds
        /\ ~(IdlePass.pc \in Serving)
    BY EmptyTypes DEF IdlePass, Serving
  <2>3. CASE pass[r].current
    <3>1. WriteRecv(r, v)
      BY <1>5, <2>3 DEF RemoveFinalizer
    <3>2. v \in Recv /\ v.life = "gone" /\ ~v.finalizer
      BY <1>1 DEF Recv
    <3>3. ~(r \in Remote /\ mirror[r].state # "absent")
      BY <1>1, <1>5 DEF InOrder, RemoveFinalizer
    <3>. HIDE DEF v
    <3>. QED  BY <1>2, <2>1, <2>2, <3>1, <3>2, <3>3, RecvStep
  <2>4. CASE ~pass[r].current
    <3>1. UNCHANGED <<mirrorVars, recvVars, worldVars>>
      BY <1>5, <2>4 DEF RemoveFinalizer
    <3>. QED  BY <2>1, <2>2, <3>1, RestInOrder, PassStep
  <2>. QED  BY <2>3, <2>4
<1>. QED  BY <1>3, <1>4, <1>5

(* Every step of a pass preserves the invariant.                           *)
LEMMA ReconcileStep ==
  ASSUME IInv, NEW r \in Receiver, Reconcile(r)
  PROVE  IInv'
BY StartPassStep, AddFinalizerStep, ResolveStep, removeOwnerRefStep, EraseStep,
   RemoveRemoteStep, EnsureStep, ensureOwnerRefStep, patchMirrorIfDriftedStep,
   markStatusStep, DeletionStep
   DEF Reconcile

-----------------------------------------------------------------------------
(* The steps of the others.                                                *)

(* A write that is none of the passes'.                                    *)
LEMMA OtherWriteStep ==
  ASSUME IInv, NEW k \in Name, NEW m \in Mirror, WriteOther(k, m),
         k = Shared => \A q \in m.owners : recv[q].life # "new",
         k = Shared /\ m.state = "absent" => m.owners = {},
         m.state # "absent" => mirror[k].state # "absent" \/ k = Shared,
         reader' \in {"new", "live", "gone"}, UNCHANGED <<moves, touches>>
  PROVE  IInv'
<1>1. Overtake(k, m) \in [Receiver -> Pass]
  BY OvertakeEffect DEF IInv
<1>2. /\ Write(k, m) /\ pass' = Overtake(k, m)
      /\ UNCHANGED <<recvVars, consumer, origin, queued>>
  BY DEF WriteOther
<1>3. moves' \in 0..MaxMoves /\ touches' \in 0..MaxTouches
  BY DEF IInv, TypeOK
<1>4. k \in Remote /\ m.state # "absent" => mirror[k].state # "absent"
  BY Names
<1>. QED  BY <1>1, <1>2, <1>3, <1>4, WriteStep

(* Agents, gateways and collectors preserve the invariant.                 *)
LEMMA OthersStep ==
  ASSUME IInv, Others
  PROVE  IInv'
<1>1. /\ reader \in {"new", "live", "gone"} /\ Shared \in Name
      /\ \A k \in Name : mirror[k] \in Mirror
      /\ \A q \in mirror[Shared].owners : recv[q].life # "new"
  BY Names DEF IInv, TypeOK, MirrorsAccountedFor
<1>2. ASSUME NEW n \in Source, Materialize(n)
      PROVE  IInv'
  <2>. DEFINE m == [state |-> "present", owners |-> {}, requestor |-> "reader",
                    source |-> n]
  <2>1. m \in Mirror /\ m.owners = {} /\ m.state = "present"
    BY DEF Mirror, Requestor
  <2>2. WriteOther(Shared, m) /\ reader' = "live" /\ UNCHANGED <<moves, touches>>
    BY <1>2 DEF Materialize
  <2>. HIDE DEF m
  <2>. QED  BY <1>1, <2>1, <2>2, OtherWriteStep
<1>3. ASSUME NEW k \in Name, FinalizersDropped(k)
      PROVE  IInv'
  <2>1. WriteOther(k, NoMirror) /\ UNCHANGED <<reader, moves, touches>>
    BY <1>3 DEF FinalizersDropped
  <2>2. NoMirror \in Mirror /\ NoMirror.owners = {} /\ NoMirror.state = "absent"
    BY EmptyTypes DEF NoMirror
  <2>. QED  BY <1>1, <2>1, <2>2, OtherWriteStep
<1>4. ASSUME NEW k \in Name, CollectUnclaimed(k)
      PROVE  IInv'
  <2>. DEFINE m == [mirror[k] EXCEPT !.state = "deleting"]
  <2>1. /\ m \in Mirror /\ m.owners = mirror[k].owners /\ m.state = "deleting"
        /\ mirror[k].state = "present"
    BY <1>1, <1>4 DEF Mirror, CollectUnclaimed
  <2>2. WriteOther(k, m) /\ UNCHANGED <<reader, moves, touches>>
    BY <1>4 DEF CollectUnclaimed
  <2>. HIDE DEF m
  <2>. QED  BY <1>1, <2>1, <2>2, OtherWriteStep
<1>5. ASSUME CollectDependents
      PROVE  IInv'
  <2>. DEFINE m == [mirror[Shared] EXCEPT !.owners = Solid]
              n == [mirror[Shared] EXCEPT !.state = "deleting"]
  <2>1. mirror[Shared] \in Mirror
    BY <1>1
  <2>2. /\ m \in Mirror /\ m.owners \subseteq mirror[Shared].owners
        /\ m.state = mirror[Shared].state /\ n.state = "deleting"
        /\ n \in Mirror /\ n.owners = mirror[Shared].owners
        /\ mirror[Shared].state # "absent"
    BY <1>5, <2>1 DEF Mirror, CollectDependents, Dangling, Solid
  <2>3. WriteOther(Shared, m) \/ WriteOther(Shared, n)
    BY <1>5 DEF CollectDependents
  <2>4. UNCHANGED <<reader, moves, touches>>
    BY <1>5 DEF CollectDependents
  <2>. HIDE DEF m, n
  <2>. QED  BY <1>1, <2>2, <2>3, <2>4, OtherWriteStep
<1>6. ASSUME NEW k \in Name, GatewayStatusWrite(k)
      PROVE  IInv'
  <2>1. /\ pass \in [Receiver -> Pass] /\ cached \in [Name -> BOOLEAN]
        /\ touches \in 0..MaxTouches
    BY DEF IInv, TypeOK
  <2>2. ASSUME NEW q \in Receiver
        PROVE  /\ pass'[q] \in Pass
               /\ pass'[q].pc = pass[q].pc /\ pass'[q].current = pass[q].current
               /\ pass'[q].holds => pass[q].holds
    <3>1. pass[q] \in Pass
      BY <2>1
    <3>2. pass'[q] = pass[q] \/ pass'[q] = [pass[q] EXCEPT !.holds = FALSE]
      BY <1>6 DEF GatewayStatusWrite
    <3>. QED  BY <3>1, <3>2, LettingGo
  <2>3. pass' \in [Receiver -> Pass]
    <3>1. pass' = [q \in Receiver |-> pass'[q]]
      BY <1>6 DEF GatewayStatusWrite
    <3>. QED  BY <2>2, <3>1
  <2>4. /\ cached' \in [Name -> BOOLEAN]
        /\ \A j \in Name : cached'[j] => cached[j]
    BY <1>6, <2>1 DEF GatewayStatusWrite
  <2>5. touches' \in 0..MaxTouches
    BY <1>6, <2>1, ReceiverAssumption DEF GatewayStatusWrite, ReceiverAssumption
  <2>6. UNCHANGED <<mirror, cache, recvVars, consumer, reader, origin, queued, moves>>
    BY <1>6 DEF GatewayStatusWrite
  <2>7. TypeOK'
    BY <2>3, <2>4, <2>5, <2>6 DEF IInv, TypeOK, recvVars
  <2>8. CacheCoherent' /\ CopyBehind' /\ MirrorsAccountedFor'
    BY <2>4, <2>6 DEF IInv, CacheCoherent, CopyBehind, MirrorsAccountedFor, Exists, recvVars
  <2>9. ASSUME NEW q \in Receiver
        PROVE  InOrder(q, pass[q])'
    <3>1. InOrder(q, pass[q])
      BY DEF IInv, PassesInOrder
    <3>. QED  BY <2>2, <2>6, <3>1 DEF InOrder, recvVars
  <2>. QED  BY <2>7, <2>8, <2>9 DEF IInv, PassesInOrder
<1>. QED  BY <1>2, <1>3, <1>4, <1>5, <1>6 DEF Others

(* The informer's deliveries preserve the invariant.                       *)
LEMMA InformerStep ==
  ASSUME IInv, Informer
  PROVE  IInv'
<1>1. /\ mirror \in [Name -> Mirror] /\ cache \in [Name -> Mirror]
      /\ cached \in [Name -> BOOLEAN] /\ recv \in [Receiver -> Recv]
      /\ seen \in [Receiver -> Recv] /\ current \in [Receiver -> BOOLEAN]
      /\ queued \in SUBSET Receiver
  BY DEF IInv, TypeOK
<1>2. ASSUME NEW r \in Receiver, ReceiverEvent(r)
      PROVE  IInv'
  <2>1. /\ seen' \in [Receiver -> Recv] /\ current' \in [Receiver -> BOOLEAN]
        /\ seen'[r] = recv[r]
        /\ \A q \in Receiver \ {r} : seen'[q] = seen[q] /\ current'[q] = current[q]
        /\ queued' \in SUBSET Receiver
    BY <1>1, <1>2 DEF ReceiverEvent
  <2>2. UNCHANGED <<mirrorVars, recv, worldVars, pass>>
    BY <1>2 DEF ReceiverEvent
  <2>3. TypeOK'
    BY <2>1, <2>2 DEF IInv, TypeOK, mirrorVars, worldVars
  <2>4. CacheCoherent' /\ MirrorsAccountedFor'
    BY <2>2 DEF IInv, CacheCoherent, MirrorsAccountedFor, mirrorVars
  <2>5. CopyBehind'
    BY <2>1, <2>2 DEF IInv, CopyBehind, Exists
  <2>6. ASSUME NEW q \in Receiver
        PROVE  InOrder(q, pass[q])'
    <3>1. InOrder(q, pass[q])
      BY DEF IInv, PassesInOrder
    <3>2. seen[q].life \in {"deleting", "gone"} => seen'[q].life \in {"deleting", "gone"}
      BY <2>1 DEF IInv, CopyBehind
    <3>. QED  BY <2>2, <3>1, <3>2 DEF InOrder, mirrorVars
  <2>. QED  BY <2>3, <2>4, <2>5, <2>6 DEF IInv, PassesInOrder
<1>3. ASSUME NEW k \in Name, MirrorEvent(k)
      PROVE  IInv'
  <2>1. /\ cache' \in [Name -> Mirror] /\ cached' \in [Name -> BOOLEAN]
        /\ cache'[k] = mirror[k]
        /\ \A j \in Name \ {k} : cache'[j] = cache[j] /\ cached'[j] = cached[j]
    BY <1>1, <1>3 DEF MirrorEvent
  <2>2. queued' \in SUBSET Receiver
    BY <1>1, <1>3 DEF MirrorEvent, Listed
  <2>3. UNCHANGED <<mirror, recvVars, worldVars, pass>>
    BY <1>3 DEF MirrorEvent
  <2>4. TypeOK'
    BY <2>1, <2>2, <2>3 DEF IInv, TypeOK, recvVars, worldVars
  <2>5. CacheCoherent'
    BY <2>1, <2>3 DEF IInv, CacheCoherent
  <2>6. CopyBehind' /\ MirrorsAccountedFor'
    BY <2>3 DEF IInv, CopyBehind, MirrorsAccountedFor, Exists, recvVars
  <2>7. PassesInOrder'
    BY <2>3 DEF IInv, PassesInOrder, InOrder, recvVars
  <2>. QED  BY <2>4, <2>5, <2>6, <2>7 DEF IInv
<1>. QED  BY <1>2, <1>3 DEF Informer

(* A consumer that comes, goes or is replaced changes, of what the         *)
(* invariant speaks of, nothing but requestors.                            *)
LEMMA ConsumerStep ==
  ASSUME IInv, NEW r \in Receiver, NEW on \in BOOLEAN, ConsumerTurns(r, on)
  PROVE  IInv'
<1>1. /\ mirror \in [Name -> Mirror] /\ cache \in [Name -> Mirror]
      /\ pass \in [Receiver -> Pass] /\ consumer \in [Receiver -> BOOLEAN]
      /\ queued \in SUBSET Receiver /\ moves \in 0..MaxMoves
  BY DEF IInv, TypeOK
<1>2. /\ consumer' \in [Receiver -> BOOLEAN] /\ moves' \in 0..MaxMoves
      /\ queued' \in SUBSET Receiver
  BY <1>1, ReceiverAssumption DEF ConsumerTurns, Listed, ReceiverAssumption
<1>3. UNCHANGED <<cached, recvVars, reader, origin, touches>>
  BY DEF ConsumerTurns
<1>4. ASSUME NEW q \in Requestor
      PROVE  Outdated(q) \in Requestor
  BY DEF Requestor, Outdated
<1>5. CASE r \notin Remote
  <2>1. UNCHANGED <<mirror, cache, pass>>
    BY <1>5 DEF ConsumerTurns
  <2>2. TypeOK'
    BY <1>2, <1>3, <2>1 DEF IInv, TypeOK, recvVars
  <2>. QED  BY <1>3, <2>1, <2>2 DEF IInv, CacheCoherent, CopyBehind, PassesInOrder,
       InOrder, MirrorsAccountedFor, Exists, recvVars
<1>6. CASE r \in Remote
  <2>. DEFINE m == [mirror[r] EXCEPT !.requestor = Outdated(mirror[r].requestor)]
              c == [cache[r] EXCEPT !.requestor = Outdated(cache[r].requestor)]
              p == [pass[r] EXCEPT !.pod = Outdated(pass[r].pod)]
  <2>1. r \in Name /\ r # Shared
    BY <1>6, Names
  <2>2. /\ mirror' = [mirror EXCEPT ![r] = m]
        /\ cache' = [cache EXCEPT ![r] = c]
        /\ pass' = [pass EXCEPT ![r] = p]
    BY <1>6 DEF ConsumerTurns, Goto
  <2>3. mirror[r] \in Mirror /\ cache[r] \in Mirror /\ pass[r] \in Pass
    BY <1>1, <2>1
  <2>4. /\ m \in Mirror /\ m.state = mirror[r].state /\ c \in Mirror
        /\ cache[r] = mirror[r] => c = m
    BY <1>4, <2>3 DEF Mirror
  <2>5. /\ p \in Pass /\ p.pc = pass[r].pc /\ p.current = pass[r].current
        /\ p.holds = pass[r].holds
    BY <1>4, <2>3 DEF Pass
  <2>. HIDE DEF m, c, p
  <2>6. /\ mirror' \in [Name -> Mirror] /\ mirror'[r] = m
        /\ \A j \in Name \ {r} : mirror'[j] = mirror[j]
        /\ cache' \in [Name -> Mirror] /\ cache'[r] = c
        /\ \A j \in Name \ {r} : cache'[j] = cache[j]
        /\ pass' \in [Receiver -> Pass] /\ pass'[r] = p
        /\ \A q \in Receiver \ {r} : pass'[q] = pass[q]
    BY <1>1, <2>1, <2>2, <2>4, <2>5
  <2>7. TypeOK'
    BY <1>2, <1>3, <2>6 DEF IInv, TypeOK, recvVars
  <2>8. CacheCoherent'
    BY <1>3, <2>1, <2>4, <2>6 DEF IInv, CacheCoherent
  <2>9. CopyBehind'
    BY <1>3 DEF IInv, CopyBehind, Exists, recvVars
  <2>10. MirrorsAccountedFor'
    BY <1>3, <2>1, <2>4, <2>6, Names DEF IInv, MirrorsAccountedFor, recvVars
  <2>11. ASSUME NEW q \in Receiver
         PROVE  InOrder(q, pass[q])'
    <3>1. InOrder(q, pass[q])
      BY DEF IInv, PassesInOrder
    <3>2. /\ pass'[q].pc = pass[q].pc /\ pass'[q].current = pass[q].current
          /\ pass'[q].holds = pass[q].holds
      BY <2>5, <2>6
    <3>3. /\ mirror'[Shared] = mirror[Shared]
          /\ q \in Remote => mirror'[q].state = mirror[q].state
      BY <2>1, <2>4, <2>6, Names
    <3>. QED  BY <1>3, <3>1, <3>2, <3>3 DEF InOrder, recvVars
  <2>. QED  BY <2>7, <2>8, <2>9, <2>10, <2>11 DEF IInv, PassesInOrder
<1>. QED  BY <1>5, <1>6

(* What users, pods and origins do preserves the invariant.                *)
LEMMA WorldStep ==
  ASSUME IInv, World
  PROVE  IInv'
<1>1. ASSUME NEW r \in Receiver, CreateReceiver(r)
      PROVE  IInv'
  <2>. DEFINE v == [recv[r] EXCEPT !.life = "live"]
  <2>1. /\ pass[r] \in Pass /\ recv[r] \in Recv /\ queued \in SUBSET Receiver
        /\ InOrder(r, pass[r]) /\ recv[r].life = "new"
        /\ pass = [pass EXCEPT ![r] = pass[r]]
    BY <1>1, Standing DEF CreateReceiver, IInv, TypeOK
  <2>2. v \in Recv /\ v.life = "live" /\ v.finalizer = recv[r].finalizer
    BY <2>1 DEF Recv
  <2>3. /\ WriteRecv(r, v) /\ Goto(r, pass[r])
        /\ queued' \in SUBSET Receiver /\ UNCHANGED <<mirrorVars, worldVars>>
    BY <1>1, <2>1 DEF CreateReceiver, Goto
  <2>4. /\ seen[r].life \notin {"deleting", "gone"}
        /\ seen[r].life = "live" /\ seen[r].finalizer => v.finalizer
        /\ r \in Remote /\ mirror[r].state # "absent" => v.finalizer
    BY <2>1, <2>2 DEF IInv, CopyBehind, MirrorsAccountedFor
  <2>5. /\ pass[r].pc \in Serving => v.finalizer
        /\ pass[r].holds => pass[r].pc = "erase"
    BY <2>1, <2>2 DEF InOrder
  <2>. HIDE DEF v
  <2>. QED  BY <2>1, <2>2, <2>3, <2>4, <2>5, RecvStep
<1>2. ASSUME NEW r \in Receiver, DeleteReceiver(r)
      PROVE  IInv'
  <2>. DEFINE v == [recv[r] EXCEPT !.life = IF recv[r].finalizer THEN "deleting"
                                            ELSE "gone"]
              p == [pass[r] EXCEPT !.current = FALSE]
  <2>1. /\ pass[r] \in Pass /\ recv[r] \in Recv /\ queued \in SUBSET Receiver
        /\ InOrder(r, pass[r]) /\ recv[r].life = "live"
    BY <1>2, Standing DEF DeleteReceiver
  <2>2. /\ v \in Recv /\ v.life = IF recv[r].finalizer THEN "deleting" ELSE "gone"
        /\ v.finalizer = recv[r].finalizer
    BY <2>1 DEF Recv
  <2>3. p \in Pass /\ p.pc = pass[r].pc /\ ~p.current /\ p.holds = pass[r].holds
    BY <2>1 DEF Pass
  <2>4. /\ WriteRecv(r, v) /\ Goto(r, p)
        /\ queued' \in SUBSET Receiver /\ UNCHANGED <<mirrorVars, worldVars>>
    BY <1>2, <2>1 DEF DeleteReceiver
  <2>5. /\ seen[r].life = "live" /\ seen[r].finalizer => v.finalizer
        /\ r \in Remote /\ mirror[r].state # "absent" => v.finalizer
    BY <2>2 DEF IInv, CopyBehind, MirrorsAccountedFor
  <2>6. /\ p.pc \in Serving => v.finalizer
        /\ p.holds => pass[r].holds /\ p.pc = "erase"
    BY <2>1, <2>2, <2>3 DEF InOrder
  <2>. HIDE DEF v, p
  <2>. QED  BY <2>2, <2>3, <2>4, <2>5, <2>6, RecvStep
<1>3. ASSUME NEW r \in Receiver,
             ConsumerArrives(r) \/ ConsumerLeaves(r) \/ ConsumerReplaced(r)
      PROVE  IInv'
  BY <1>3, ConsumerStep DEF ConsumerArrives, ConsumerLeaves, ConsumerReplaced
<1>4. ASSUME ReaderLeaves \/ OriginLapses \/ \E n \in Source \cup {Nil, Target} : OriginEvent(n)
      PROVE  IInv'
  <2>1. UNCHANGED <<mirrorVars, recvVars, consumer, pass, touches>>
    BY <1>4 DEF ReaderLeaves, OriginLapses, OriginEvent
  <2>2. /\ queued \in SUBSET Receiver /\ moves \in 0..MaxMoves
        /\ reader \in {"new", "live", "gone"} /\ origin \in Source \cup {Nil, Target}
    BY DEF IInv, TypeOK
  <2>3. /\ queued' \in SUBSET Receiver /\ moves' \in 0..MaxMoves
        /\ reader' \in {"new", "live", "gone"} /\ origin' \in Source \cup {Nil, Target}
    BY <1>4, <2>2, ReceiverAssumption
       DEF ReaderLeaves, OriginLapses, OriginEvent, Listed, ReceiverAssumption
  <2>4. TypeOK'
    BY <2>1, <2>3 DEF IInv, TypeOK, mirrorVars, recvVars
  <2>. QED  BY <2>1, <2>4 DEF IInv, CacheCoherent, CopyBehind, PassesInOrder, InOrder,
       MirrorsAccountedFor, Exists, mirrorVars, recvVars
<1>. QED  BY <1>1, <1>2, <1>3, <1>4 DEF World

-----------------------------------------------------------------------------
(* What holds of every behaviour.                                          *)

(* The inductive invariant holds of every reachable state: the cache is    *)
(* the store or behind it, each pass runs where its receiver allows it.    *)
THEOREM Inductive == Spec => []IInv
<1>1. Init => IInv
  <2>. SUFFICES ASSUME Init PROVE IInv
    OBVIOUS
  <2>1. TypeOK
    BY EmptyTypes, ReceiverAssumption DEF Init, TypeOK, ReceiverAssumption
  <2>2. CacheCoherent /\ CopyBehind
    BY DEF Init, CacheCoherent, CopyBehind, NewRecv, Exists
  <2>3. PassesInOrder
    BY RestInOrder DEF Init, PassesInOrder
  <2>4. MirrorsAccountedFor
    BY Names DEF Init, MirrorsAccountedFor, NoMirror
  <2>. QED  BY <2>1, <2>2, <2>3, <2>4 DEF IInv
<1>2. IInv /\ [Next]_vars => IInv'
  <2>. SUFFICES ASSUME IInv, [Next]_vars PROVE IInv'
    OBVIOUS
  <2>1. CASE Next
    BY <2>1, ReconcileStep, InformerStep, OthersStep, WorldStep DEF Next
  <2>2. CASE UNCHANGED vars
    BY <2>2 DEF vars, IInv, TypeOK, CacheCoherent, CopyBehind, PassesInOrder, InOrder,
       MirrorsAccountedFor, Exists
  <2>. QED  BY <2>1, <2>2
<1>. QED  BY <1>1, <1>2, PTL DEF Spec

(* Every variable keeps its type.                                          *)
THEOREM TypeCorrect == Spec => []TypeOK
<1>1. IInv => TypeOK
  BY DEF IInv
<1>. QED  BY <1>1, Inductive, PTL

(* A receiver that is gone leaves no mirror in another namespace, however  *)
(* its deletion interleaves with passes, collectors and a cache that lags. *)
THEOREM NothingOrphaned == Spec => []NoOrphanRemote
<1>1. IInv => NoOrphanRemote
  <2>. SUFFICES ASSUME IInv, NEW r \in Remote, recv[r].life = "gone"
                PROVE  mirror[r].state = "absent"
    BY DEF NoOrphanRemote
  <2>1. r \in Receiver /\ ~recv[r].finalizer
    BY Names DEF IInv, CopyBehind, Exists
  <2>. QED  BY <2>1 DEF IInv, MirrorsAccountedFor
<1>. QED  BY <1>1, Inductive, PTL

-----------------------------------------------------------------------------
(* The shared mirror and its owners.                                       *)

(* The ways the shared mirror may change, with the pass or the collector   *)
(* that does it.                                                           *)
Quiet ==
  /\ mirror'[Shared].state = mirror[Shared].state
  /\ mirror'[Shared].owners = mirror[Shared].owners

Owners(S) ==
  /\ mirror[Shared].state # "absent"
  /\ mirror'[Shared].state = mirror[Shared].state
  /\ mirror'[Shared].owners = S

SharedMoves ==
  \/ /\ mirror[Shared].state = "absent"
     /\ mirror'[Shared].state = "present"
     /\ \/ mirror'[Shared].owners = {}
        \/ \E r \in Receiver : Exists(r) /\ mirror'[Shared].owners = {r}
  \/ \E r \in Receiver : Exists(r) /\ Owners(mirror[Shared].owners \cup {r})
  \/ \E r \in Receiver : /\ pass[r].pc = "release"
                         /\ Owners(mirror[Shared].owners \ {r})
  \/ /\ \E r \in mirror[Shared].owners : Exists(r)
     /\ Owners({r \in mirror[Shared].owners : Exists(r)})
  \/ /\ mirror[Shared].state = "present"
     /\ mirror'[Shared].state = "deleting"
     /\ mirror'[Shared].owners = mirror[Shared].owners
     /\ \A r \in mirror[Shared].owners : ~Exists(r)
  \/ /\ mirror[Shared].state = "deleting"
     /\ mirror'[Shared].state = "absent"
     /\ mirror'[Shared].owners = {}

(* The ways the receivers that exist may change.                           *)
LifeMoves ==
  \/ \A q \in Receiver : Exists(q)' <=> Exists(q)
  \/ \E r \in Receiver : /\ recv[r].life = "new" \/ ~Exists(r)'
                         /\ recv[r].life = "new" => Exists(r)'
                         /\ \A q \in Receiver \ {r} : Exists(q)' <=> Exists(q)

(* A step that writes neither mirrors nor receivers.                       *)
LEMMA QuietStep ==
  ASSUME UNCHANGED <<mirror, recv>>
  PROVE  Quiet /\ LifeMoves
BY DEF Quiet, LifeMoves, Exists

(* A step that writes receivers only.                                      *)
LEMMA LifeStep ==
  ASSUME IInv, NEW r \in Receiver, NEW v \in Recv, WriteRecv(r, v), UNCHANGED mirror,
         \/ v.life = recv[r].life
         \/ recv[r].life = "new" /\ v.life = "live"
         \/ recv[r].life = "live" /\ v.life \in {"deleting", "gone"}
         \/ recv[r].life # "new" /\ v.life = "gone"
  PROVE  Quiet /\ LifeMoves
<1>1. recv \in [Receiver -> Recv]
  BY DEF IInv, TypeOK
<1>2. /\ recv'[r] = v
      /\ \A q \in Receiver \ {r} : recv'[q] = recv[q]
  BY <1>1 DEF WriteRecv
<1>3. \A q \in Receiver \ {r} : Exists(q)' <=> Exists(q)
  BY <1>2 DEF Exists
<1>4. CASE \/ v.life = recv[r].life
           \/ recv[r].life = "live" /\ v.life = "deleting"
  BY <1>2, <1>3, <1>4 DEF Quiet, LifeMoves, Exists
<1>5. CASE recv[r].life = "new" /\ v.life = "live"
  BY <1>2, <1>3, <1>5 DEF Quiet, LifeMoves, Exists
<1>6. CASE recv[r].life # "new" /\ v.life = "gone"
  BY <1>2, <1>3, <1>6 DEF Quiet, LifeMoves, Exists
<1>. QED  BY <1>4, <1>5, <1>6

(* A write of one of the mirrors in other namespaces.                      *)
LEMMA RemoteWriteStep ==
  ASSUME IInv, NEW k \in Name \ {Shared}, NEW m \in Mirror, Write(k, m), UNCHANGED recvVars
  PROVE  Quiet /\ LifeMoves
<1>1. mirror'[Shared] = mirror[Shared]
  BY WriteEffect, Names DEF IInv
<1>. QED  BY <1>1 DEF Quiet, LifeMoves, Exists, recvVars

(* A delete of a mirror whose owners are gone, or that nobody shares.      *)
LEMMA DeleteMirrorMoves ==
  ASSUME IInv, NEW r \in Receiver, NEW k \in Name, NEW p, DeleteMirror(r, k, p),
         k = Shared => mirror[Shared].owners = {}
  PROVE  (UNCHANGED recv /\ SharedMoves) \/ (Quiet /\ LifeMoves)
<1>. DEFINE m == IF mirror[k].state = "present"
                 THEN [mirror[k] EXCEPT !.state = "deleting"] ELSE mirror[k]
<1>1. mirror[k] \in Mirror
  BY Standing
<1>2. /\ m \in Mirror
      /\ m.owners = mirror[k].owners
      /\ \/ m.state = mirror[k].state
         \/ mirror[k].state = "present" /\ m.state = "deleting"
  BY <1>1 DEF Mirror
<1>3. Write(k, m) /\ UNCHANGED <<recvVars, worldVars, queued>>
  BY DEF DeleteMirror
<1>. HIDE DEF m
<1>4. mirror'[k] = m
  BY <1>2, <1>3, WriteEffect DEF IInv
<1>5. CASE k = Shared
  BY <1>2, <1>3, <1>4, <1>5 DEF SharedMoves, Quiet, LifeMoves, Exists, recvVars
<1>6. CASE k # Shared
  BY <1>2, <1>3, <1>6, RemoteWriteStep
<1>. QED  BY <1>5, <1>6

(* Passes move the shared mirror in these ways only.                       *)
LEMMA ReconcileMoves ==
  ASSUME IInv, NEW r \in Receiver, Reconcile(r)
  PROVE  (UNCHANGED recv /\ SharedMoves) \/ (Quiet /\ LifeMoves)
<1>. DEFINE Goal == (UNCHANGED recv /\ SharedMoves) \/ (Quiet /\ LifeMoves)
<1>1. /\ pass[r] \in Pass /\ recv[r] \in Recv /\ InOrder(r, pass[r])
      /\ \A k \in Name : mirror[k] \in Mirror
      /\ Shared \in Name /\ (r \in Remote => r \in Name /\ r # Shared)
  BY Standing, Names
<1>2. ASSUME NEW p, Proceed(r, p)
      PROVE  Goal
  BY <1>2, QuietStep DEF Proceed, mirrorVars, recvVars
<1>3. ASSUME Requeue(r) \/ Conflict(r)
      PROVE  Goal
  BY <1>3, QuietStep DEF Conflict, Requeue, mirrorVars, recvVars
<1>4. CASE StartPass(r)
  BY <1>4, QuietStep DEF StartPass, mirrorVars, recvVars
<1>5. CASE AddFinalizer(r)
  <2>. DEFINE v == [recv[r] EXCEPT !.finalizer = TRUE]
  <2>1. v \in Recv /\ v.life = recv[r].life
    BY <1>1 DEF Recv
  <2>2. Requeue(r) \/ (WriteRecv(r, v) /\ UNCHANGED mirror)
    BY <1>5 DEF AddFinalizer, mirrorVars
  <2>. HIDE DEF v
  <2>. QED  BY <1>3, <2>1, <2>2, LifeStep
<1>6. CASE Resolve(r)
  BY <1>2, <1>6 DEF Resolve
<1>7. CASE removeOwnerRef(r)
  <2>. DEFINE m == [mirror[Shared] EXCEPT !.owners = mirror[Shared].owners \ {r}]
  <2>1. CASE Proceed(r, Finish(pass[r])) \/ Requeue(r) \/ Conflict(r)
    BY <1>2, <1>3, <2>1
  <2>2. CASE /\ Write(Shared, m) /\ UNCHANGED recvVars
             /\ cache[Shared].state # "absent" /\ cached[Shared]
    <3>1. /\ m \in Mirror /\ m.owners = mirror[Shared].owners \ {r}
          /\ m.state = mirror[Shared].state
      BY <1>1 DEF Mirror
    <3>2. mirror[Shared].state # "absent"
      BY <1>1, <2>2 DEF IInv, CacheCoherent
    <3>. HIDE DEF m
    <3>3. mirror'[Shared] = m
      BY <1>1, <2>2, <3>1, WriteEffect DEF IInv
    <3>4. Owners(mirror[Shared].owners \ {r})
      BY <3>1, <3>2, <3>3 DEF Owners
    <3>. QED  BY <1>7, <2>2, <3>4 DEF SharedMoves, removeOwnerRef, recvVars
  <2>. QED  BY <1>7, <2>1, <2>2 DEF removeOwnerRef
<1>8. CASE EraseReleased(r)
  <2>1. ASSUME DeleteMirror(r, Shared, Finish(pass[r])), pass[r].holds
        PROVE  Goal
    <3>1. mirror[Shared].owners = {}
      BY <1>1, <2>1 DEF InOrder
    <3>. QED  BY <1>1, <2>1, <3>1, DeleteMirrorMoves
  <2>. QED  BY <1>2, <1>8, <2>1 DEF EraseReleased
<1>9. CASE deleteIfStillEmpty(r)
  <2>1. ASSUME DeleteMirror(r, Shared, Finish(pass[r])),
               cached[Shared], cache[Shared].owners = {}
        PROVE  Goal
    <3>1. mirror[Shared].owners = {}
      BY <1>1, <2>1 DEF IInv, CacheCoherent
    <3>. QED  BY <1>1, <2>1, <3>1, DeleteMirrorMoves
  <2>. QED  BY <1>2, <1>3, <1>9, <2>1 DEF deleteIfStillEmpty
<1>10. CASE RemoveRemote(r)
  <2>1. r \in Remote
    BY <1>1, <1>10 DEF InOrder, RemoveRemote
  <2>2. ASSUME DeleteMirror(r, r, Finish(pass[r]))
        PROVE  Goal
    BY <1>1, <2>1, <2>2, DeleteMirrorMoves
  <2>. QED  BY <1>2, <1>10, <2>2 DEF RemoveRemote
<1>11. CASE ensureMirror(r)
  <2>. DEFINE k == mirrorNameForReceiver(r)
              m == [state |-> "present",
                    owners |-> IF r \in Remote THEN {} ELSE {r},
                    requestor |-> pass[r].pod,
                    source |-> pass[r].source]
  <2>1. CASE Write(k, m) /\ mirror[k].state = "absent" /\ UNCHANGED recvVars
    <3>1. k \in Name /\ m \in Mirror
      BY <1>1, Names DEF Pass, Mirror
    <3>2. CASE r \in Remote
      <4>1. k # Shared
        BY <3>2, Names
      <4>. HIDE DEF k, m
      <4>. QED  BY <2>1, <3>1, <4>1, RemoteWriteStep
    <3>3. CASE r \notin Remote
      <4>1. k = Shared /\ m.owners = {r} /\ m.state = "present"
        BY <3>3, Names
      <4>. HIDE DEF k, m
      <4>2. mirror'[Shared] = m
        BY <2>1, <3>1, <4>1, WriteEffect DEF IInv
      <4>3. recv[r].finalizer
        BY <1>1, <1>11 DEF InOrder, Serving, ensureMirror
      <4>4. Exists(r)
        BY <4>3 DEF IInv, CopyBehind
      <4>. QED  BY <2>1, <4>1, <4>2, <4>4 DEF SharedMoves, recvVars
    <3>. QED  BY <3>2, <3>3
  <2>. QED  BY <1>2, <1>11, <2>1 DEF ensureMirror
<1>12. CASE AlreadyExists(r)
  BY <1>2, <1>3, <1>12 DEF AlreadyExists
<1>13. CASE ensureOwnerRef(r)
  <2>. DEFINE m == [mirror[Shared] EXCEPT !.owners = mirror[Shared].owners \cup {r}]
  <2>1. CASE /\ Write(Shared, m) /\ UNCHANGED recvVars
             /\ cache[Shared].state # "absent" /\ cached[Shared]
    <3>1. /\ m \in Mirror /\ m.owners = mirror[Shared].owners \cup {r}
          /\ m.state = mirror[Shared].state
      BY <1>1 DEF Mirror
    <3>2. mirror[Shared].state # "absent"
      BY <1>1, <2>1 DEF IInv, CacheCoherent
    <3>3. recv[r].finalizer
      BY <1>1, <1>13 DEF InOrder, Serving, ensureOwnerRef
    <3>4. Exists(r)
      BY <3>3 DEF IInv, CopyBehind
    <3>. HIDE DEF m
    <3>5. mirror'[Shared] = m
      BY <1>1, <2>1, <3>1, WriteEffect DEF IInv
    <3>6. Owners(mirror[Shared].owners \cup {r})
      BY <3>1, <3>2, <3>5 DEF Owners
    <3>. QED  BY <2>1, <3>4, <3>6 DEF SharedMoves, recvVars
  <2>. QED  BY <1>2, <1>3, <1>13, <2>1 DEF ensureOwnerRef
<1>14. CASE patchMirrorIfDrifted(r)
  <2>. DEFINE k == mirrorNameForReceiver(r)
              m == [mirror[k] EXCEPT
                      !.source = IF "source" \in pass[r].drift THEN pass[r].source
                                 ELSE mirror[k].source,
                      !.requestor = IF "requestor" \in pass[r].drift THEN pass[r].pod
                                    ELSE mirror[k].requestor]
  <2>1. CASE Write(k, m) /\ UNCHANGED recvVars
    <3>1. k \in Name /\ mirror[k] \in Mirror
      BY <1>1, Names
    <3>2. /\ m \in Mirror
          /\ m.owners = mirror[k].owners /\ m.state = mirror[k].state
      BY <1>1, <3>1 DEF Mirror, Pass
    <3>. HIDE DEF k, m
    <3>3. mirror'[k] = m
      BY <2>1, <3>1, <3>2, WriteEffect DEF IInv
    <3>4. CASE k = Shared
      BY <2>1, <3>2, <3>3, <3>4 DEF Quiet, LifeMoves, Exists, recvVars
    <3>. QED  BY <2>1, <3>1, <3>2, <3>4, RemoteWriteStep
  <2>. QED  BY <1>2, <1>3, <1>14, <2>1 DEF patchMirrorIfDrifted
<1>15. CASE markStatus(r)
  <2>. DEFINE v == [recv[r] EXCEPT !.phase = pass[r].to]
  <2>1. v \in Recv /\ v.life = recv[r].life
    BY <1>1 DEF Recv, Pass
  <2>2. Requeue(r) \/ (WriteRecv(r, v) /\ UNCHANGED mirror)
    BY <1>15 DEF markStatus, mirrorVars
  <2>. HIDE DEF v
  <2>. QED  BY <1>3, <2>1, <2>2, LifeStep
<1>16. CASE handleDeletion(r)
  <2>1. CASE r \in Remote
    <3>1. DeleteMirror(r, r, [pass[r] EXCEPT !.pc = "relist"])
      BY <1>16, <2>1 DEF handleDeletion
    <3>. QED  BY <1>1, <2>1, <3>1, DeleteMirrorMoves
  <2>2. CASE r \notin Remote
    BY <1>2, <1>16, <2>2 DEF handleDeletion
  <2>. QED  BY <2>1, <2>2
<1>17. CASE ListRemaining(r)
  BY <1>2, <1>3, <1>17 DEF ListRemaining
<1>18. CASE RemoveFinalizer(r)
  <2>. DEFINE v == [recv[r] EXCEPT !.life = "gone", !.finalizer = FALSE]
  <2>1. v \in Recv /\ v.life = "gone"
    BY <1>1 DEF Recv
  <2>2. recv[r].life # "new"
    BY <1>1, <1>18 DEF InOrder, Ending, RemoveFinalizer, IInv, CopyBehind
  <2>3. UNCHANGED mirror /\ (WriteRecv(r, v) \/ UNCHANGED recv)
    BY <1>18 DEF RemoveFinalizer, mirrorVars, recvVars
  <2>. HIDE DEF v
  <2>. QED  BY <2>1, <2>2, <2>3, LifeStep, QuietStep
<1>. QED
  BY <1>4, <1>5, <1>6, <1>7, <1>8, <1>9, <1>10, <1>11, <1>12, <1>13, <1>14, <1>15,
     <1>16, <1>17, <1>18 DEF Reconcile

(* Agents, gateways and collectors move it in these ways only.             *)
LEMMA OthersMoves ==
  ASSUME IInv, Others
  PROVE  (UNCHANGED recv /\ SharedMoves) \/ (Quiet /\ LifeMoves)
<1>. DEFINE Goal == (UNCHANGED recv /\ SharedMoves) \/ (Quiet /\ LifeMoves)
<1>1. Shared \in Name /\ \A k \in Name : mirror[k] \in Mirror
  BY Names DEF IInv, TypeOK
<1>2. ASSUME NEW k \in Name, NEW m \in Mirror, WriteOther(k, m)
      PROVE  /\ UNCHANGED recv
             /\ k = Shared => mirror'[Shared] = m
             /\ k # Shared => Goal
  <2>1. Write(k, m) /\ UNCHANGED recvVars
    BY <1>2 DEF WriteOther
  <2>2. mirror'[k] = m
    BY <2>1, WriteEffect DEF IInv
  <2>. QED  BY <2>1, <2>2, RemoteWriteStep DEF recvVars
<1>3. ASSUME NEW n \in Source, Materialize(n)
      PROVE  Goal
  <2>. DEFINE m == [state |-> "present", owners |-> {}, requestor |-> "reader",
                    source |-> n]
  <2>1. m \in Mirror /\ m.owners = {} /\ m.state = "present"
    BY DEF Mirror, Requestor
  <2>2. WriteOther(Shared, m) /\ mirror[Shared].state = "absent"
    BY <1>3 DEF Materialize
  <2>. HIDE DEF m
  <2>. QED  BY <1>1, <1>2, <2>1, <2>2 DEF SharedMoves
<1>4. ASSUME NEW k \in Name, FinalizersDropped(k)
      PROVE  Goal
  <2>1. WriteOther(k, NoMirror) /\ mirror[k].state = "deleting"
    BY <1>4 DEF FinalizersDropped
  <2>2. NoMirror \in Mirror /\ NoMirror.owners = {} /\ NoMirror.state = "absent"
    BY EmptyTypes DEF NoMirror
  <2>. QED  BY <1>2, <2>1, <2>2 DEF SharedMoves
<1>5. ASSUME NEW k \in Name, CollectUnclaimed(k)
      PROVE  Goal
  <2>. DEFINE m == [mirror[k] EXCEPT !.state = "deleting"]
  <2>1. /\ m \in Mirror /\ m.owners = mirror[k].owners /\ m.state = "deleting"
        /\ mirror[k].state = "present"
    BY <1>1, <1>5 DEF Mirror, CollectUnclaimed
  <2>2. WriteOther(k, m) /\ \A r \in mirror[k].owners : ~Exists(r)
    BY <1>5 DEF CollectUnclaimed, Unclaimed
  <2>. HIDE DEF m
  <2>. QED  BY <1>2, <2>1, <2>2 DEF SharedMoves
<1>6. ASSUME CollectDependents
      PROVE  Goal
  <2>. DEFINE m == [mirror[Shared] EXCEPT !.owners = Solid]
              n == [mirror[Shared] EXCEPT !.state = "deleting"]
  <2>1. mirror[Shared] \in Mirror
    BY <1>1
  <2>2. /\ m \in Mirror /\ m.owners = Solid /\ m.state = mirror[Shared].state
        /\ n \in Mirror /\ n.owners = mirror[Shared].owners /\ n.state = "deleting"
    BY <2>1 DEF Mirror, Solid
  <2>3. CASE Solid # {}
    <3>1. WriteOther(Shared, m) /\ mirror[Shared].state # "absent"
      BY <1>6, <2>3 DEF CollectDependents, Dangling
    <3>. HIDE DEF m
    <3>2. UNCHANGED recv /\ Owners(Solid)
      BY <1>1, <1>2, <2>2, <3>1 DEF Owners
    <3>. QED  BY <2>3, <3>2 DEF SharedMoves, Solid
  <2>4. CASE Solid = {}
    <3>1. WriteOther(Shared, n) /\ mirror[Shared].state = "present"
      BY <1>6, <2>4 DEF CollectDependents, Dangling
    <3>2. \A r \in mirror[Shared].owners : ~Exists(r)
      BY <2>4 DEF Solid
    <3>. HIDE DEF n
    <3>3. UNCHANGED recv /\ mirror'[Shared] = n
      BY <1>1, <1>2, <2>2, <3>1
    <3>. QED  BY <2>2, <3>1, <3>2, <3>3 DEF SharedMoves
  <2>. QED  BY <2>3, <2>4
<1>7. ASSUME NEW k \in Name, GatewayStatusWrite(k)
      PROVE  Goal
  BY <1>7, QuietStep DEF GatewayStatusWrite, recvVars
<1>. QED  BY <1>3, <1>4, <1>5, <1>6, <1>7 DEF Others

(* Users, pods and origins leave the shared mirror alone.                  *)
LEMMA WorldMoves ==
  ASSUME IInv, World
  PROVE  Quiet /\ LifeMoves
<1>1. ASSUME NEW r \in Receiver, CreateReceiver(r)
      PROVE  Quiet /\ LifeMoves
  <2>. DEFINE v == [recv[r] EXCEPT !.life = "live"]
  <2>1. recv[r] \in Recv
    BY Standing
  <2>2. v \in Recv /\ v.life = "live"
    BY <2>1 DEF Recv
  <2>3. WriteRecv(r, v) /\ UNCHANGED mirror /\ recv[r].life = "new"
    BY <1>1 DEF CreateReceiver, mirrorVars
  <2>. HIDE DEF v
  <2>. QED  BY <2>2, <2>3, LifeStep
<1>2. ASSUME NEW r \in Receiver, DeleteReceiver(r)
      PROVE  Quiet /\ LifeMoves
  <2>. DEFINE v == [recv[r] EXCEPT !.life = IF recv[r].finalizer THEN "deleting"
                                            ELSE "gone"]
  <2>1. recv[r] \in Recv
    BY Standing
  <2>2. v \in Recv /\ v.life \in {"deleting", "gone"}
    BY <2>1 DEF Recv
  <2>3. WriteRecv(r, v) /\ UNCHANGED mirror /\ recv[r].life = "live"
    BY <1>2 DEF DeleteReceiver, mirrorVars
  <2>. HIDE DEF v
  <2>. QED  BY <2>2, <2>3, LifeStep
<1>3. ASSUME NEW r \in Receiver, NEW on \in BOOLEAN, ConsumerTurns(r, on)
      PROVE  Quiet /\ LifeMoves
  <2>1. mirror \in [Name -> Mirror] /\ Shared \in Name /\ (r \in Remote => r # Shared)
    BY Names DEF IInv, TypeOK
  <2>2. mirror'[Shared] = mirror[Shared] /\ recv' = recv
    BY <1>3, <2>1 DEF ConsumerTurns, recvVars
  <2>. QED  BY <2>2 DEF Quiet, LifeMoves, Exists
<1>4. ASSUME ReaderLeaves \/ OriginLapses \/ \E n \in Source \cup {Nil, Target} : OriginEvent(n)
      PROVE  Quiet /\ LifeMoves
  BY <1>4, QuietStep DEF ReaderLeaves, OriginLapses, OriginEvent, mirrorVars, recvVars
<1>. QED
  BY <1>1, <1>2, <1>3, <1>4 DEF World, ConsumerArrives, ConsumerLeaves, ConsumerReplaced

(* No step moves it in another way.                                        *)
LEMMA NextMoves ==
  IInv /\ [Next]_vars => (UNCHANGED recv /\ SharedMoves) \/ (Quiet /\ LifeMoves)
<1>. SUFFICES ASSUME IInv, [Next]_vars
              PROVE  (UNCHANGED recv /\ SharedMoves) \/ (Quiet /\ LifeMoves)
  OBVIOUS
<1>1. CASE UNCHANGED vars
  BY <1>1, QuietStep DEF vars
<1>2. CASE Informer
  BY <1>2, QuietStep DEF Informer, ReceiverEvent, MirrorEvent, mirrorVars, recvVars
<1>. QED  BY <1>1, <1>2, ReconcileMoves, OthersMoves, WorldMoves DEF Next

(* Concurrent releases, adoptions and collections of the shared mirror     *)
(* never strip a receiver that exists of its owner reference.              *)
THEOREM SiblingsKeep == Spec => SiblingsKeepReferences
<1>. DEFINE Kept == \A r \in mirror[Shared].owners :
                      r \notin mirror'[Shared].owners =>
                        \/ pass[r].pc = "release"
                        \/ ~Exists(r)
                        \/ mirror[Shared].state = "deleting"
<1>1. IInv /\ [Next]_vars => Kept
  <2>. SUFFICES ASSUME IInv, [Next]_vars PROVE Kept
    OBVIOUS
  <2>1. CASE Quiet
    BY <2>1 DEF Quiet
  <2>2. CASE SharedMoves
    <3>1. mirror[Shared].state = "absent" => mirror[Shared].owners = {}
      BY DEF IInv, MirrorsAccountedFor
    <3>. QED  BY <2>2, <3>1 DEF SharedMoves, Owners
  <2>. QED  BY <2>1, <2>2, NextMoves
<1>. QED  BY <1>1, Inductive, PTL DEF Spec, SiblingsKeepReferences

(* The reconciler implements SharedMirror: what it does to the shared      *)
(* mirror, from whatever copy it read, is a step of that specification.    *)
THEOREM Refinement == Spec => PromiseKept
<1>. DEFINE alive == {r \in Receiver : Exists(r)}
<1>1. Init => Promise!Init
  BY Names DEF Init, Promise!Init, NoMirror, NewRecv, Exists
<1>2. IInv /\ [Next]_vars => [Promise!Next]_(Promise!vars)
  <2>. SUFFICES ASSUME IInv, [Next]_vars
                PROVE  [Promise!Next]_(Promise!vars)
    OBVIOUS
  <2>0. mirror[Shared].owners \subseteq Receiver
    BY Names DEF IInv, TypeOK, Mirror
  <2>1. ASSUME UNCHANGED recv, SharedMoves
        PROVE  Promise!Next
    <3>1. alive' = alive
      BY <2>1 DEF Exists
    <3>2. CASE /\ mirror[Shared].state = "absent"
               /\ mirror'[Shared].state = "present"
               /\ \/ mirror'[Shared].owners = {}
                  \/ \E r \in Receiver : Exists(r) /\ mirror'[Shared].owners = {r}
      <4>1. Promise!Create
        BY <3>1, <3>2 DEF Promise!Create
      <4>. QED  BY <4>1 DEF Promise!Next
    <3>3. ASSUME NEW r \in Receiver, Exists(r), Owners(mirror[Shared].owners \cup {r})
          PROVE  Promise!Next
      <4>1. Promise!Adopt(r)
        BY <3>1, <3>3 DEF Promise!Adopt, Owners
      <4>. QED  BY <4>1 DEF Promise!Next
    <3>4. ASSUME NEW r \in Receiver, Owners(mirror[Shared].owners \ {r})
          PROVE  Promise!Next
      <4>1. Promise!Release(r)
        BY <3>1, <3>4 DEF Promise!Release, Owners
      <4>. QED  BY <4>1 DEF Promise!Next
    <3>5. ASSUME \E r \in mirror[Shared].owners : Exists(r),
                 Owners({r \in mirror[Shared].owners : Exists(r)})
          PROVE  Promise!Next
      <4>1. {r \in mirror[Shared].owners : Exists(r)} = mirror[Shared].owners \cap alive
        BY <2>0
      <4>2. mirror[Shared].owners \cap alive # {}
        BY <2>0, <3>5
      <4>3. Promise!DropDangling
        BY <3>1, <3>5, <4>1, <4>2 DEF Promise!DropDangling, Owners
      <4>. QED  BY <4>3 DEF Promise!Next
    <3>6. CASE /\ mirror[Shared].state = "present"
               /\ mirror'[Shared].state = "deleting"
               /\ mirror'[Shared].owners = mirror[Shared].owners
               /\ \A r \in mirror[Shared].owners : ~Exists(r)
      <4>1. Promise!Retire
        BY <3>1, <3>6 DEF Promise!Retire
      <4>. QED  BY <4>1 DEF Promise!Next
    <3>7. CASE /\ mirror[Shared].state = "deleting"
               /\ mirror'[Shared].state = "absent"
               /\ mirror'[Shared].owners = {}
      <4>1. Promise!Vanish
        BY <3>1, <3>7 DEF Promise!Vanish
      <4>. QED  BY <4>1 DEF Promise!Next
    <3>. QED  BY <2>1, <3>2, <3>3, <3>4, <3>5, <3>6, <3>7 DEF SharedMoves
  <2>2. ASSUME Quiet, LifeMoves
        PROVE  [Promise!Next]_(Promise!vars)
    <3>1. CASE \A q \in Receiver : Exists(q)' <=> Exists(q)
      <4>1. alive' = alive
        BY <3>1
      <4>. QED  BY <2>2, <4>1 DEF Quiet, Promise!vars
    <3>2. ASSUME NEW r \in Receiver,
                 recv[r].life = "new" \/ ~Exists(r)',
                 recv[r].life = "new" => Exists(r)',
                 \A q \in Receiver \ {r} : Exists(q)' <=> Exists(q)
          PROVE  Promise!Next
      <4>1. CASE recv[r].life = "new"
        <5>1. alive' = alive \cup {r}
          BY <3>2, <4>1
        <5>2. r \notin mirror[Shared].owners
          BY <4>1 DEF IInv, MirrorsAccountedFor
        <5>3. Promise!Appear(r)
          BY <2>2, <5>1, <5>2 DEF Quiet, Promise!Appear
        <5>. QED  BY <5>3 DEF Promise!Next
      <4>2. CASE recv[r].life # "new"
        <5>1. alive' = alive \ {r}
          BY <3>2, <4>2
        <5>2. Promise!Disappear(r)
          BY <2>2, <5>1 DEF Quiet, Promise!Disappear
        <5>. QED  BY <5>2 DEF Promise!Next
      <4>. QED  BY <4>1, <4>2
    <3>. QED  BY <2>2, <3>1, <3>2 DEF LifeMoves
  <2>. QED  BY <2>1, <2>2, NextMoves
<1>. QED  BY <1>1, <1>2, Inductive, PTL DEF Spec, PromiseKept, Promise!Spec

=============================================================================
