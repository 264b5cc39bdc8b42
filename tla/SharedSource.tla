---------------------------- MODULE SharedSource ----------------------------
(***************************************************************************)
(* The source side of the mirrors of one flow in the gateway of the node   *)
(* it is written on (gateway/internal/mirror/source.go): r.sources, one    *)
(* entry per mirror with its reader, initiator and transfer loop, and      *)
(* r.shared, what the mirrors of one (flow, provider) have in common.      *)
(*                                                                         *)
(* Reconcile runs on the controller's worker, and also inside the          *)
(* goroutine a flusher spawns to reopen a wedged reader and, nested, for   *)
(* the other mirrors of a source whose origin rotated.  A goroutine is a   *)
(* stack of calls: the first is under way, the others wait for it.  A call *)
(* is cut where it leaves r.mu to enter libmxl or to wait.                 *)
(*                                                                         *)
(* Entries and shared sources are numbered; a number nothing refers to is  *)
(* used again.  The flow's ring is the number of times its directory       *)
(* appeared.  Counters, labels and the lengths of waits are left out: a    *)
(* wait is over at some time, and a stall window has passed when the stall *)
(* can only go on.                                                         *)
(***************************************************************************)
EXTENDS Naturals, FiniteSets, FiniteSetsExt, SequencesExt

CONSTANTS
  Mirror,       \* MxlFlowMirrors of the flow with this source node: numbers
  Key,          \* sourceKeys: the flow on each provider
  Entry, Source,    \* numbers for entries and shared sources
  Worker, Thread,   \* the controller's worker, other goroutines
  MaxRebuilds,  \* maxReaderRebuilds
  MaxRing,      \* bound: appearances of the flow directory
  MaxInfo,      \* bound: TargetInfos a mirror's target publishes
  MaxMoves,     \* bound: changes by users, the target side and the producer
  Faults,       \* what may fail: see Fault
  MaxFaults     \* bound: how many of them do, once each

Unset == 0

\* What is assumed of the constants.
SourceAssumption ==
  /\ \A S \in {Mirror, Key, Entry, Source} : S \subseteq Nat \ {Unset}
  /\ Worker \notin Thread
  /\ {MaxRebuilds, MaxRing, MaxInfo, MaxMoves, MaxFaults} \subseteq Nat

VARIABLES
  mirror,    \* the mirrors in the API server
  flow,      \* the flow on this node and the Origin location that tells of it
  queued,    \* mirrors in the controller's queue
  timer,     \* mirrors that are queued again after a wait
  redial,    \* r.redials: the wait before a target is added again
  attempt,   \* r.attempts: the inputs whose failed add is waited out
  sources,   \* r.sources
  shared,    \* r.shared
  entry, src,    \* the sourceEntry and the sharedSource values
  rebuilds,  \* r.rebuilds
  stack,     \* the calls of every goroutine
  moves, faults

sourceVars == <<mirror, flow, queued, timer, redial, attempt, sources, shared,
                entry, src, rebuilds, stack, moves, faults>>

Proc == {Worker} \cup Thread

\* sourceEntry and its sourceLink: the mirror and the source it belongs to,
\* what the target was added with, the reader's ring and the loop.
EntryState ==
  [mirror: Mirror \cup {Unset}, src: Source \cup {Unset}, info: 0..MaxInfo,
   iface: {0, 1}, ring: 0..MaxRing, loop: {"none", "run", "ended"},
   wedged: BOOLEAN, dropped: BOOLEAN, asked: BOOLEAN, stalled: BOOLEAN,
   flusher: {"none", "run", "done"}]

NoEntry ==
  [mirror |-> Unset, src |-> Unset, info |-> 0, iface |-> 0, ring |-> 0,
   loop |-> "none", wedged |-> FALSE, dropped |-> FALSE, asked |-> FALSE,
   stalled |-> FALSE, flusher |-> "none"]

\* sharedSource: lastObservedOriginAt (0: none), openedAt, rebuilding.
SourceState ==
  [key: Key \cup {Unset}, base: 0..MaxRing, opened: 0..MaxRing,
   rebuilding: BOOLEAN]

NoSource == [key |-> Unset, base |-> 0, opened |-> 0, rebuilding |-> FALSE]

\* sourceAddInputs: a TargetInfo and a provider.
NoAttempt == <<0, Unset>>

\* The workqueue is served in order and holds a mirror once.
Added(q, M) == q \o SetToSortSeq(M \ Range(q), LAMBDA a, b : a < b)

\* A call: of Reconcile, with the mirror and the origin it read and the
\* entry and the source it holds; of rebuildWedgedReader; of closeEntry.
Frame ==
  [pc: {"get", "source", "check", "open", "install", "flush", "rebuild", "release"},
   mirror: Mirror, info: 0..MaxInfo, iface: {0, 1}, key: Key \cup {Unset},
   origin: 0..MaxRing, entry: Entry \cup {Unset}, src: Source \cup {Unset}]

Call(pc, m) ==
  [pc |-> pc, mirror |-> m, info |-> 0, iface |-> 0, key |-> Unset,
   origin |-> 0, entry |-> Unset, src |-> Unset]

Init ==
  /\ mirror = [m \in Mirror |->
       [exists |-> TRUE, deleting |-> FALSE, here |-> TRUE,
        finalizer |-> m # Min(Mirror), info |-> IF m = Min(Mirror) THEN 0 ELSE 1,
        iface |-> 0, key |-> Min(Key)]]
  /\ flow = [ring |-> 1, published |-> 0, state |-> "live"]
  /\ queued = Added(<<>>, Mirror)
  /\ timer = {}
  /\ redial = [m \in Mirror |-> "none"]
  /\ attempt = [m \in Mirror |-> NoAttempt]
  /\ sources = [m \in Mirror |-> Unset]
  /\ shared = [k \in Key |-> Unset]
  /\ entry = [e \in Entry |-> NoEntry]
  /\ src = [s \in Source |-> NoSource]
  /\ rebuilds = [k \in Key |-> 0]
  /\ stack = [p \in Proc |-> <<>>]
  /\ moves = 0
  /\ faults = {}

-----------------------------------------------------------------------------
(* Shared pieces.                                                          *)

Calls(stk) == UNION {Range(stk[p]) : p \in Proc}

\* The values after a step: what nothing refers to any more is dropped.
Become(ents, srcs) ==
  LET held(e) == \/ ents[e].loop = "run" \/ ents[e].flusher = "run"
                 \/ \E m \in Mirror : sources'[m] = e
                 \/ \E f \in Calls(stack') : f.entry = e
  IN /\ entry' = [e \in Entry |-> IF held(e) THEN ents[e] ELSE NoEntry]
     /\ src' = [s \in Source |->
          IF \/ \E k \in Key : shared'[k] = s
             \/ \E e \in Entry : held(e) /\ ents[e].src = s
             \/ \E f \in Calls(stack') : f.src = s
          THEN srcs[s] ELSE NoSource]

FreeEntries == {e \in Entry : entry[e] = NoEntry}

FreeSources == {s \in Source : src[s] = NoSource}

\* s.mirrors: install and both ways to close change r.sources along with it.
Attached(s) == {m \in Mirror : /\ sources[m] # Unset
                               /\ entry[sources[m]].src = s}

\* detachLink and stopFlusher: the loop and the flusher are told to stop and
\* waited for.  A flusher that was not started yet is not there to stop.
Detached(ents, E) ==
  [e \in Entry |-> IF e \in E
                   THEN [ents[e] EXCEPT !.loop = "ended",
                           !.flusher = IF @ = "run" THEN "done" ELSE @]
                   ELSE ents[e]]

\* closeEntry, up to Become.
CloseEntry(m) ==
  LET s == IF sources[m] = Unset THEN Unset ELSE entry[sources[m]].src
  IN /\ sources' = [sources EXCEPT ![m] = Unset]
     /\ shared' = [k \in Key |-> IF shared[k] = s /\ Attached(s) = {m}
                                 THEN Unset ELSE shared[k]]

\* closeSharedSource, up to Become: the source and all its entries go.
CloseSharedSource(s) ==
  /\ sources' = [m \in Mirror |-> IF m \in Attached(s) THEN Unset ELSE sources[m]]
  /\ shared' = [k \in Key |-> IF shared[k] = s THEN Unset ELSE shared[k]]

Entries(M) == {sources[m] : m \in M}

KeepTables == UNCHANGED <<sources, shared>>

Top(p) == Head(stack[p])

Goto(p, f) == stack' = [stack EXCEPT ![p] = <<f>> \o Tail(@)]

Return(p) == stack' = [stack EXCEPT ![p] = Tail(@)]

\* What the worker's call returns queues the mirror again; what another
\* goroutine's call returns, or a nested one, is dropped.
Requeue(p, m, rest) == queued' = IF p = Worker /\ rest = <<>>
                                 THEN Added(queued, {m}) ELSE queued

RequeueAfter(p, m, rest) == timer' = IF p = Worker /\ rest = <<>>
                                     THEN timer \cup {m} ELSE timer

IdleThreads == {p \in Thread : stack[p] = <<>>}

Spawn(pc, m) ==
  LET p == CHOOSE p \in IdleThreads : TRUE
  IN stack' = [stack EXCEPT ![p] = <<Call(pc, m)>>]

\* Faults and changes come after the agent told of the flow.
Fault(kind) ==
  /\ kind \in Faults \ faults /\ Cardinality(faults) < MaxFaults
  /\ flow.published # 0
  /\ faults' = faults \cup {kind}

\* writerGone: libmxl knows of no writer on the flow.
WriterGone == flow.state = "gone"

\* readerRebuildsExhausted.
RebuildsExhausted(k) == rebuilds[k] >= MaxRebuilds

Moves ==
  /\ moves < MaxMoves /\ flow.published # 0
  /\ moves' = moves + 1

\* Grains reach the target.
Delivering(e) ==
  /\ entry[e].loop = "run" /\ entry[e].ring = flow.ring
  /\ ~entry[e].wedged /\ flow.state = "live"

-----------------------------------------------------------------------------
(* Reconcile.                                                              *)

\* A call of Reconcile begins: the worker's with a mirror off the queue.
Begins(p, m) ==
  \/ p = Worker /\ stack[p] = <<>> /\ queued # <<>> /\ m = Head(queued)
  \/ stack[p] # <<>> /\ Top(p).pc = "get" /\ Top(p).mirror = m

\* originRotated.  Without a baseline, an origin that appeared in the second
\* the source opened, or later, counts as another one.
OriginRotated(s, observed) ==
  /\ s # Unset /\ observed # 0
  /\ IF src[s].base # 0 THEN observed > src[s].base
     ELSE observed >= src[s].opened

\* A rotated origin closes the whole shared source, and every other mirror
\* of it is reconciled before this call goes on.
Rotate(p, f, rest) ==
  LET s == shared[f.key]
      others == SetToSortSeq(Attached(s) \ {f.mirror}, LAMBDA a, b : a < b)
  IN /\ OriginRotated(s, f.origin)
     /\ CloseSharedSource(s)
     /\ stack' = [stack EXCEPT ![p] =
          [i \in 1..Len(others) |-> Call("get", others[i])]
            \o <<[f EXCEPT !.pc = "check", !.entry = Unset]>> \o rest]
     /\ Become(Detached(entry, Entries(Attached(s))), src)
     /\ UNCHANGED <<redial, timer>>

(* Faulty variant: a rotated TargetInfo is not noticed.                    *)
SameMirror(e, info) == e # Unset

SameTarget(e, info) == e # Unset /\ entry[e].info = info

\* attempts.wait: the last add with these inputs failed a short time ago.
Gated(f) == attempt[f.mirror] = <<f.info, f.key>>

\* takeRedial: a wait that is over is armed again for the time after this add.
TakeRedial(m) == [redial EXCEPT ![m] = "armed"]

ClearRedials(m) == [redial EXCEPT ![m] = "none"]

\* An entry on the published TargetInfo is left alone, unless its loop gave
\* the target up: then it is added again after a wait.  Before anything is
\* opened, a failed add is waited out and the flow must have a writer.
Check(p, f, rest) ==
  LET m == f.mirror
      e == f.entry
      same == SameTarget(e, f.info)
      gone == same /\ entry[e].dropped
      fine == same /\ ~gone
      waits == gone /\ redial[m] = "armed"
      opens == ~fine /\ ~waits /\ ~Gated(f) /\ ~WriterGone
  IN /\ f.pc = "source" => ~OriginRotated(shared[f.key], f.origin)
     /\ redial' = IF gone /\ ~waits THEN TakeRedial(m)
                  ELSE IF e # Unset /\ ~same THEN ClearRedials(m)
                  ELSE redial
     /\ stack' = [stack EXCEPT ![p] =
          IF opens THEN <<[f EXCEPT !.pc = "open", !.entry = Unset]>> \o rest
          ELSE rest]
     /\ IF e # Unset /\ ~fine /\ ~waits
        THEN /\ CloseEntry(m)
             /\ Become(Detached(entry, {sources[m]}), src)
        ELSE KeepTables /\ Become(entry, src)
     /\ IF fine \/ opens THEN UNCHANGED timer ELSE RequeueAfter(p, m, rest)

\* The entry is on another provider or interface than the mirror names now.
Moved(o, e) ==
  /\ e # Unset
  /\ src[entry[e].src].key # o.key \/ entry[e].iface # o.iface

\* The finalizer comes first and goes last.
Finalized(m) ==
  LET o == mirror[m]
  IN [mirror EXCEPT ![m].finalizer = IF ~o.here THEN @ ELSE ~o.deleting,
                    ![m].exists = @ /\ ~(o.here /\ o.deleting)]

\* A mirror that is gone is left alone, one whose source is elsewhere or that
\* is being deleted gives up its entry; without a TargetInfo there is nothing to
\* do; an entry that has to move is closed before anything else.
RecGet(p, m) ==
  LET o == mirror[m]
      e == sources[m]
      rest == IF stack[p] = <<>> THEN <<>> ELSE Tail(stack[p])
      leaves == o.exists /\ (~o.here \/ (o.deleting /\ o.finalizer))
      goesOn == o.exists /\ o.here /\ ~o.deleting /\ o.finalizer /\ o.info # 0
      moved == Moved(o, e)
      f == [pc |-> "source", mirror |-> m, info |-> o.info, iface |-> o.iface,
            key |-> o.key, origin |-> flow.published,
            entry |-> IF moved THEN Unset ELSE e, src |-> Unset]
  IN /\ Begins(p, m)
     /\ queued' = Added(IF stack[p] = <<>> THEN Tail(queued) ELSE queued,
                        {n \in {m} : o.exists /\ o.here /\ ~o.deleting /\ ~o.finalizer})
     /\ mirror' = Finalized(m)
     /\ \/ /\ goesOn /\ ~moved
           /\ Rotate(p, f, rest) \/ Check(p, f, rest)
        \/ /\ ~(goesOn /\ ~moved)
           /\ stack' = [stack EXCEPT ![p] = IF goesOn THEN <<f>> \o rest
                                            ELSE rest]
           /\ IF leaves \/ (goesOn /\ moved)
              THEN CloseEntry(m) /\ Become(Detached(entry, {e}), src)
              ELSE KeepTables /\ Become(entry, src)
           /\ redial' = IF leaves THEN ClearRedials(m) ELSE redial
           /\ UNCHANGED timer
     /\ UNCHANGED <<flow, attempt, rebuilds, moves, faults>>

\* A call goes on after what it had to close, or what it called, is over.
RecGoesOn(p) ==
  /\ stack[p] # <<>> /\ Top(p).pc \in {"source", "check"}
  /\ \/ Top(p).pc = "source" /\ Rotate(p, Top(p), Tail(stack[p]))
     \/ Check(p, Top(p), Tail(stack[p]))
  /\ UNCHANGED <<mirror, flow, queued, attempt, rebuilds, moves, faults>>

\* releaseIfUnused.
Release(s) ==
  shared' = [k \in Key |-> IF shared[k] = s /\ Attached(s) = {} THEN Unset
                           ELSE shared[k]]

\* A new entry, its reader on the ring there is now.
FreshEntry(f, s) ==
  [NoEntry EXCEPT !.mirror = f.mirror, !.src = s, !.info = f.info,
                  !.iface = f.iface, !.ring = flow.ring, !.loop = "run"]

\* A new source, with the origin the call read before as its baseline.
FreshSource(f) ==
  [key |-> f.key, base |-> f.origin, opened |-> flow.ring, rebuilding |-> FALSE]

\* handleAddTargetFailure: waited out, and published, which wakes Reconcile.
HandleAddTargetFailure(p, f) ==
  /\ attempt' = [attempt EXCEPT ![f.mirror] = <<f.info, f.key>>]
  /\ queued' = Added(queued, {f.mirror})
  /\ RequeueAfter(p, f.mirror, Tail(stack[p]))

\* openShared gives the listed source or a new one, and attach opens a reader,
\* an initiator, the target and the loop.  A source that cannot be opened is
\* an error; a failed add drops a source nobody has joined.
RecOpen(p) ==
  LET f == Top(p)
      listed == shared[f.key]
      s == IF listed # Unset THEN listed ELSE Min(FreeSources)
      e == Min(FreeEntries)
  IN /\ stack[p] # <<>> /\ f.pc = "open"
     /\ UNCHANGED sources
     /\ \/ /\ FreeEntries # {} /\ (listed = Unset => FreeSources # {})
           /\ Goto(p, [f EXCEPT !.pc = "install", !.entry = e, !.src = s])
           /\ shared' = [shared EXCEPT ![f.key] = s]
           /\ Become([entry EXCEPT ![e] = FreshEntry(f, s)],
                     IF listed # Unset THEN src
                     ELSE [src EXCEPT ![s] = FreshSource(f)])
           /\ UNCHANGED <<queued, timer, attempt, faults>>
        \/ /\ listed = Unset /\ Fault("open")
           /\ Requeue(p, f.mirror, Tail(stack[p]))
           /\ Return(p)
           /\ UNCHANGED <<shared, timer, attempt>>
           /\ Become(entry, src)
        \/ /\ Fault("add")
           /\ HandleAddTargetFailure(p, f)
           /\ Return(p) /\ Release(listed)
           /\ Become(entry, src)
     /\ UNCHANGED <<mirror, flow, redial, rebuilds, moves>>

(* Faulty variant: the listed entry is replaced.                           *)
NotAttached(m) == FALSE

AttachedFirst(m) == sources[m] # Unset

\* The entry is listed and joins its source, unless another call was first.
RecInstall(p) ==
  LET f == Top(p)
      dup == sources[f.mirror]
  IN /\ stack[p] # <<>> /\ f.pc = "install"
     /\ IF AttachedFirst(f.mirror)
        THEN /\ IF entry[dup].info # f.info THEN Requeue(p, f.mirror, Tail(stack[p]))
                ELSE UNCHANGED queued
             /\ Return(p) /\ Release(f.src)
             /\ UNCHANGED <<sources, attempt>>
             /\ Become(Detached(entry, {f.entry}), src)
        ELSE /\ sources' = [sources EXCEPT ![f.mirror] = f.entry]
             /\ attempt' = [attempt EXCEPT ![f.mirror] = NoAttempt]
             /\ Goto(p, [f EXCEPT !.pc = "flush", !.src = Unset])
             /\ UNCHANGED <<shared, queued>>
             /\ Become(entry, src)
     /\ UNCHANGED <<mirror, flow, timer, redial, rebuilds, moves, faults>>

\* startFlusher, outside r.mu.
RecFlush(p) ==
  /\ stack[p] # <<>> /\ Top(p).pc = "flush"
  /\ Return(p) /\ KeepTables
  /\ Become([entry EXCEPT ![Top(p).entry].flusher = "run"], src)
  /\ UNCHANGED <<mirror, flow, queued, timer, redial, attempt, rebuilds, moves,
                 faults>>

-----------------------------------------------------------------------------
(* The flushers and what they spawn.                                       *)

AttachedToReplacedTarget(e) ==
  LET m == entry[e].mirror IN mirror[m].exists /\ mirror[m].info # entry[e].info

\* A loop that gave its target up: Reconcile is asked for once.
AsksRedial(e) == entry[e].dropped /\ ~entry[e].asked

\* A reader that feeds nothing, on a flow nothing writes.
Releases(e) == entry[e].stalled /\ WriterGone

\* beginRebuild: the first to find the reader wedged claims the reopen.
BeginRebuild(e) ==
  /\ entry[e].stalled /\ ~WriterGone
  /\ ~RebuildsExhausted(src[entry[e].src].key) /\ ~src[entry[e].src].rebuilding

\* Grains arrive again: the failures are forgotten.
Recovers(e) ==
  /\ Delivering(e)
  /\ redial[entry[e].mirror] # "none" \/ rebuilds[src[entry[e].src].key] > 0

Ticks(e) ==
  /\ entry[e].flusher = "run" /\ ~AttachedToReplacedTarget(e)
  /\ AsksRedial(e) \/ Releases(e) \/ BeginRebuild(e) \/ Recovers(e)

\* A tick that changes something.  An entry added with a TargetInfo the
\* target has replaced waits for its reconcile.  A target given up is asked
\* to be added again, a flow without a writer gets its reader released, and
\* a reader that feeds nothing is reopened while the budget lasts; both are
\* published first, which wakes Reconcile.
FlushTick(e) ==
  LET m == entry[e].mirror
      s == entry[e].src
      k == src[s].key
      ask == AsksRedial(e)
      release == Releases(e)
      rebuild == BeginRebuild(e)
      recovered == Recovers(e)
  IN /\ Ticks(e)
     /\ queued' = IF ask \/ release \/ rebuild THEN Added(queued, {m}) ELSE queued
     /\ redial' = IF recovered THEN ClearRedials(m) ELSE redial
     /\ rebuilds' = IF recovered THEN [rebuilds EXCEPT ![k] = 0]
                    ELSE IF rebuild THEN [rebuilds EXCEPT ![k] = @ + 1]
                    ELSE rebuilds
     /\ IF release \/ rebuild
        THEN /\ IdleThreads # {}
             /\ Spawn(IF release THEN "release" ELSE "rebuild", m)
        ELSE UNCHANGED stack
     /\ KeepTables
     /\ Become([entry EXCEPT ![e].asked = @ \/ ask,
                  ![e].flusher = IF release \/ rebuild THEN "done" ELSE @],
               IF rebuild THEN [src EXCEPT ![s].rebuilding = TRUE] ELSE src)
     /\ UNCHANGED <<mirror, flow, timer, attempt, moves, faults>>

\* go closeEntry.
ReleaseEntry(p) ==
  /\ stack[p] # <<>> /\ Top(p).pc = "release"
  /\ Return(p) /\ CloseEntry(Top(p).mirror)
  /\ Become(Detached(entry, {sources[Top(p).mirror]}), src)
  /\ UNCHANGED <<mirror, flow, queued, timer, redial, attempt, rebuilds, moves,
                 faults>>

\* closeMirrorSource: what r.shared lists now for the key of the mirror's entry.
MirrorSource(m) ==
  IF sources[m] = Unset THEN Unset ELSE shared[src[entry[sources[m]].src].key]

\* rebuildWedgedReader: the source the mirror's key has now is closed, and
\* its mirrors, this one included, are reconciled one after the other.
RebuildWedgedReader(p) ==
  LET m == Top(p).mirror
      s == MirrorSource(m)
      closed == IF s = Unset THEN {} ELSE Attached(s)
      calls == SetToSortSeq(closed, LAMBDA a, b : a < b)
                 \o (IF m \in closed THEN <<>> ELSE <<m>>)
  IN /\ stack[p] # <<>> /\ Top(p).pc = "rebuild"
     /\ IF s = Unset THEN KeepTables ELSE CloseSharedSource(s)
     /\ stack' = [stack EXCEPT ![p] =
          [i \in 1..Len(calls) |-> Call("get", calls[i])]]
     /\ Become(Detached(entry, Entries(closed)), src)
     /\ UNCHANGED <<mirror, flow, queued, timer, redial, attempt, rebuilds,
                    moves, faults>>

-----------------------------------------------------------------------------
(* The loops, time, the producer, the target side and the users.           *)

\* The loop gives the target up, or the reader stops feeding it.
LoopFails(e) ==
  /\ entry[e].loop = "run" /\ sources[entry[e].mirror] = e
  /\ \/ Fault("drop") /\ entry' = [entry EXCEPT ![e].loop = "ended",
                                                ![e].dropped = TRUE]
     \/ Fault("wedge") /\ entry' = [entry EXCEPT ![e].wedged = TRUE]
  /\ UNCHANGED <<mirror, flow, queued, timer, redial, attempt, sources, shared,
                 src, rebuilds, stack, moves>>

\* A stall window passes.  It is longer than a tick and than the calls that
\* are due when it begins, and the agent tells of a new directory sooner.
WindowOver ==
  /\ \A e \in Entry : entry[e].flusher = "run" /\ entry[e].dropped =>
                        entry[e].asked
  /\ queued = <<>> /\ \A p \in Proc : stack[p] = <<>>
  /\ flow.published = flow.ring
  /\ \E e \in Entry : entry[e].flusher = "run" /\ ~Delivering(e)
                     /\ ~entry[e].stalled

WindowPasses ==
  /\ WindowOver
  /\ entry' = [e \in Entry |-> [entry[e] EXCEPT
       !.stalled = entry[e].flusher = "run" /\ ~Delivering(e)]]
  /\ UNCHANGED <<mirror, flow, queued, timer, redial, attempt, sources, shared,
                 src, rebuilds, stack, moves, faults>>

\* The waits of a mirror are over, and it is queued if it was to be.
Waits(m) == m \in timer \/ redial[m] = "armed" \/ attempt[m] # NoAttempt

WaitEnds(m) ==
  /\ Waits(m)
  /\ timer' = timer \ {m}
  /\ queued' = IF m \in timer THEN Added(queued, {m}) ELSE queued
  /\ redial' = [redial EXCEPT ![m] = IF @ = "armed" THEN "ready" ELSE @]
  /\ attempt' = [attempt EXCEPT ![m] = NoAttempt]
  /\ UNCHANGED <<mirror, flow, sources, shared, entry, src, rebuilds, stack,
                 moves, faults>>

\* The target side publishes its first TargetInfo.
TargetPublishes(m) ==
  /\ mirror[m].exists /\ mirror[m].info = 0
  /\ mirror' = [mirror EXCEPT ![m].info = 1]
  /\ queued' = Added(queued, {m})
  /\ UNCHANGED <<flow, timer, redial, attempt, sources, shared, entry, src,
                 rebuilds, stack, moves, faults>>

\* The agent publishes when the flow directory appeared: flowToMirrors.
Here == {m \in Mirror : mirror[m].exists /\ mirror[m].here}

OriginPublished ==
  /\ flow.published < flow.ring
  /\ flow' = [flow EXCEPT !.published = flow.ring]
  /\ queued' = Added(queued, Here)
  /\ UNCHANGED <<mirror, timer, redial, attempt, sources, shared, entry, src,
                 rebuilds, stack, moves, faults>>

\* The agent renews the Origin Lease of a flow that is written:
\* leaseToMirrors.  A renewal that finds the mirror's entry, or a call at
\* work, only adds a pass that returns at once.
Renews(m) ==
  /\ m \in Here /\ flow.state # "gone" /\ m \notin Range(queued) /\ sources[m] = Unset
  /\ \A p \in Proc : stack[p] = <<>>

LeaseRenewed(m) ==
  /\ Renews(m)
  /\ queued' = Added(queued, {m})
  /\ UNCHANGED <<mirror, flow, timer, redial, attempt, sources, shared, entry,
                 src, rebuilds, stack, moves, faults>>

\* The target side publishes another TargetInfo; the placement, the provider
\* or the source node of a mirror changes; a mirror is deleted.
MirrorMoves(m) ==
  /\ Moves /\ mirror[m].exists /\ ~mirror[m].deleting
  /\ \/ /\ mirror[m].info \in 1..(MaxInfo - 1)
        /\ mirror' = [mirror EXCEPT ![m].info = @ + 1]
     \/ mirror' = [mirror EXCEPT ![m].iface = 1 - @]
     \/ \E k \in Key \ {mirror[m].key} : mirror' = [mirror EXCEPT ![m].key = k]
     \/ mirror' = [mirror EXCEPT ![m].here = ~@]
     \/ mirror' = [mirror EXCEPT ![m].deleting = TRUE]
  /\ queued' = Added(queued, {m})
  /\ UNCHANGED <<flow, timer, redial, attempt, sources, shared, entry, src,
                 rebuilds, stack, faults>>

\* The producer goes idle, stops or goes on, or comes back with a new flow
\* directory, not before the agent told of the last one.
ProducerMoves ==
  /\ Moves
  /\ \/ \E st \in {"live", "idle", "gone"} \ {flow.state} :
          flow' = [flow EXCEPT !.state = st]
     \/ /\ flow.ring < MaxRing /\ flow.published = flow.ring
        /\ flow' = [flow EXCEPT !.ring = @ + 1, !.state = "live"]
  /\ entry' = [e \in Entry |-> [entry[e] EXCEPT !.stalled = FALSE]]
  /\ UNCHANGED <<mirror, queued, timer, redial, attempt, sources, shared, src,
                 rebuilds, stack, faults>>

Step(p) ==
  \/ \E m \in Mirror : RecGet(p, m)
  \/ RecGoesOn(p) \/ RecOpen(p) \/ RecInstall(p) \/ RecFlush(p)
  \/ ReleaseEntry(p) \/ RebuildWedgedReader(p)

Next ==
  \/ \E p \in Proc : Step(p)
  \/ \E e \in Entry : FlushTick(e) \/ LoopFails(e)
  \/ \E m \in Mirror : \/ WaitEnds(m) \/ TargetPublishes(m)
                       \/ LeaseRenewed(m) \/ MirrorMoves(m)
  \/ OriginPublished \/ ProducerMoves \/ WindowPasses

\* A call of p's that is not held up for want of a number.
CanStep(p) ==
  /\ stack[p] # <<>>
  /\ Top(p).pc = "open" => FreeEntries # {} /\ (shared[Top(p).key] = Unset => FreeSources # {})

\* Goroutines, tickers and timers go on and the other components do their
\* part: weak fairness, written as what may not last.  A window that could
\* pass again and again does; within the bounds that comes to an end.
Fairness ==
  /\ \A p \in Proc : []<>~CanStep(p)
  /\ \A m \in Mirror :
       /\ []<>~(stack[Worker] = <<>> /\ queued # <<>> /\ Head(queued) = m)
       /\ []<>~Waits(m) /\ []<>~Renews(m) /\ []<>~(mirror[m].exists /\ mirror[m].info = 0)
  /\ \A e \in Entry : []<>~(Ticks(e) /\ (Releases(e) \/ BeginRebuild(e) => IdleThreads # {}))
  /\ []<>(flow.published = flow.ring)
  /\ <>[]~WindowOver

Spec == Init /\ [][Next]_sourceVars

FairSpec == Spec /\ Fairness

(* Every variable keeps its type.                                          *)
TypeOK ==
  /\ mirror \in [Mirror -> [exists: BOOLEAN, deleting: BOOLEAN, here: BOOLEAN,
                            finalizer: BOOLEAN, info: 0..MaxInfo,
                            iface: {0, 1}, key: Key]]
  /\ flow \in [ring: 1..MaxRing, published: 0..MaxRing,
               state: {"live", "idle", "gone"}]
  /\ Range(queued) \subseteq Mirror /\ timer \subseteq Mirror
  /\ redial \in [Mirror -> {"none", "armed", "ready"}]
  /\ attempt \in [Mirror -> (0..MaxInfo) \X (Key \cup {Unset})]
  /\ sources \in [Mirror -> Entry \cup {Unset}]
  /\ shared \in [Key -> Source \cup {Unset}]
  /\ entry \in [Entry -> EntryState] /\ src \in [Source -> SourceState]
  /\ rebuilds \in [Key -> 0..MaxRebuilds]
  /\ \A p \in Proc : \A i \in 1..Len(stack[p]) : stack[p][i] \in Frame
  /\ moves \in 0..MaxMoves /\ faults \subseteq Faults

(***************************************************************************)
(* What a reader of source.go relies on.                                   *)
(***************************************************************************)

Served(m) ==
  /\ sources[m] # Unset /\ Delivering(sources[m])
  /\ entry[sources[m]].info = mirror[m].info

\* Nobody reopens a reader on a source that r.shared does not list, joined by
\* a call that held it while another goroutine closed it, or on one whose
\* reopen is claimed and over.
LeftBehind(m) ==
  /\ sources[m] # Unset
  /\ LET s == entry[sources[m]].src
     IN \/ \A k \in Key : shared[k] # s
        \/ src[s].rebuilding /\ \A p \in Thread : stack[p] = <<>>

Asked(m) ==
  /\ mirror[m].exists /\ ~mirror[m].deleting /\ mirror[m].here
  /\ flow.state = "live"

\* Every reader and transfer loop that is open belongs to the listed entry
\* of its mirror or to a call still at work: none is left behind to pin the
\* flow's directory.
OpenLinkIsReachable ==
  \A e \in Entry : entry[e].loop = "run" =>
     \/ sources[entry[e].mirror] = e
     \/ \E f \in Calls(stack) : f.entry = e

\* A mirror whose flow is written ends up again and again with a reader on
\* the present ring that sends to the published target, whatever failed,
\* unless it was left behind.
MirrorIsServed ==
  \A m \in Mirror : []<>(Asked(m) => Served(m) \/ LeftBehind(m))

\* A flow that nothing writes is released by every reader on it and stays so,
\* though each release is published and wakes Reconcile: libmxl can reclaim
\* its directory.
WriterGoneReleases ==
  <>[](flow.state = "gone" => \A e \in Entry : entry[e].loop # "run")

\* What holds between any two steps of the source side's goroutines: types,
\* and every open reader in reach of a teardown.
SourceKept == TypeOK /\ OpenLinkIsReachable

\* What reopens, rebuilds and releases bring about: mirrors of a written flow
\* are served, and a flow nothing writes is let go.
SourceSettles == MirrorIsServed /\ WriterGoneReleases

=============================================================================
