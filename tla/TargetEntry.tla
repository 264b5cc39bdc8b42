----------------------------- MODULE TargetEntry -----------------------------
(***************************************************************************)
(* The life of a mirror's target side in the gateway                       *)
(* (gateway/internal/mirror/target.go): the entries of r.targets for one   *)
(* key and the goroutines that share them, which are the Reconcile pass,   *)
(* each entry's progress loop and status flusher, and the recoveries the   *)
(* flusher's watchdog, a fatal loop and followRepoint spawn.               *)
(*                                                                         *)
(* A goroutine is cut where it takes a lock, waits for another one or      *)
(* calls the API server.  An entry and a fabric side (Target, TargetInfo   *)
(* and the loop that polls them) are numbered, and a number is used again  *)
(* once nothing refers to it.  The descriptor a side publishes is its      *)
(* number.  Windows of time are left out: a window has passed when the     *)
(* silence it measures can only go on.  How an open fails, backs off and   *)
(* stands down for a local writer is FlowDirectory's subject: here an open *)
(* succeeds or fails.                                                      *)
(***************************************************************************)
EXTENDS Naturals, FiniteSets, FiniteSetsExt

CONSTANTS
  Entry,        \* numbers for entries
  Side,         \* numbers for fabric sides
  Thread,       \* recoveries that may run at once
  MaxRebuilds,  \* maxStuckRebuilds
  MaxMoves,     \* bound: changes by users, the operator and the source
  Faults,       \* what may fail: see Fault
  MaxFaults,    \* bound: how many of them do, once each
  None          \* no entry, no side

ASSUME TargetAssumption ==
  /\ Entry \subseteq Nat /\ Side \subseteq Nat /\ None \notin Entry \cup Side
  /\ MaxRebuilds \in Nat \ {0}
  /\ MaxMoves \in Nat /\ MaxFaults \in Nat
  /\ Faults \subseteq {"open", "publish", "rebuild", "die", "wedge", "restart"}

VARIABLES
  mirror,       \* the MxlFlowMirror, as the gateway reads it
  queued,       \* the key is in the work queue, at once or after a delay
  pass,         \* the Reconcile pass
  table,        \* r.targets[key]
  entry,        \* the targetEntry values
  side,         \* the fabric sides
  recovery,     \* the recoveries under way
  sending,      \* the source reports that it sends
  reclosed,     \* history: a closed fabric side was closed again
  moves, faults

targetVars == <<mirror, queued, pass, table, entry, side, recovery, sending,
                reclosed, moves, faults>>

Phase == {"Pending", "Materializing", "Ready", "Degraded", "Failed"}

\* targetEntry: who owns the handles (closed), the fabric side and the loop
\* the entry can cancel, and what its flusher and its recoveries remember.
EntryState ==
  [closed: BOOLEAN, dropped: BOOLEAN, recovering: BOOLEAN,
   attempts: 0..(MaxRebuilds + 1),
   writer: BOOLEAN, side: Side \cup {None}, loop: Side \cup {None},
   spec: {0, 1}, provider: {0, 1}, landed: BOOLEAN,
   commit: {"never", "recent", "old"},
   flusher: {"none", "run", "stop", "wait", "done"},
   last: {"none", "Ready", "Degraded"}]

FreshEntry(s, d, p) ==
  [closed |-> FALSE, dropped |-> FALSE, recovering |-> FALSE, attempts |-> 0,
   writer |-> TRUE, side |-> s, loop |-> s, spec |-> d, provider |-> p,
   landed |-> FALSE, commit |-> "never", flusher |-> "none", last |-> "none"]

\* A number nothing uses.
UnusedEntry ==
  [FreshEntry(None, 0, 0) EXCEPT !.closed = TRUE, !.writer = FALSE]

SideState ==
  [of: Entry \cup {None}, open: BOOLEAN,
   loop: {"none", "run", "cancelled", "parked", "done"}, silent: BOOLEAN]

UnusedSide == [of |-> None, open |-> FALSE, loop |-> "none", silent |-> FALSE]

PassState ==
  [pc: {"idle", "close", "open", "install", "info", "status", "flush"},
   entry: Entry \cup {None}, side: Side \cup {None},
   then: {"none", "finalizer", "open", "retry"}]

IdlePass == [pc |-> "idle", entry |-> None, side |-> None, then |-> "none"]

RecoveryState ==
  [pc: {"none", "start", "stop", "mark", "open", "install", "info", "ready",
        "drop", "abandon"},
   entry: Entry \cup {None}, side: Side \cup {None}, provider: {0, 1},
   clears: BOOLEAN]

NoRecovery == [pc |-> "none", entry |-> None, side |-> None, provider |-> 0,
               clears |-> FALSE]

Init ==
  /\ mirror = [deleting |-> FALSE, finalizer |-> FALSE, phase |-> "Pending",
               info |-> None, grain |-> FALSE, spec |-> 0, provider |-> 0]
  /\ queued = TRUE
  /\ pass = IdlePass
  /\ table = None
  /\ entry = [e \in Entry |-> UnusedEntry]
  /\ side = [s \in Side |-> UnusedSide]
  /\ recovery = [t \in Thread |-> NoRecovery]
  /\ sending = TRUE
  /\ reclosed = FALSE
  /\ moves = 0
  /\ faults = {}

-----------------------------------------------------------------------------
(* Shared pieces.                                                          *)

Gone == mirror.deleting /\ ~mirror.finalizer

\* A write to the mirror; a write that changes nothing is no event.
SetMirror(m) ==
  /\ mirror' = m
  /\ queued' = (queued \/ m # mirror)

\* The object is gone and the call fails, or the phase is written.  The
\* payload owns lastGrainAt: one that leaves it out takes it off the status.
applyTargetStatus(m, p, grain) ==
  IF Gone THEN m ELSE [m EXCEPT !.phase = p, !.grain = grain]

\* The descriptor has a field manager of its own.
applyTargetInfo(m, s) == [m EXCEPT !.info = s]

Running(s) == side[s].loop \in {"run", "cancelled", "parked"}

Exited(s) == s = None \/ ~Running(s)

\* A wait for a loop runs into the grace only on one parked in libmxl.
Parked(s) == s # None /\ side[s].loop = "parked"

Cancel(sides, s) ==
  IF s # None /\ sides[s].loop = "run"
  THEN [sides EXCEPT ![s].loop = "cancelled"] ELSE sides

\* openFabricSide: a Target and its TargetInfo on an entry's writer.
openFabricSide(e, loop) ==
  [of |-> e, open |-> TRUE, loop |-> loop, silent |-> FALSE]

\* Closing a Target and its TargetInfo.
CloseSide(sides, s) ==
  IF s = None THEN sides
  ELSE [sides EXCEPT ![s] = IF Running(s) THEN [@ EXCEPT !.open = FALSE]
                            ELSE UnusedSide]

NoteClose(s) == reclosed' = (reclosed \/ (s # None /\ ~side[s].open))

FreeSides ==
  {s \in Side : /\ ~Running(s) /\ mirror.info # s
                /\ \A e \in Entry : s \notin {entry[e].side, entry[e].loop}
                /\ \A t \in Thread : recovery[t].side # s
                /\ pass.side # s}

FreeEntries ==
  {e \in Entry : /\ table # e /\ pass.entry # e
                 /\ entry[e].flusher \in {"none", "done"}
                 /\ \A t \in Thread : recovery[t].entry # e
                 /\ \A s \in Side : side[s].of = e => ~Running(s)}

IdleThreads == {t \in Thread : recovery[t].pc = "none"}

\* dispatchRecovery, and the onFatal of a loop.
Spawn == recovery' = [recovery EXCEPT ![Min(IdleThreads)].pc = "start"]

Fault(kind) ==
  /\ kind \in Faults \ faults /\ Cardinality(faults) < MaxFaults
  /\ faults' = faults \cup {kind}

\* The source reaches the side and grains arrive on it.
Reached(s) ==
  /\ s # None /\ sending /\ mirror.info = s
  /\ side[s].loop = "run" /\ ~side[s].silent

Healthy(e) == e # None /\ Reached(entry[e].side)

\* Short steps are over before a window of seconds is: the pass, a goroutine
\* that was spawned, and a loop that was asked to stop.
Settled ==
  /\ pass.pc = "idle"
  /\ \A t \in Thread : recovery[t].pc # "start"
  /\ \A s \in Side : side[s].loop # "cancelled"

\* sourceIsDelivering: a recent lastSentAt, or TransfersNotLanding.
sourceIsDelivering == sending /\ ~Gone

(* Faulty variant: a side that went silent after its first grain is not    *)
(* looked for.                                                             *)
WedgedAtFirst(e) ==
  sourceIsDelivering /\ ~Healthy(e) /\ Settled /\ ~entry[e].landed

\* wedged: nothing landed since the side opened while the source sends, or
\* what landed is long ago and the source still sends.
Wedged(e) ==
  /\ sourceIsDelivering /\ ~Healthy(e) /\ Settled
  /\ entry[e].landed => entry[e].commit = "old"

\* abandon, and closing the writer it hands back.
Abandon(ents, e) ==
  IF ents[e].closed THEN ents
  ELSE [ents EXCEPT ![e].closed = TRUE, ![e].writer = FALSE]

-----------------------------------------------------------------------------
(* The Reconcile pass.                                                     *)

\* closeEntry and the locked half of closeTargetHandles: the entry leaves
\* the table, is closed once, and its handles go to the pass, which asks
\* the flusher and the loop to stop.
CloseEntry(e, then) ==
  /\ table' = IF table = e THEN None ELSE table
  /\ pass' = [pc |-> "close", entry |-> e, then |-> then,
              side |-> IF entry[e].closed THEN None ELSE entry[e].side]
  /\ IF entry[e].closed THEN UNCHANGED <<entry, side>>
     ELSE /\ entry' = [entry EXCEPT ![e].closed = TRUE, ![e].side = None,
                         ![e].flusher = IF @ = "run" THEN "stop" ELSE @]
          /\ side' = Cancel(side, entry[e].loop)

RemoveFinalizer ==
  /\ SetMirror([mirror EXCEPT !.finalizer = FALSE])
  /\ pass' = IdlePass

\* A mirror being deleted gives up its entry and then its finalizer.
ReconcileDeleted ==
  /\ queued /\ pass.pc = "idle" /\ mirror.deleting /\ mirror.finalizer
  /\ IF table = None
     THEN RemoveFinalizer /\ UNCHANGED <<table, entry, side>>
     ELSE CloseEntry(table, "finalizer") /\ queued' = FALSE
          /\ UNCHANGED mirror
  /\ UNCHANGED <<recovery, sending, reclosed, moves, faults>>

AddFinalizer ==
  /\ queued /\ pass.pc = "idle" /\ ~mirror.deleting /\ ~mirror.finalizer
  /\ SetMirror([mirror EXCEPT !.finalizer = TRUE])
  /\ UNCHANGED <<pass, table, entry, side, recovery, sending, reclosed, moves,
                 faults>>

Turn == queued /\ pass.pc = "idle" /\ ~mirror.deleting /\ mirror.finalizer

\* replaceOtherGeometry: a target whose flow changed is closed, and the pass
\* goes on to open another.
ReplaceOtherGeometry ==
  /\ Turn /\ table # None /\ entry[table].spec # mirror.spec
  /\ CloseEntry(table, "open")
  /\ queued' = FALSE
  /\ UNCHANGED <<mirror, recovery, sending, reclosed, moves, faults>>

\* followRepoint: another provider or interface has the live side rebuilt,
\* once at a time, and the pass looks again later.
Repointed ==
  /\ Turn /\ table # None
  /\ entry[table].spec = mirror.spec /\ entry[table].provider # mirror.provider

FollowRepoint ==
  /\ Repointed
  /\ IF entry[table].recovering THEN UNCHANGED <<entry, recovery>>
     ELSE /\ IdleThreads # {}
          /\ entry' = [entry EXCEPT ![table].recovering = TRUE]
          /\ Spawn
  /\ UNCHANGED <<mirror, queued, pass, table, side, sending, reclosed, moves,
                 faults>>

\* The fast path: a live, Ready and fresh target is left alone.
LeftAlone ==
  table # None /\ mirror.phase = "Ready" /\ mirror.info # None /\ mirror.grain

Reconcile ==
  /\ Turn
  /\ table # None => /\ entry[table].spec = mirror.spec
                     /\ entry[table].provider = mirror.provider
  /\ queued' = FALSE
  /\ pass' = IF LeftAlone THEN pass ELSE [IdlePass EXCEPT !.pc = "open"]
  /\ UNCHANGED <<mirror, table, entry, side, recovery, sending, reclosed, moves,
                 faults>>

\* Both goroutines of an entry returned.
Stopped(e) == entry[e].flusher \in {"none", "done"} /\ Exited(entry[e].loop)

\* One is past the grace.
Overdue(e) == Parked(entry[e].loop) \/ entry[e].flusher = "wait"

\* The rest of closeTargetHandles.  The handles are released when both
\* goroutines returned within the grace; otherwise they are leaked.
FinishClose ==
  LET e == pass.entry
  IN /\ pass.pc = "close"
     /\ \/ /\ Stopped(e)
           /\ side' = CloseSide(side, pass.side)
           /\ NoteClose(pass.side)
           /\ entry' = [entry EXCEPT ![e] =
                IF \E t \in Thread : recovery[t].entry = e
                THEN [@ EXCEPT !.writer = FALSE] ELSE UnusedEntry]
        \/ /\ Overdue(e)
           /\ UNCHANGED <<entry, side, reclosed>>
     /\ \/ pass.then = "finalizer" /\ RemoveFinalizer
        \/ /\ pass.then = "open"
           /\ pass' = [IdlePass EXCEPT !.pc = "open"]
           /\ UNCHANGED <<mirror, queued>>
        \/ /\ pass.then = "retry"
           /\ pass' = IdlePass /\ queued' = TRUE /\ UNCHANGED mirror
        \/ /\ pass.then = "none"
           /\ pass' = IdlePass /\ UNCHANGED <<mirror, queued>>
     /\ UNCHANGED <<table, recovery, sending, moves, faults>>

\* openTarget: a writer, a fabric side and its loop on an entry of its own.
OpenTarget ==
  /\ pass.pc = "open" /\ FreeEntries # {} /\ FreeSides # {}
  /\ LET e == Min(FreeEntries)
         s == Min(FreeSides)
     IN /\ entry' = [entry EXCEPT ![e] =
                       FreshEntry(s, mirror.spec, mirror.provider)]
        /\ side' = [side EXCEPT ![s] = openFabricSide(e, "run")]
        /\ pass' = [pass EXCEPT !.pc = "install", !.entry = e]
  /\ UNCHANGED <<mirror, queued, table, recovery, sending, reclosed, moves,
                 faults>>

OpenTargetFails ==
  /\ pass.pc = "open" /\ Fault("open")
  /\ mirror' = applyTargetStatus(mirror, "Materializing", FALSE)
  /\ queued' = TRUE
  /\ pass' = IdlePass
  /\ UNCHANGED <<table, entry, side, recovery, sending, reclosed, moves>>

\* The new entry enters the table unless one is there, which is then kept.
InstallEntry ==
  /\ pass.pc = "install"
  /\ IF table # None THEN CloseEntry(pass.entry, "none")
     ELSE /\ table' = pass.entry
          /\ pass' = [pass EXCEPT !.pc = "info",
                                  !.side = entry[pass.entry].side]
          /\ UNCHANGED <<entry, side>>
  /\ UNCHANGED <<mirror, queued, recovery, sending, reclosed, moves, faults>>

\* applyTargetInfo and applyTargetStatus: the descriptor the pass read when
\* it installed the entry, and Ready.  A failure closes what is in the table.
PublishTarget ==
  /\ pass.pc \in {"info", "status"}
  /\ \/ /\ SetMirror(IF pass.pc = "info"
                     THEN applyTargetInfo(mirror, pass.side)
                     ELSE applyTargetStatus(mirror, "Ready", FALSE))
        /\ pass' = [pass EXCEPT !.pc = IF @ = "info" THEN "status" ELSE "flush",
                                !.side = None]
        /\ UNCHANGED <<table, entry, side, faults>>
     \/ /\ Fault("publish")
        /\ IF table # None THEN CloseEntry(table, "retry") /\ UNCHANGED queued
           ELSE /\ pass' = IdlePass /\ queued' = TRUE
                /\ UNCHANGED <<table, entry, side>>
        /\ UNCHANGED mirror
  /\ UNCHANGED <<recovery, sending, reclosed, moves>>

\* startFlusher: a torn-down entry gets none.
StartFlusher ==
  /\ pass.pc = "flush"
  /\ entry' = IF entry[pass.entry].closed THEN entry
              ELSE [entry EXCEPT ![pass.entry].flusher = "run"]
  /\ pass' = IdlePass
  /\ UNCHANGED <<mirror, queued, table, side, recovery, sending, reclosed,
                 moves, faults>>

-----------------------------------------------------------------------------
(* recoverFromFatalError, in a goroutine of its own.                       *)

\* The deferred end of a recovery.
EndRecovery(ents, t) ==
  /\ entry' = IF recovery[t].clears
              THEN [ents EXCEPT ![recovery[t].entry].recovering = FALSE]
              ELSE ents
  /\ recovery' = [recovery EXCEPT ![t] = NoRecovery]

Goto(t, pc) == recovery' = [recovery EXCEPT ![t].pc = pc]

\* It takes whatever entry the key has now, and one attempt of its budget.
RecoverStart(t) ==
  /\ recovery[t].pc = "start"
  /\ IF table = None
     THEN /\ recovery' = [recovery EXCEPT ![t] = NoRecovery]
          /\ UNCHANGED <<entry, side>>
     ELSE LET capped == entry[table].attempts >= MaxRebuilds
          IN /\ recovery' = [recovery EXCEPT ![t] =
                   [pc |-> IF capped THEN "drop" ELSE "stop", entry |-> table,
                    side |-> entry[table].loop,
                    provider |-> entry[table].provider, clears |-> ~capped]]
             /\ entry' = [entry EXCEPT ![table].attempts = Min({@ + 1, MaxRebuilds + 1}),
                                       ![table].recovering = @ \/ ~capped]
             /\ side' = IF capped THEN side ELSE Cancel(side, entry[table].loop)
  /\ UNCHANGED <<mirror, queued, pass, table, sending, reclosed, moves, faults>>

\* The wait for the loop ends with its exit, and the old side is taken out
\* and closed, or with the grace, and the rebuild is given up.
RecoverStop(t) ==
  /\ recovery[t].pc = "stop"
  /\ Exited(recovery[t].side) \/ Parked(recovery[t].side)
  /\ LET e == recovery[t].entry
     IN IF Exited(recovery[t].side) /\ ~entry[e].closed
        THEN /\ side' = CloseSide(side, entry[e].side)
             /\ NoteClose(entry[e].side)
             /\ entry' = [entry EXCEPT ![e].side = None]
             /\ recovery' = [recovery EXCEPT ![t].pc = "mark", ![t].side = None]
        ELSE EndRecovery(entry, t) /\ UNCHANGED <<side, reclosed>>
  /\ UNCHANGED <<mirror, queued, pass, table, sending, moves, faults>>

\* Under phaseMu: nothing is written for a dropped entry.  The provider the
\* spec names now is the one the side is opened for.
RecoverMark(t) ==
  /\ recovery[t].pc = "mark"
  /\ IF entry[recovery[t].entry].dropped
     THEN EndRecovery(entry, t) /\ UNCHANGED <<mirror, queued>>
     ELSE /\ SetMirror(IF mirror.phase = "Materializing" THEN mirror
                       ELSE applyTargetStatus(mirror, "Materializing", FALSE))
          /\ recovery' = [recovery EXCEPT ![t].pc = "open",
               ![t].provider = IF Gone THEN @ ELSE mirror.provider]
          /\ UNCHANGED entry
  /\ UNCHANGED <<pass, table, side, sending, reclosed, moves, faults>>

\* openFabricSide on the entry's writer.  A failure deletes the key from the
\* table, whichever entry it has there, and abandons this one.
RecoverOpen(t) ==
  /\ recovery[t].pc = "open"
  /\ \/ /\ FreeSides # {}
        /\ LET s == Min(FreeSides)
           IN /\ side' = [side EXCEPT ![s] =
                            openFabricSide(recovery[t].entry, "none")]
              /\ recovery' = [recovery EXCEPT ![t].pc = "install",
                                              ![t].side = s]
        /\ UNCHANGED <<table, entry, faults>>
     \/ /\ Fault("rebuild")
        /\ table' = None
        /\ EndRecovery(Abandon(entry, recovery[t].entry), t)
        /\ UNCHANGED side
  /\ UNCHANGED <<mirror, queued, pass, sending, reclosed, moves>>

(* Faulty variant: a torn-down entry gets the rebuilt side and its loop.   *)
RecoverInstallAlways(t) ==
  /\ recovery[t].pc = "install"
  /\ side' = [side EXCEPT ![recovery[t].side].loop = "run"]
  /\ entry' = [entry EXCEPT
       ![recovery[t].entry].side = recovery[t].side,
       ![recovery[t].entry].loop = recovery[t].side,
       ![recovery[t].entry].landed = FALSE,
       ![recovery[t].entry].provider = recovery[t].provider]
  /\ Goto(t, "info")
  /\ UNCHANGED <<mirror, queued, pass, table, sending, reclosed, moves, faults>>

\* startProgressLoop under lifecycle: a torn-down entry gets no loop, and
\* the side opened for it is released.
RecoverInstall(t) ==
  /\ recovery[t].pc = "install"
  /\ LET e == recovery[t].entry
         s == recovery[t].side
     IN IF entry[e].closed
        THEN /\ side' = CloseSide(side, s)
             /\ NoteClose(s)
             /\ EndRecovery(entry, t)
        ELSE /\ side' = [side EXCEPT ![s].loop = "run"]
             /\ entry' = [entry EXCEPT ![e].side = s, ![e].loop = s,
                            ![e].landed = FALSE,
                            ![e].provider = recovery[t].provider]
             /\ Goto(t, "info")
             /\ UNCHANGED reclosed
  /\ UNCHANGED <<mirror, queued, pass, table, sending, moves, faults>>

\* The descriptor is published before the phase; what cannot be published
\* drops the entry.
RecoverPublish(t) ==
  /\ recovery[t].pc \in {"info", "ready"}
  /\ IF recovery[t].pc = "ready" /\ entry[recovery[t].entry].dropped
     THEN EndRecovery(entry, t) /\ UNCHANGED <<mirror, queued, faults>>
     ELSE \/ /\ ~Gone
             /\ IF recovery[t].pc = "info"
                THEN /\ SetMirror(applyTargetInfo(mirror, recovery[t].side))
                     /\ Goto(t, "ready")
                     /\ UNCHANGED entry
                ELSE /\ SetMirror(applyTargetStatus(mirror, "Ready", FALSE))
                     /\ EndRecovery(entry, t)
             /\ UNCHANGED faults
          \/ /\ IF Gone THEN UNCHANGED faults ELSE Fault("publish")
             /\ Goto(t, "drop")
             /\ UNCHANGED <<mirror, queued, entry>>
  /\ UNCHANGED <<pass, table, side, sending, reclosed, moves>>

\* dropFailedEntry: Failed under phaseMu, out of the table if the key still
\* has this entry, and the writer closed if the loop ends in time.
DropFailedEntry(t) ==
  LET e == recovery[t].entry
  IN /\ \/ /\ recovery[t].pc = "drop"
           /\ SetMirror(applyTargetStatus(mirror, "Failed", FALSE))
           /\ entry' = [entry EXCEPT ![e].dropped = TRUE]
           /\ table' = IF table = e THEN None ELSE table
           /\ side' = Cancel(side, entry[e].loop)
           /\ recovery' = [recovery EXCEPT ![t].pc = "abandon",
                                           ![t].side = entry[e].loop]
        \/ /\ recovery[t].pc = "abandon"
           /\ Exited(recovery[t].side) \/ Parked(recovery[t].side)
           /\ EndRecovery(IF Exited(recovery[t].side)
                          THEN Abandon(entry, e) ELSE entry, t)
           /\ UNCHANGED <<mirror, queued, table, side>>
     /\ UNCHANGED <<pass, sending, reclosed, moves, faults>>

-----------------------------------------------------------------------------
(* The flusher of an entry.                                                *)

\* The watchdog finds a wedged side.
Barks(e) == entry[e].flusher = "run" /\ ~entry[e].recovering /\ Wedged(e)

\* A tick of the watchdog on a wedged side.  After one rebuild too many it
\* publishes Failed, deletes the key from the table, whichever entry it has
\* there, and asks the loop to stop; before that it spawns a recovery.
Watchdog(e) ==
  /\ Barks(e)
  /\ IF entry[e].attempts >= MaxRebuilds
     THEN /\ SetMirror(applyTargetStatus(mirror, "Failed", FALSE))
          /\ table' = None
          /\ side' = Cancel(side, entry[e].loop)
          /\ entry' = [entry EXCEPT ![e].flusher = "wait"]
          /\ UNCHANGED recovery
     ELSE /\ IdleThreads # {}
          /\ entry' = [entry EXCEPT ![e].recovering = TRUE]
          /\ Spawn
          /\ UNCHANGED <<mirror, queued, table, side>>
  /\ UNCHANGED <<pass, sending, reclosed, moves, faults>>

\* The end of the cap branch: the writer is closed if the loop ended in time.
WatchdogDrop(e) ==
  /\ entry[e].flusher = "wait"
  /\ Exited(entry[e].loop) \/ Parked(entry[e].loop)
  /\ entry' = [IF Exited(entry[e].loop) THEN Abandon(entry, e) ELSE entry
                 EXCEPT ![e].flusher = "done"]
  /\ UNCHANGED <<mirror, queued, pass, table, side, recovery, sending, reclosed,
                 moves, faults>>

\* What the commits say: recent ones are Ready, none for a while Degraded,
\* which is said only once the window since the open or the last one is over.
observedTargetState(e) ==
  IF entry[e].commit = "recent" THEN "Ready"
  ELSE IF ~Healthy(e) /\ Settled THEN "Degraded" ELSE "none"

\* targetStateEqual: the state is the one this flusher published last, and
\* the lastGrainAt it carried still stands.
targetStateEqual(e, state) ==
  state = entry[e].last /\ (state = "Ready" => mirror.grain)

\* publishTargetProgress, with the commit's time where it is recent.
publishTargetProgress(state) ==
  SetMirror(applyTargetStatus(mirror, state, state = "Ready"))

\* A tick on a side that is not wedged has something to publish.
Flushes(e) ==
  /\ entry[e].flusher = "run" /\ ~entry[e].recovering /\ ~Wedged(e)
  /\ observedTargetState(e) # "none" /\ ~targetStateEqual(e, observedTargetState(e))

Flush(e) ==
  LET state == observedTargetState(e)
  IN /\ Flushes(e)
     /\ entry' = [entry EXCEPT ![e].last = state]
     /\ publishTargetProgress(state)
     /\ UNCHANGED <<pass, table, side, recovery, sending, reclosed, moves,
                    faults>>

FlusherStops(e) ==
  /\ entry[e].flusher = "stop"
  /\ entry' = [entry EXCEPT ![e].flusher = "done"]
  /\ UNCHANGED <<mirror, queued, pass, table, side, recovery, sending, reclosed,
                 moves, faults>>

-----------------------------------------------------------------------------
(* The progress loops, the source, time and the users.                     *)

\* A loop asked to stop returns.
LoopExits(s) ==
  /\ side[s].loop = "cancelled"
  /\ side' = [side EXCEPT ![s].loop = "done"]
  /\ UNCHANGED <<mirror, queued, pass, table, entry, recovery, sending,
                 reclosed, moves, faults>>

\* ReadGrain reports an error the loop cannot poll on from: onFatal.
LoopDies(s) ==
  /\ side[s].loop \in {"run", "cancelled"} /\ Fault("die")
  /\ IdleThreads # {}
  /\ side' = [side EXCEPT ![s].loop = "done"]
  /\ Spawn
  /\ UNCHANGED <<mirror, queued, pass, table, entry, sending, reclosed, moves>>

\* The side goes silent, with its loop polling or parked inside the library.
SideWedges(s) ==
  /\ side[s].loop = "run" /\ ~side[s].silent /\ Fault("wedge")
  /\ \E l \in {"run", "parked"} :
       side' = [side EXCEPT ![s].silent = TRUE, ![s].loop = l]
  /\ UNCHANGED <<mirror, queued, pass, table, entry, recovery, sending,
                 reclosed, moves>>

\* The next grain changes what is known of the side.
Lands(s) == Reached(s) /\ ~(entry[side[s].of].landed /\ entry[side[s].of].commit = "recent")

\* A grain arrives and is committed: recordCommit.
Commit(s) ==
  /\ Reached(s)
  /\ entry' = [entry EXCEPT
       ![side[s].of].attempts = IF entry[side[s].of].landed THEN @ ELSE 0,
       ![side[s].of].landed = TRUE, ![side[s].of].commit = "recent"]
  /\ UNCHANGED <<mirror, queued, pass, table, side, recovery, sending,
                 reclosed, moves, faults>>

\* Time passes without a commit: what an entry remembers ages, and so does
\* the lastGrainAt of the mirror, which is the time of a commit.
Quiet(e) ==
  /\ Settled /\ entry[e].commit = "recent"
  /\ \A s \in Side : side[s].of = e => ~Reached(s)

Stale ==
  /\ Settled /\ mirror.grain
  /\ \A e \in Entry : entry[e].commit # "recent" \/ entry[e].flusher # "run"

Silence ==
  /\ \/ /\ \E e \in Entry : Quiet(e) /\ entry' = [entry EXCEPT ![e].commit = "old"]
        /\ UNCHANGED mirror
     \/ /\ Stale
        /\ mirror' = [mirror EXCEPT !.grain = FALSE]
        /\ UNCHANGED entry
  /\ UNCHANGED <<queued, pass, table, side, recovery, sending, reclosed, moves,
                 faults>>

\* The source starts or stops sending and reports it on the mirror; the spec
\* of the flow or of the mirror changes; the mirror is deleted.
Move ==
  /\ moves < MaxMoves /\ ~mirror.deleting
  /\ moves' = moves + 1
  /\ queued' = TRUE
  /\ \/ sending' = ~sending /\ UNCHANGED mirror
     \/ /\ \/ mirror' = [mirror EXCEPT !.spec = 1 - @]
           \/ mirror' = [mirror EXCEPT !.provider = 1 - @]
           \/ mirror' = [mirror EXCEPT !.deleting = TRUE]
        /\ UNCHANGED sending
  /\ UNCHANGED <<pass, table, entry, side, recovery, reclosed, faults>>

\* The mirror is created again, under the name it had.
Recreate ==
  /\ Gone
  /\ mirror' = [mirror EXCEPT !.deleting = FALSE, !.phase = "Pending",
                              !.info = None, !.grain = FALSE]
  /\ queued' = TRUE
  /\ UNCHANGED <<pass, table, entry, side, recovery, sending, reclosed, moves,
                 faults>>

\* The gateway restarts: everything in memory is gone.
Restart ==
  /\ Fault("restart")
  /\ queued' = TRUE
  /\ pass' = IdlePass
  /\ table' = None
  /\ entry' = [e \in Entry |-> UnusedEntry]
  /\ side' = [s \in Side |-> UnusedSide]
  /\ recovery' = [t \in Thread |-> NoRecovery]
  /\ UNCHANGED <<mirror, sending, reclosed, moves>>

PassStep ==
  \/ ReconcileDeleted \/ AddFinalizer \/ ReplaceOtherGeometry
  \/ FollowRepoint \/ Reconcile \/ FinishClose
  \/ OpenTarget \/ OpenTargetFails \/ InstallEntry \/ PublishTarget
  \/ StartFlusher

RecoveryStep(t) ==
  \/ RecoverStart(t) \/ RecoverStop(t) \/ RecoverMark(t) \/ RecoverOpen(t)
  \/ RecoverInstall(t) \/ RecoverPublish(t) \/ DropFailedEntry(t)

FlusherStep(e) ==
  Watchdog(e) \/ WatchdogDrop(e) \/ Flush(e) \/ FlusherStops(e)

Next ==
  \/ PassStep
  \/ \E t \in Thread : RecoveryStep(t)
  \/ \E e \in Entry : FlusherStep(e)
  \/ \E s \in Side : LoopExits(s) \/ LoopDies(s) \/ SideWedges(s) \/ Commit(s)
  \/ Silence \/ Move \/ Recreate \/ Restart

\* What holds up a pass or a recovery: a goroutine on its way out, a repoint
\* that is being followed, or the want of a number.
CanPass ==
  /\ pass.pc = "idle" => queued /\ ~Gone /\ (Repointed => ~entry[table].recovering /\ IdleThreads # {})
  /\ pass.pc = "close" => Stopped(pass.entry) \/ Overdue(pass.entry)
  /\ pass.pc = "open" => FreeEntries # {} /\ FreeSides # {}

CanRecover(t) ==
  /\ recovery[t].pc # "none"
  /\ recovery[t].pc \in {"stop", "abandon"} => Exited(recovery[t].side) \/ Parked(recovery[t].side)
  /\ recovery[t].pc = "open" => FreeSides # {}

\* The goroutines go on, grains arrive and time passes: weak fairness,
\* written as what may not last.  A pass ends, and so does a recovery.
Fairness ==
  /\ []<>~(pass.pc = "idle" /\ CanPass) /\ []<>~(pass.pc # "idle" /\ CanPass)
  /\ \A t \in Thread : []<>~CanRecover(t)
  /\ \A e \in Entry :
       /\ []<>~(Barks(e) /\ (entry[e].attempts < MaxRebuilds => IdleThreads # {}))
       /\ []<>~(Flushes(e) /\ (entry[e].last # observedTargetState(e) \/ ~Gone))
       /\ []<>(entry[e].flusher # "stop")
       /\ []<>~(entry[e].flusher = "wait" /\ (Exited(entry[e].loop) \/ Parked(entry[e].loop)))
       /\ []<>~Quiet(e)
  /\ \A s \in Side : []<>(side[s].loop # "cancelled") /\ []<>~Lands(s)
  /\ []<>~Stale

Spec == Init /\ [][Next]_targetVars

FairSpec == Spec /\ Fairness

(* Every variable keeps its type.                                          *)
TypeOK ==
  /\ mirror \in [deleting: BOOLEAN, finalizer: BOOLEAN, phase: Phase,
                 info: Side \cup {None}, grain: BOOLEAN, spec: {0, 1},
                 provider: {0, 1}]
  /\ queued \in BOOLEAN /\ pass \in PassState /\ table \in Entry \cup {None}
  /\ entry \in [Entry -> EntryState] /\ side \in [Side -> SideState]
  /\ recovery \in [Thread -> RecoveryState]
  /\ sending \in BOOLEAN /\ reclosed \in BOOLEAN
  /\ moves \in 0..MaxMoves /\ faults \subseteq Faults

(***************************************************************************)
(* What a reader of target.go relies on.                                   *)
(***************************************************************************)

\* A fabric side is closed once: whether a recovery, a teardown or a late
\* rebuild releases it, the handles are taken out of the entry under its
\* lifecycle lock, so no second goroutine closes them again.
ClosedOnce == ~reclosed

\* A loop nobody asked to stop belongs to an entry a teardown can find: the
\* one in r.targets, or one a pass or a recovery still has in hand.
RunningLoopIsReachable ==
  \A s \in Side : side[s].loop = "run" =>
     \/ side[s].of \in {table, pass.entry}
     \/ \E t \in Thread : recovery[t].entry = side[s].of

\* A mirror that is not being deleted and has no entry has a pass under way,
\* a recovery under way or a request in the queue: no drop of an entry ends
\* with nobody to open the target again.  A rebuild that fails is left out:
\* it deletes the key and writes nothing that would wake Reconcile.
DropWakesReconcile ==
  ~mirror.deleting /\ table = None /\ "rebuild" \notin faults =>
     \/ queued \/ pass.pc # "idle"
     \/ \E t \in Thread : recovery[t].pc # "none"

\* While the source sends, the mirror comes back, again and again, to a
\* listed target whose own descriptor is the published one and whose loop
\* commits: wedges, dead loops, failed publishes and restarts are got over.
TargetIsReached ==
  []<>(mirror.deleting \/ ~sending \/ "rebuild" \in faults \/ Healthy(table))

\* A mirror being deleted loses its finalizer, also when a loop is parked
\* inside libmxl and never returns.
DeletedTargetGoes == []<>(mirror.deleting => Gone)

\* What holds between any two steps of the target side's goroutines: types,
\* handles closed once, every running loop in reach of a teardown, and no drop
\* of an entry that nobody makes up for.
TargetKept == TypeOK /\ ClosedOnce /\ RunningLoopIsReachable /\ DropWakesReconcile

\* What recoveries, the watchdog and teardowns bring about: a target that
\* commits while the source sends, and the end of a deleted mirror.
TargetSettles == TargetIsReached /\ DeletedTargetGoes

=============================================================================
