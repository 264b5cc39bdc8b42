---------------------------- MODULE ReaderIntent ----------------------------
(***************************************************************************)
(* How the agent turns what one reader process does with flows absent on   *)
(* its node into mirrors (agent/internal/mxlfswatch, agent/internal/       *)
(* intent).  A path walk into a flow with no directory here is queued by   *)
(* the mxlfs and asks once; an open of a placeholder's ring has already    *)
(* succeeded, so its request is made again for as long as the pod's burst  *)
(* limit refuses it.  Requests run concurrently; limitMu alone orders what *)
(* they do to the pod's burst history.                                     *)
(*                                                                         *)
(* Time is counted in ticks, as ages and as times left, all saturating.    *)
(* Flows here are no redundancy set's outputs (module OutputDemand has     *)
(* those), and the reader is not one of mxl-k8s's own processes, whose     *)
(* opens and walks start nothing.                                          *)
(***************************************************************************)
EXTENDS Naturals, Integers, Sequences, FiniteSets, SequencesExt

CONSTANTS
  Flow,       \* flows with an origin on another node
  Late,       \* those with no directory here yet when a walk asks for them
  Here,       \* those the second initial state already has a copy of
  Burst,      \* Limits.Burst
  Window,     \* Limits.BurstWindow, in ticks
  PerPod,     \* Limits.PerPod
  Skew,       \* ticks that can pass between two readings of the clock
  MaxFaults,  \* failed calls, restarts, exits, opens again, origin changes
              \* and other authors' mirrors
  None

VARIABLES
  local,    \* [Flow -> Local]: the flow's directory on this node
  mirror,   \* [Flow -> Mirror]: the mirror of that flow onto this node
  origin,   \* [Flow -> Origin]: what ResolveOrigin answers
  created,  \* burst.created: ages of the pod's creations, oldest first
  waiting,  \* burst.waiting: refused flows and when each is to ask again
  holder,   \* the request holding limitMu across its Create, or None
  req,      \* [Key -> [stage, left]]: the mirror requests
  alive,    \* the reader process runs
  made,     \* history: [Flow -> 0..Window], age of the pod's own mirrors
  lost,     \* history: creations whose answer never came back
  budget

burstVars == <<created, waiting>>
vars == <<local, mirror, origin, created, waiting, holder, req, alive,
          made, lost, budget>>

Key == Flow \X {"open"} \cup Late \X {"walk"}
Local == {"absent", "placeholder", "filled"}
Mirror == {"none", "own", "other", "ready", "terminating"}
Origin == {"remote", "here", "unknown"}

\* The stages a request is in between two calls, and how it may have ended.
Calling == {"early", "refusing", "lookup", "limit", "create", "await"}
Ended == {"idle", "granted", "failed", "counted", "dropped"}

Upto(a, b) == IF a < b THEN a ELSE b

-----------------------------------------------------------------------------
(* The pod's burst history.  All of it is read and written under limitMu.  *)

(* Faulty variant: the waiting flows are pruned and the creations kept.    *)
keptCreationsAll(c) == c

\* d.pruneBursts: creations that left the window, and refused flows that did
\* not ask within a window of when they were told to, are forgotten.
keptCreations(c) == SelectSeq(c, LAMBDA age : age < Window)

keptWaiters(w) == SelectSeq(w, LAMBDA e : e.due > 0 - Window)

\* The creations that still fill the pod's window.
full(c) == Len(keptCreations(c)) >= Burst

\* The place of flow f in the order of refusal; a new one goes last.
PlaceOf(w, f) ==
  IF \E i \in 1..Len(w) : w[i].flow = f
  THEN CHOOSE i \in 1..Len(w) : w[i].flow = f
  ELSE Len(w) + 1

\* When the i-th refused flow's place frees: the i-th oldest creation's, and
\* past those the one the creation it lets in frees a window later.
Due(c, i) ==
  (((i - 1) \div Burst) + 1) * Window - c[Len(c) - Burst + 1 + ((i - 1) % Burst)]

\* d.burstRefusal of a full window: f is noted to ask again, or told so anew.
Noted(c, w, f) ==
  LET i == PlaceOf(w, f)
      e == [flow |-> f, due |-> Due(c, i)]
  IN  IF i > Len(w) THEN Append(w, e) ELSE [w EXCEPT ![i] = e]

\* d.burstRefusal of a window with room: f is no longer a refused flow.
Cleared(w, f) == SelectSeq(w, LAMBDA e : e.flow # f)

-----------------------------------------------------------------------------
Stage(k, s) == [req EXCEPT ![k] = [stage |-> s, left |-> 0]]

\* How Trigger.request and wanted take a refusal: an open's request sleeps
\* RetryAfter, at least minRetry, and one that waiting does not lift is over;
\* a walk asks only once.
AfterRefusal(k, left) ==
  CASE k[2] = "walk" -> Stage(k, "failed")
    [] k[2] = "open" /\ left <= 0 -> Stage(k, "dropped")
    [] OTHER -> [req EXCEPT ![k] = [stage |-> "asleep", left |-> left]]

\* burstRefusal of k's flow in a full window, with skew ticks since the clock
\* reading the history was pruned by.
Refused(k, skew) ==
  LET c == keptCreations(created)
      w == keptWaiters(waiting)
  IN  /\ created' = c
      /\ waiting' = Noted(c, w, k[1])
      /\ req' = AfterRefusal(k, Noted(c, w, k[1])[PlaceOf(w, k[1])].due - skew)

Spend == /\ budget > 0
         /\ budget' = budget - 1

-----------------------------------------------------------------------------
(* What starts a request.                                                  *)

\* Trigger.Handle: an open starts a request unless one for it is still being
\* made.  Of the opens of one window only the first counts; which that is
\* makes no difference here, so any open may.
Handle(f) ==
  /\ alive /\ local[f] = "placeholder"
  /\ \/ req[<<f, "open">>].stage = "idle" /\ UNCHANGED budget
     \/ req[<<f, "open">>].stage \in Ended \ {"idle"} /\ Spend
  /\ req' = Stage(<<f, "open">>, "early")
  /\ UNCHANGED <<local, mirror, origin, burstVars, holder, alive, made, lost>>

\* Wanted.Run and wanted: the walk's queue entry asks once.
wanted(f) ==
  /\ f \in Late /\ alive /\ local[f] = "absent"
  /\ req[<<f, "walk">>].stage = "idle"
  /\ req' = Stage(<<f, "walk">>, "early")
  /\ UNCHANGED <<local, mirror, origin, burstVars, holder, alive, made, lost, budget>>

\* Trigger.request after its wait: the request is made again while the
\* process lives and the flow is still a placeholder.
Again(k) ==
  /\ req[k].stage = "asleep" /\ req[k].left = 0
  /\ req' = Stage(k, IF alive /\ local[k[1]] = "placeholder" THEN "early" ELSE "idle")
  /\ UNCHANGED <<local, mirror, origin, burstVars, holder, alive, made, lost, budget>>

-----------------------------------------------------------------------------
(* Materialize, cut at its API calls and at limitMu.                       *)

\* A placeholder lists the flow without holding it.
flowExistsLocally(f) == local[f] = "filled"

\* The node of the flow's fresh origin; this one, or none, may be it.
resolveSourceNode(f) == origin[f]

\* The pid's pod, which is found as long as the process runs.
PodForPID == alive

\* refuseEarly up to its second lock: a pod whose window has room, or whose
\* pid names none any more, goes the full path, and so does what that path
\* answers ahead of the limit.
EarlyFull(k) ==
  /\ req[k].stage = "early" /\ holder = None
  /\ created' = keptCreations(created)
  /\ waiting' = keptWaiters(waiting)
  /\ req' = Stage(k, IF /\ PodForPID /\ full(created)
                        /\ ~flowExistsLocally(k[1])
                        /\ resolveSourceNode(k[1]) = "remote"
                        /\ mirror[k[1]] = "none"
                     THEN "refusing" ELSE "lookup")
  /\ UNCHANGED <<local, mirror, origin, holder, alive, made, lost, budget>>

\* refuseEarly, under limitMu again: the history is pruned by one reading of
\* the clock and the wait is counted from another.
EarlyRefuse(k) ==
  /\ req[k].stage = "refusing" /\ holder = None
  /\ IF full(created)
     THEN \E skew \in 0..Skew : Refused(k, skew)
     ELSE /\ req' = Stage(k, "lookup")
          /\ created' = keptCreations(created)
          /\ waiting' = keptWaiters(waiting)
  /\ UNCHANGED <<local, mirror, origin, holder, alive, made, lost, budget>>

\* ensureMirror's first Get: the mirror under the name is taken as it is,
\* unless it is terminating.
Existing(m) ==
  CASE m = "none" -> "limit"
    [] m = "terminating" -> "failed"
    [] OTHER -> "await"

\* Materialize up to the limits: the pod of the pid, the copy here, the
\* source, the mirror.  A flow that is or originates here needs nothing.
Lookup(k) ==
  /\ req[k].stage = "lookup"
  /\ req' = Stage(k, CASE flowExistsLocally(k[1]) -> "granted"
                       [] resolveSourceNode(k[1]) = "unknown" \/ ~PodForPID -> "failed"
                       [] resolveSourceNode(k[1]) = "here" -> "granted"
                       [] OTHER -> Existing(mirror[k[1]]))
  /\ UNCHANGED <<local, mirror, origin, burstVars, holder, alive, made, lost, budget>>

\* admit's count of the pod's live mirrors created on demand.
ownCount == Cardinality({f \in Flow : made[f] # None /\ mirror[f] \in {"own", "ready"}})

(* Faulty variant: limitMu is given back before the Create.                *)
AdmitUnlocked(k) ==
  /\ req[k].stage = "limit"
  /\ IF full(created)
     THEN Refused(k, 0)
     ELSE /\ created' = keptCreations(created)
          /\ waiting' = Cleared(keptWaiters(waiting), k[1])
          /\ req' = Stage(k, IF ownCount >= PerPod THEN "counted" ELSE "create")
  /\ UNCHANGED <<local, mirror, origin, holder, alive, made, lost, budget>>

\* admit: the burst limit, then the counts.  A count refuses for good.
admit(k) ==
  /\ req[k].stage = "limit" /\ holder = None
  /\ IF full(created)
     THEN Refused(k, 0) /\ UNCHANGED holder
     ELSE /\ created' = keptCreations(created)
          /\ waiting' = Cleared(keptWaiters(waiting), k[1])
          /\ IF ownCount >= PerPod
             THEN req' = Stage(k, "counted") /\ UNCHANGED holder
             ELSE req' = Stage(k, "create") /\ holder' = k
  /\ UNCHANGED <<local, mirror, origin, alive, made, lost, budget>>

\* ensureMirror's Create: the creation enters the history when its answer
\* comes, and a mirror made meanwhile under the name is taken instead.
Stamped(c) == Append(c, 0)

Create(k) ==
  /\ req[k].stage = "create"
  /\ IF mirror[k[1]] = "none"
     THEN /\ mirror' = [mirror EXCEPT ![k[1]] = "own"]
          /\ made' = [made EXCEPT ![k[1]] = 0]
          /\ created' = Stamped(created)
     ELSE UNCHANGED <<mirror, made, created>>
  /\ holder' = None
  /\ req' = Stage(k, "await")
  /\ UNCHANGED <<local, origin, waiting, alive, lost, budget>>

\* The Create took effect and its answer was lost: Materialize fails and the
\* history knows nothing of it.
CreateLost(k) ==
  /\ req[k].stage = "create" /\ mirror[k[1]] = "none" /\ Spend
  /\ mirror' = [mirror EXCEPT ![k[1]] = "own"]
  /\ made' = [made EXCEPT ![k[1]] = 0]
  /\ lost' = lost + 1
  /\ holder' = None
  /\ req' = Stage(k, "failed")
  /\ UNCHANGED <<local, origin, burstVars, alive>>

\* waitReady: until the mirror is Ready, or the request's time is up.
waitReady(k) ==
  /\ req[k].stage = "await"
  /\ \/ mirror[k[1]] = "ready" /\ req' = Stage(k, "granted")
     \/ mirror[k[1]] # "ready" /\ req' = Stage(k, "failed")
  /\ UNCHANGED <<local, mirror, origin, burstVars, holder, alive, made, lost, budget>>

\* Any call of the request fails, or its context is done: no refusal, so the
\* request is over.
CallFails(k) ==
  /\ req[k].stage \in Calling \ {"early", "refusing"} /\ Spend
  /\ req' = Stage(k, "failed")
  /\ holder' = IF holder = k THEN None ELSE holder
  /\ UNCHANGED <<local, mirror, origin, burstVars, alive, made, lost>>

-----------------------------------------------------------------------------
(* Around the agent: the gateway, other authors, the reader, time.         *)

\* The gateway sets a placeholder up for a flow with no copy here.
Placeholder(f) ==
  /\ local[f] = "absent"
  /\ local' = [local EXCEPT ![f] = "placeholder"]
  /\ UNCHANGED <<mirror, origin, burstVars, holder, req, alive, made, lost, budget>>

\* The gateway fills the copy of a live mirror and reports it Ready.
Fill(f) ==
  /\ mirror[f] \in {"own", "other"}
  /\ mirror' = [mirror EXCEPT ![f] = "ready"]
  /\ local' = [local EXCEPT ![f] = "filled"]
  /\ UNCHANGED <<origin, burstVars, holder, req, alive, made, lost, budget>>

\* A receiver's mirror of the flow appears, or one comes to its end.
OtherMirror(f) ==
  /\ mirror[f] = "none" /\ Spend
  /\ \E m \in {"other", "terminating"} : mirror' = [mirror EXCEPT ![f] = m]
  /\ UNCHANGED <<local, origin, burstVars, holder, req, alive, made, lost>>

Terminated(f) ==
  /\ mirror[f] = "terminating"
  /\ mirror' = [mirror EXCEPT ![f] = "none"]
  /\ UNCHANGED <<local, origin, burstVars, holder, req, alive, made, lost, budget>>

OriginMoves(f) ==
  /\ Spend
  /\ \E o \in Origin \ {origin[f]} : origin' = [origin EXCEPT ![f] = o]
  /\ UNCHANGED <<local, mirror, burstVars, holder, req, alive, made, lost>>

Exit ==
  /\ alive /\ alive' = FALSE /\ Spend
  /\ UNCHANGED <<local, mirror, origin, burstVars, holder, req, made, lost>>

\* The agent restarts: requests, opens counted and burst history are memory.
Restart ==
  /\ Spend
  /\ created' = <<>> /\ waiting' = <<>> /\ holder' = None
  /\ req' = [k \in Key |-> [stage |-> "idle", left |-> 0]]
  /\ made' = [f \in Flow |-> IF made[f] = None THEN None ELSE Window]
  /\ UNCHANGED <<local, mirror, origin, alive, lost>>

Tick ==
  /\ created' = [i \in DOMAIN created |-> Upto(created[i] + 1, Window)]
  /\ waiting' = [i \in DOMAIN waiting |->
       [waiting[i] EXCEPT !.due = IF @ > 0 - Window THEN @ - 1 ELSE @]]
  /\ req' = [k \in Key |-> [req[k] EXCEPT !.left = IF @ > 0 THEN @ - 1 ELSE 0]]
  /\ made' = [f \in Flow |-> IF made[f] = None THEN None ELSE Upto(made[f] + 1, Window)]
  /\ UNCHANGED <<local, mirror, origin, holder, alive, lost, budget>>

-----------------------------------------------------------------------------
\* Either the reader wants every flow and nothing fails, or some of them are
\* here already, walks may find no directory, and things go wrong.
Init ==
  /\ \/ /\ local = [f \in Flow |-> "placeholder"]
        /\ budget = 0
     \/ /\ local = [f \in Flow |-> IF f \in Late THEN "absent"
                                  ELSE IF f \in Here THEN "filled"
                                  ELSE "placeholder"]
        /\ budget = MaxFaults
  /\ mirror = [f \in Flow |-> "none"]
  /\ origin = [f \in Flow |-> "remote"]
  /\ created = <<>> /\ waiting = <<>> /\ holder = None
  /\ req = [k \in Key |-> [stage |-> "idle", left |-> 0]]
  /\ alive = TRUE
  /\ made = [f \in Flow |-> None]
  /\ lost = 0

Step(k) ==
  \/ Again(k) \/ EarlyFull(k) \/ EarlyRefuse(k)
  \/ Lookup(k) \/ admit(k) \/ Create(k) \/ waitReady(k)

Next ==
  \/ \E f \in Flow : Handle(f) \/ wanted(f)
  \/ \E k \in Key : Step(k) \/ CreateLost(k) \/ CallFails(k)
  \/ \E f \in Flow : Placeholder(f) \/ Fill(f) \/ OtherMirror(f)
                       \/ Terminated(f) \/ OriginMoves(f)
  \/ Exit \/ Restart \/ Tick

Spec == Init /\ [][Next]_vars

\* A step of request k is enabled.
Ready(k) ==
  \/ req[k].stage = "asleep" /\ req[k].left = 0
  \/ req[k].stage \in {"lookup", "create", "await"}
  \/ req[k].stage \in {"early", "refusing", "limit"} /\ holder = None

\* Weak fairness of every request goroutine, written as what may not last,
\* and of time.
Fairness ==
  /\ \A k \in Key, stage \in Calling \cup {"asleep"} : []<>~(req[k].stage = stage /\ Ready(k))
  /\ WF_vars(Tick)

FairSpec == Spec /\ Fairness

-----------------------------------------------------------------------------
\* Types, the lock held only across a Create, and a history no longer than
\* the limit lets it grow, so that a refused flow's place is always found.
TypeOK ==
  /\ local \in [Flow -> Local] /\ mirror \in [Flow -> Mirror]
  /\ origin \in [Flow -> Origin]
  /\ \A i \in DOMAIN created : created[i] \in 0..Window
  /\ Len(created) <= Burst
  /\ \A i, j \in DOMAIN waiting : waiting[i].flow = waiting[j].flow => i = j
  /\ \A k \in Key : req[k].stage \in Calling \cup Ended \cup {"asleep"}
  /\ \A k \in Key : holder = k <=> req[k].stage = "create"

\* However a pod's requests interleave, at most Burst mirrors are created on
\* demand for it within one window, by one run of the agent and counting
\* those whose answer came back (Limits.Burst).
BurstIsKept ==
  Cardinality({f \in Flow : made[f] # None /\ made[f] # Window}) <= Burst + lost

\* However its requests interleave, a pod never has more than PerPod live
\* mirrors created on demand, over restarts of the agent and lost answers
\* (Limits.PerPod).
PodCountIsKept == Cardinality({f \in Flow : made[f] # None}) <= PerPod

\* An open the burst limit refused is not forgotten, and no request goes on
\* asking for ever: its flow gets a mirror or a local origin, unless the
\* process or the agent goes, or the request made again fails for another
\* reason (Trigger.request).
RefusedIsServed ==
  \A f \in Flow : []<>(
    \/ mirror[f] \in {"own", "other", "ready"}
    \/ ~alive \/ req[<<f, "open">>].stage \in {"failed", "counted", "idle", "granted"})

\* What admission keeps to however requests interleave: types, and both
\* limits of a pod.
LimitsAreKept == TypeOK /\ BurstIsKept /\ PodCountIsKept

=============================================================================
