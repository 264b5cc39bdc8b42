---------------------------- MODULE MergeProgress ----------------------------
(***************************************************************************)
(* How a merge engine judges whether one of its members is stalled         *)
(* (gateway/internal/merge/progress.go): progress keeps when the member's  *)
(* head last moved and since when it moves steadily, and observe, called   *)
(* at every pass of the engine's loop, decides.  Members are judged        *)
(* independently, so one is modelled.                                      *)
(*                                                                         *)
(* Time is counted in ticks and kept as ages: how long ago something was.  *)
(* In a tick the member's head moves or not and the loop passes or not.    *)
(***************************************************************************)
EXTENDS Integers, FiniteSetsExt

CONSTANTS
  Pause,          \* half the stall window
  StartGrace,     \* how long a member may not have moved since the start
  RecoverAfter,   \* how long a stalled member has to move steadily
  MaxGap          \* bound: ticks between two passes of the loop

ASSUME MergeProgressAssumption ==
  /\ {Pause, StartGrace, RecoverAfter, MaxGap} \subseteq Nat \ {0}
  /\ MaxGap <= Pause

\* stallWindow, of which observe takes half as a pause.
Window == 2 * Pause

\* Ages beyond this are not told apart; Never is the zero time.
Horizon == Max({Window, StartGrace, RecoverAfter + Pause}) + MaxGap
Never == Horizon + 1
Age == 0 .. Never

VARIABLES
  p,        \* the member's entries in progress
  pending,  \* its head moved since the last pass
  gap,      \* ticks since the last pass
  run,      \* how long the head has been seen moving without a pause
  still,    \* how long it has been seen standing still since it moved
  changes   \* the ages of the last two changes of p.stall, the newest first

progressVars == <<p, pending, gap, run, still, changes>>

Older(a, n) == Min({a + n, Never})

\* progress for one member: ages of start, moved and steady.
Progress ==
  [start : Age, moved : Age, steady : Age, known : BOOLEAN, stall : BOOLEAN]

\* newProgress, and stalledFrom with what this node reported before.
Init ==
  /\ \E reported \in BOOLEAN :
       p = [start |-> 0, moved |-> Never, steady |-> Never, known |-> reported, stall |-> reported]
  /\ pending = FALSE /\ gap = 0 /\ run = 0 /\ still = 0
  /\ changes = <<Never, Never>>

\* A stalled member's moves count as steady from the first after a pause.
SteadySince(q) == IF q.stall /\ q.moved >= Pause THEN 0 ELSE q.steady

\* observe's switch: whether the member is decided on.
Decided(q) == (q.known /\ q.stall) \/ q.moved # Never \/ q.start >= StartGrace

(* Faulty variant: a stalled member is moving again at its first move.      *)
StallsAtOnce(q) ==
  IF q.moved # Never THEN q.moved >= Window ELSE q.stall \/ q.start >= StartGrace

\* And what it decides.  Moving again takes RecoverAfter of moves no pause
\* apart.
Stalls(q) ==
  \/ q.known /\ q.stall /\ (q.moved >= Pause \/ q.steady < RecoverAfter)
  \/ ~(q.known /\ q.stall) /\ q.moved # Never /\ q.moved >= Window
  \/ ~(q.known /\ q.stall) /\ q.moved = Never /\ (q.stall \/ q.start >= StartGrace)

\* observe, with the head changed since the last pass or not.
observe(q, changed) ==
  LET r == IF changed THEN [q EXCEPT !.steady = SteadySince(q), !.moved = 0] ELSE q
  IN  [r EXCEPT !.known = Decided(r), !.stall = Stalls(r)]

\* One tick: the head moves or stands still, the loop passes or not.
Tick(moves, passes) ==
  LET aged == [p EXCEPT !.start = Older(@, 1), !.moved = Older(@, 1), !.steady = Older(@, 1)]
      changed == pending \/ moves
      seen == observe(aged, changed)
      flips == passes /\ seen.stall # p.stall
      older == <<Older(changes[1], 1), Older(changes[2], 1)>>
  IN
  /\ passes \/ gap + 1 < MaxGap
  /\ gap' = IF passes THEN 0 ELSE gap + 1
  /\ pending' = (~passes /\ changed)
  /\ p' = IF passes THEN seen ELSE aged
  /\ run' = IF ~passes \/ aged.moved < Pause THEN Older(run, 1) ELSE 0
  /\ still' = IF passes /\ changed THEN 0 ELSE Older(still, 1)
  /\ changes' = IF flips THEN <<0, older[1]>> ELSE older

Next == \E moves, passes \in BOOLEAN : Tick(moves, passes)

Spec == Init /\ [][Next]_progressVars

----------------------------------------------------------------------------
\* Every variable keeps its type.
TypeOK ==
  /\ p \in Progress
  /\ pending \in BOOLEAN /\ gap \in 0 .. MaxGap
  /\ run \in Age /\ still \in Age /\ changes \in Age \X Age

\* A report does not flap: a third change comes no sooner than RecoverAfter
\* plus half the window after the first of them, however the member's
\* commits and the engine's passes fall.
NoFlapping ==
  [][changes'[1] = 0 => changes[2] = Never \/ changes[2] + 1 >= RecoverAfter + Pause]_progressVars

\* A member whose head has been seen moving steadily for RecoverAfter is not
\* stalled at the next pass.
SteadyMemberIsMoving == (gap = 0 /\ run > RecoverAfter) => ~p.stall

\* A member whose head has stood still for the window, or for StartGrace from
\* the start, is decided and stalled.
StillMemberIsStalled ==
  /\ (gap = 0 /\ p.moved # Never /\ still >= Window) => p.known /\ p.stall
  /\ (gap = 0 /\ still >= StartGrace) => p.known /\ (p.stall \/ still < Window)

\* What observe keeps to however commits and passes fall: types, a judgement
\* that follows what was seen, both ways, and a report that does not flap.
ProgressKept ==
  [](TypeOK /\ SteadyMemberIsMoving /\ StillMemberIsStalled) /\ NoFlapping

=============================================================================
