------------------------ MODULE MergeProgressProofs ------------------------
(***************************************************************************)
(* Proofs about the judgement of stalled members for any stall window,     *)
(* start grace, recovery time and any pattern of the engine's passes.      *)
(***************************************************************************)
EXTENDS MergeProgress, TLAPS

-----------------------------------------------------------------------------
(* The inductive invariant.                                                *)

(* The ages run together: still is the age of the last move that was seen, *)
(* or of the start before there was one.                                   *)
AgesAgree ==
  /\ p.start >= still
  /\ p.moved = still \/ (p.moved = Never /\ p.start = still)

(* A stall is decided, and lasts no longer than the steady time allows.    *)
StallInv == p.stall => p.known /\ run <= p.steady

(* What the last change of the report says of the times.  It turned to     *)
(* stalled after a window without a move, and the steady time only starts  *)
(* after that; it turned back within a pause of a move.                    *)
ChangesInv ==
  /\ changes[1] <= changes[2]
  /\ p.stall =>
       /\ p.steady <= changes[1]
            \/ p.moved >= changes[1] + Pause \/ p.moved = Never
       /\ changes[2] = Never \/ changes[2] > changes[1] + Pause
  /\ ~p.stall =>
       /\ changes[1] = Never \/ p.moved < changes[1] + Pause
       /\ changes[2] = Never \/ changes[2] >= changes[1] + RecoverAfter

Inv ==
  /\ TypeOK /\ AgesAgree /\ StallInv /\ ChangesInv
  /\ StillMemberIsStalled /\ SteadyMemberIsMoving

-----------------------------------------------------------------------------
(* What the operators return.                                              *)

(* The horizon lies past every time the judgement compares with.           *)
LEMMA HorizonFacts ==
  /\ Pause \in Nat /\ Pause > 0 /\ StartGrace \in Nat /\ StartGrace > 0
  /\ RecoverAfter \in Nat /\ RecoverAfter > 0 /\ MaxGap \in Nat /\ MaxGap > 0
  /\ Never \in Nat /\ Never > Window /\ Never > StartGrace
  /\ Never > RecoverAfter + Pause
<1>1. /\ Pause \in Nat /\ Pause > 0 /\ StartGrace \in Nat /\ StartGrace > 0
      /\ RecoverAfter \in Nat /\ RecoverAfter > 0 /\ MaxGap \in Nat /\ MaxGap > 0
  BY MergeProgressAssumption DEF MergeProgressAssumption
<1>. DEFINE S == {Window, StartGrace, RecoverAfter + Pause}
<1>2. \E x \in S : \A y \in S : x >= y
  BY <1>1 DEF Window
<1>3. Max(S) \in S /\ \A y \in S : Max(S) >= y
  BY <1>2, Zenon DEF Max
<1>4. Max(S) \in Nat /\ \A y \in S : y \in Nat
  BY <1>1, <1>3 DEF Window
<1>. QED  BY <1>1, <1>3, <1>4 DEF Never, Horizon

(* An age grows by a tick, and stops at Never.                             *)
LEMMA OlderByOne ==
  ASSUME NEW a \in Age
  PROVE  /\ Older(a, 1) = IF a < Never THEN a + 1 ELSE Never
         /\ Older(a, 1) \in Age
<1>. DEFINE S == {a + 1, Never}
<1>1. a \in Nat /\ a <= Never /\ Never \in Nat
  BY HorizonFacts DEF Age
<1>2. \E x \in S : \A y \in S : x <= y
  BY <1>1
<1>3. Min(S) \in S /\ \A y \in S : Min(S) <= y
  BY <1>2, Zenon DEF Min
<1>4. Min(S) = IF a < Never THEN a + 1 ELSE Never
  BY <1>1, <1>3
<1>. QED  BY <1>1, <1>4 DEF Older, Age

(* observe, field by field.                                                *)
LEMMA Observed ==
  ASSUME NEW q \in Progress, NEW ch \in BOOLEAN
  PROVE  LET o == observe(q, ch)
             moved == IF ch THEN 0 ELSE q.moved
             steady == IF ch /\ q.stall /\ q.moved >= Pause THEN 0 ELSE q.steady
         IN  /\ o \in Progress
             /\ o.start = q.start /\ o.moved = moved /\ o.steady = steady
             /\ o.known <=> (q.known /\ q.stall) \/ moved # Never \/ q.start >= StartGrace
             /\ o.stall <=>
                  \/ q.known /\ q.stall /\ (moved >= Pause \/ steady < RecoverAfter)
                  \/ ~(q.known /\ q.stall) /\ moved # Never /\ moved >= Window
                  \/ /\ ~(q.known /\ q.stall) /\ moved = Never
                     /\ q.stall \/ q.start >= StartGrace
<1>. DEFINE moved == IF ch THEN 0 ELSE q.moved
            steady == IF ch /\ q.stall /\ q.moved >= Pause THEN 0 ELSE q.steady
            r == [start |-> q.start, moved |-> moved, steady |-> steady,
                  known |-> q.known, stall |-> q.stall]
<1>1. moved \in Age /\ steady \in Age /\ q.start \in Age /\ q.known \in BOOLEAN /\ q.stall \in BOOLEAN
  BY HorizonFacts DEF Progress, Age
<1>2. (IF ch THEN [q EXCEPT !.steady = SteadySince(q), !.moved = 0] ELSE q) = r
  BY DEF SteadySince, Progress
<1>3. /\ r.start = q.start /\ r.moved = moved /\ r.steady = steady
      /\ r.known = q.known /\ r.stall = q.stall
  OBVIOUS
<1>. HIDE DEF moved, steady, r
<1>4. /\ Decided(r) <=> (q.known /\ q.stall) \/ moved # Never \/ q.start >= StartGrace
      /\ Stalls(r) <=>
           \/ q.known /\ q.stall /\ (moved >= Pause \/ steady < RecoverAfter)
           \/ ~(q.known /\ q.stall) /\ moved # Never /\ moved >= Window
           \/ ~(q.known /\ q.stall) /\ moved = Never /\ (q.stall \/ q.start >= StartGrace)
  BY <1>3 DEF Decided, Stalls
<1>5. observe(q, ch) = [r EXCEPT !.known = Decided(r), !.stall = Stalls(r)]
  BY <1>2 DEF observe
<1>6. r \in Progress
  BY <1>1 DEF r, Progress
<1>7. Decided(r) \in BOOLEAN /\ Stalls(r) \in BOOLEAN
  BY Zenon DEF Decided, Stalls
<1>. DEFINE o == observe(q, ch)
<1>. HIDE DEF o
<1>8. /\ o \in Progress /\ o.start = r.start /\ o.moved = r.moved /\ o.steady = r.steady
      /\ o.known = Decided(r) /\ o.stall = Stalls(r)
  BY <1>5, <1>6, <1>7 DEF o, Progress
<1>9. /\ o.known <=> (q.known /\ q.stall) \/ moved # Never \/ q.start >= StartGrace
      /\ o.stall <=>
           \/ q.known /\ q.stall /\ (moved >= Pause \/ steady < RecoverAfter)
           \/ ~(q.known /\ q.stall) /\ moved # Never /\ moved >= Window
           \/ ~(q.known /\ q.stall) /\ moved = Never /\ (q.stall \/ q.start >= StartGrace)
  BY <1>4, <1>8, Zenon
<1>. QED  BY <1>3, <1>8, <1>9, Zenon DEF moved, steady, o

-----------------------------------------------------------------------------
(* A tick, field by field.                                                 *)

Up(a) == IF a < Never THEN a + 1 ELSE Never

(* A tick in which the loop does not pass: everything grows older.         *)
Waits ==
  /\ p'.start = Up(p.start) /\ p'.moved = Up(p.moved) /\ p'.steady = Up(p.steady)
  /\ p'.known = p.known /\ p'.stall = p.stall
  /\ run' = Up(run) /\ still' = Up(still)
  /\ changes'[1] = Up(changes[1]) /\ changes'[2] = Up(changes[2])
  /\ gap' # 0

(* A tick in which it passes, and finds the head changed or not.           *)
Passes(ch) ==
  /\ p'.start = Up(p.start)
  /\ p'.moved = IF ch THEN 0 ELSE Up(p.moved)
  /\ p'.steady = IF ch /\ p.stall /\ Up(p.moved) >= Pause THEN 0 ELSE Up(p.steady)
  /\ p'.known <=> (p.known /\ p.stall) \/ p'.moved # Never \/ p'.start >= StartGrace
  /\ p'.stall <=>
       \/ p.known /\ p.stall /\ (p'.moved >= Pause \/ p'.steady < RecoverAfter)
       \/ ~(p.known /\ p.stall) /\ p'.moved # Never /\ p'.moved >= Window
       \/ ~(p.known /\ p.stall) /\ p'.moved = Never /\ (p.stall \/ p'.start >= StartGrace)
  /\ run' = IF Up(p.moved) < Pause THEN Up(run) ELSE 0
  /\ still' = IF ch THEN 0 ELSE Up(still)
  /\ changes'[1] = IF (p'.stall <=> p.stall) THEN Up(changes[1]) ELSE 0
  /\ changes'[2] = IF (p'.stall <=> p.stall) THEN Up(changes[2]) ELSE Up(changes[1])

LEMMA UpType == \A a \in Age : Up(a) \in Age /\ Older(a, 1) = Up(a)
BY OlderByOne DEF Up

LEMMA TickCases ==
  ASSUME TypeOK, NEW moves \in BOOLEAN, NEW passes \in BOOLEAN, Tick(moves, passes)
  PROVE  TypeOK' /\ (Waits \/ \E ch \in BOOLEAN : Passes(ch))
<1>. DEFINE aged == [p EXCEPT !.start = Older(@, 1), !.moved = Older(@, 1),
                              !.steady = Older(@, 1)]
            changed == pending \/ moves
            seen == observe(aged, changed)
            older == <<Older(changes[1], 1), Older(changes[2], 1)>>
<1>1. /\ p \in Progress /\ pending \in BOOLEAN /\ gap \in 0 .. MaxGap
      /\ run \in Age /\ still \in Age /\ changes[1] \in Age /\ changes[2] \in Age
      /\ p.start \in Age /\ p.moved \in Age /\ p.steady \in Age
      /\ p.known \in BOOLEAN /\ p.stall \in BOOLEAN
  BY DEF TypeOK, Progress
<1>2. /\ aged \in Progress /\ aged.start = Up(p.start) /\ aged.moved = Up(p.moved)
      /\ aged.steady = Up(p.steady) /\ aged.known = p.known /\ aged.stall = p.stall
  BY <1>1, UpType DEF Progress
<1>3. older[1] = Up(changes[1]) /\ older[2] = Up(changes[2]) /\ older \in Age \X Age
  BY <1>1, UpType
<1>4. changed \in BOOLEAN
  BY <1>1
<1>. HIDE DEF aged, changed
<1>5. /\ passes \/ gap + 1 < MaxGap
      /\ gap' = IF passes THEN 0 ELSE gap + 1
      /\ pending' = (~passes /\ changed)
      /\ p' = IF passes THEN seen ELSE aged
      /\ run' = IF ~passes \/ aged.moved < Pause THEN Up(run) ELSE 0
      /\ still' = IF passes /\ changed THEN 0 ELSE Up(still)
      /\ changes' = IF passes /\ seen.stall # p.stall THEN <<0, older[1]>> ELSE older
  BY <1>1, UpType DEF Tick, aged, changed
<1>6. seen \in Progress
  BY <1>2, <1>4, Observed
<1>. HIDE DEF seen, older
<1>7. 0 \in Age /\ Up(run) \in Age /\ Up(still) \in Age
  BY <1>1, UpType, HorizonFacts DEF Age
<1>8. TypeOK'
  <2>1. p' \in Progress /\ pending' \in BOOLEAN
    BY <1>2, <1>4, <1>5, <1>6
  <2>2. gap' \in 0 .. MaxGap
    BY <1>1, <1>5, HorizonFacts
  <2>3. run' \in Age /\ still' \in Age
    BY <1>5, <1>7
  <2>4. changes' \in Age \X Age
    BY <1>3, <1>5, <1>7
  <2>. QED  BY <2>1, <2>2, <2>3, <2>4 DEF TypeOK
<1>9. CASE ~passes
  <2>1. gap' # 0
    BY <1>1, <1>5, <1>9, HorizonFacts
  <2>. QED  BY <1>2, <1>3, <1>5, <1>8, <1>9, <2>1 DEF Waits
<1>10. CASE passes
  <2>1. p' = seen /\ (IF changed THEN 0 ELSE Up(p.moved)) = seen.moved
    BY <1>2, <1>4, <1>5, <1>10, Observed DEF seen
  <2>2. /\ p'.start = Up(p.start)
        /\ p'.moved = IF changed THEN 0 ELSE Up(p.moved)
        /\ p'.steady = IF changed /\ p.stall /\ Up(p.moved) >= Pause THEN 0 ELSE Up(p.steady)
    BY <1>2, <1>4, <2>1, Observed DEF seen
  <2>3. p'.known <=> (p.known /\ p.stall) \/ p'.moved # Never \/ p'.start >= StartGrace
    BY <1>2, <1>4, <2>1, <2>2, Observed DEF seen
  <2>4. p'.stall <=>
          \/ p.known /\ p.stall /\ (p'.moved >= Pause \/ p'.steady < RecoverAfter)
          \/ ~(p.known /\ p.stall) /\ p'.moved # Never /\ p'.moved >= Window
          \/ /\ ~(p.known /\ p.stall) /\ p'.moved = Never
             /\ p.stall \/ p'.start >= StartGrace
    BY <1>2, <1>4, <2>1, <2>2, Observed DEF seen
  <2>5. /\ run' = IF Up(p.moved) < Pause THEN Up(run) ELSE 0
        /\ still' = IF changed THEN 0 ELSE Up(still)
        /\ changes'[1] = IF (p'.stall <=> p.stall) THEN Up(changes[1]) ELSE 0
        /\ changes'[2] = IF (p'.stall <=> p.stall) THEN Up(changes[2]) ELSE Up(changes[1])
    <3>1. p'.stall \in BOOLEAN
      BY <1>8 DEF TypeOK, Progress
    <3>2. changes' = IF p'.stall = p.stall THEN older ELSE <<0, older[1]>>
      BY <1>5, <1>10, <2>1
    <3>. QED  BY <1>1, <1>2, <1>3, <1>5, <1>10, <3>1, <3>2
  <2>6. Passes(changed)
    BY <2>2, <2>3, <2>4, <2>5 DEF Passes
  <2>. QED  BY <1>4, <1>8, <2>6
<1>. QED  BY <1>9, <1>10

-----------------------------------------------------------------------------
(* The invariant.                                                          *)

(* The types of everything the arithmetic below compares.                  *)
LEMMA Ages ==
  ASSUME TypeOK
  PROVE  /\ p.start \in 0 .. Never /\ p.moved \in 0 .. Never /\ p.steady \in 0 .. Never
         /\ p.known \in BOOLEAN /\ p.stall \in BOOLEAN
         /\ run \in 0 .. Never /\ still \in 0 .. Never
         /\ changes[1] \in 0 .. Never /\ changes[2] \in 0 .. Never
BY DEF TypeOK, Progress, Age

LEMMA InitInv == Init => Inv
<1>. SUFFICES ASSUME Init PROVE Inv
  OBVIOUS
<1>1. PICK reported \in BOOLEAN :
        p = [start |-> 0, moved |-> Never, steady |-> Never,
             known |-> reported, stall |-> reported]
  BY DEF Init
<1>2. /\ pending = FALSE /\ gap = 0 /\ run = 0 /\ still = 0
      /\ changes = <<Never, Never>>
  BY DEF Init
<1>3. 0 \in Age /\ Never \in Age
  BY HorizonFacts DEF Age
<1>4. p \in Progress
  BY <1>1, <1>3 DEF Progress
<1>5. TypeOK
  <2>1. pending \in BOOLEAN
    BY <1>2
  <2>2. gap \in 0 .. MaxGap /\ run \in Age /\ still \in Age /\ changes \in Age \X Age
    BY <1>2, <1>3, HorizonFacts
  <2>. QED  BY <1>4, <2>1, <2>2 DEF TypeOK
<1>6. p.start = 0 /\ p.moved = Never /\ p.steady = Never /\ (p.stall => p.known)
  BY <1>1
<1>7. AgesAgree /\ StallInv
  BY <1>2, <1>6, HorizonFacts DEF AgesAgree, StallInv
<1>8. ChangesInv
  BY <1>2, <1>6, HorizonFacts DEF ChangesInv
<1>9. StillMemberIsStalled /\ SteadyMemberIsMoving
  BY <1>2, HorizonFacts DEF StillMemberIsStalled, SteadyMemberIsMoving, Window
<1>. QED  BY <1>5, <1>7, <1>8, <1>9 DEF Inv

LEMMA WaitsInv ==
  ASSUME Inv, TypeOK', Waits
  PROVE  Inv'
<1>1. TypeOK /\ AgesAgree /\ StallInv /\ ChangesInv
  BY DEF Inv
<1>2. AgesAgree'
  BY <1>1, Ages, HorizonFacts DEF AgesAgree, Waits, Up
<1>3. StallInv'
  BY <1>1, Ages, HorizonFacts DEF StallInv, Waits, Up
<1>4. ChangesInv'
  <2>1. (changes[1] <= changes[2])'
    BY <1>1, Ages, HorizonFacts DEF ChangesInv, Waits, Up
  <2>2. ASSUME p'.stall PROVE (p.steady <= changes[1] \/ p.moved >= changes[1] + Pause
                                \/ p.moved = Never)'
    BY <1>1, <2>2, Ages, HorizonFacts DEF ChangesInv, Waits, Up
  <2>3. ASSUME p'.stall PROVE (changes[2] = Never \/ changes[2] > changes[1] + Pause)'
    BY <1>1, <2>3, Ages, HorizonFacts DEF ChangesInv, Waits, Up
  <2>4. ASSUME ~p'.stall PROVE (changes[1] = Never \/ p.moved < changes[1] + Pause)'
    BY <1>1, <2>4, Ages, HorizonFacts DEF ChangesInv, Waits, Up
  <2>5. ASSUME ~p'.stall PROVE (changes[2] = Never \/ changes[2] >= changes[1] + RecoverAfter)'
    BY <1>1, <2>5, Ages, HorizonFacts DEF ChangesInv, Waits, Up
  <2>. QED  BY <2>1, <2>2, <2>3, <2>4, <2>5 DEF ChangesInv
<1>5. StillMemberIsStalled' /\ SteadyMemberIsMoving'
  BY DEF StillMemberIsStalled, SteadyMemberIsMoving, Waits
<1>. QED  BY <1>2, <1>3, <1>4, <1>5 DEF Inv

LEMMA PassesInv ==
  ASSUME Inv, TypeOK', NEW ch \in BOOLEAN, Passes(ch)
  PROVE  Inv'
<1>1. TypeOK /\ AgesAgree /\ StallInv /\ ChangesInv
  BY DEF Inv
<1>2. AgesAgree'
  BY <1>1, Ages, HorizonFacts DEF AgesAgree, Passes, Up
<1>3. StallInv'
  BY <1>1, Ages, HorizonFacts DEF StallInv, Passes, Up, Window
<1>4. ChangesInv'
  <2>1. (changes[1] <= changes[2])'
    BY <1>1, Ages, HorizonFacts DEF ChangesInv, Passes, Up
  <2>2. ASSUME p'.stall PROVE (p.steady <= changes[1] \/ p.moved >= changes[1] + Pause
                                \/ p.moved = Never)'
    BY <1>1, <2>2, Ages, HorizonFacts DEF StallInv, ChangesInv, Passes, Up, Window
  <2>3. ASSUME p'.stall PROVE (changes[2] = Never \/ changes[2] > changes[1] + Pause)'
    BY <1>1, <2>3, Ages, HorizonFacts DEF StallInv, ChangesInv, Passes, Up, Window
  <2>4. ASSUME ~p'.stall PROVE (changes[1] = Never \/ p.moved < changes[1] + Pause)'
    BY <1>1, <2>4, Ages, HorizonFacts DEF StallInv, ChangesInv, Passes, Up, Window
  <2>5. ASSUME ~p'.stall PROVE (changes[2] = Never \/ changes[2] >= changes[1] + RecoverAfter)'
    BY <1>1, <2>5, Ages, HorizonFacts DEF StallInv, ChangesInv, Passes, Up, Window
  <2>. QED  BY <2>1, <2>2, <2>3, <2>4, <2>5 DEF ChangesInv
<1>5. StillMemberIsStalled'
  BY <1>1, Ages, HorizonFacts DEF AgesAgree, StillMemberIsStalled, Passes, Up, Window
<1>6. SteadyMemberIsMoving'
  BY <1>1, <1>3, Ages, HorizonFacts DEF StallInv, SteadyMemberIsMoving, Passes, Up, Window
<1>. QED  BY <1>2, <1>3, <1>4, <1>5, <1>6 DEF Inv

LEMMA NextInv == Inv /\ [Next]_progressVars => Inv'
<1>. SUFFICES ASSUME Inv, [Next]_progressVars PROVE Inv'
  OBVIOUS
<1>1. CASE Next
  <2>1. PICK moves \in BOOLEAN, passes \in BOOLEAN : Tick(moves, passes)
    BY <1>1 DEF Next
  <2>2. TypeOK' /\ (Waits \/ \E ch \in BOOLEAN : Passes(ch))
    BY <2>1, TickCases DEF Inv
  <2>. QED  BY <2>2, WaitsInv, PassesInv
<1>2. CASE UNCHANGED progressVars
  BY <1>2 DEF progressVars, Inv, TypeOK, AgesAgree, StallInv, ChangesInv,
              StillMemberIsStalled, SteadyMemberIsMoving
<1>. QED  BY <1>1, <1>2

LEMMA Invariance == Spec => []Inv
BY InitInv, NextInv, PTL DEF Spec

(* A report changes only at a pass, and what the last two changes required *)
(* of the moves keeps the third away from the first.                       *)
LEMMA NextNoFlapping ==
  ASSUME Inv, Next, changes'[1] = 0
  PROVE  changes[2] = Never \/ changes[2] + 1 >= RecoverAfter + Pause
<1>1. PICK moves \in BOOLEAN, passes \in BOOLEAN : Tick(moves, passes)
  BY DEF Next
<1>2. TypeOK /\ AgesAgree /\ StallInv /\ ChangesInv
  BY DEF Inv
<1>3. TypeOK' /\ (Waits \/ \E ch \in BOOLEAN : Passes(ch))
  BY <1>1, <1>2, TickCases
<1>4. ~Waits
  BY <1>2, Ages, HorizonFacts DEF Waits, Up
<1>5. PICK ch \in BOOLEAN : Passes(ch)
  BY <1>3, <1>4
<1>6. ~(p'.stall <=> p.stall)
  BY <1>2, <1>5, Ages, HorizonFacts DEF Passes, Up
<1>7. CASE p.stall
  BY <1>2, <1>3, <1>5, <1>6, <1>7, Ages, HorizonFacts
     DEF StallInv, ChangesInv, Passes, Up, Window
<1>8. CASE ~p.stall
  BY <1>2, <1>3, <1>5, <1>6, <1>8, Ages, HorizonFacts
     DEF StallInv, ChangesInv, Passes, Up, Window
<1>. QED  BY <1>7, <1>8

-----------------------------------------------------------------------------
(* The theorems.                                                           *)

(* Every variable of the judgement keeps its type: no age leaves its range *)
(* whatever the windows are.                                               *)
THEOREM ProgressTypeCorrect == Spec => []TypeOK
BY Invariance, PTL DEF Inv

(* A member whose head has stood still for the window, or for the start    *)
(* grace, is reported stalled by the pass that sees it.                    *)
THEOREM StillIsStalled == Spec => []StillMemberIsStalled
BY Invariance, PTL DEF Inv

(* A member that has moved steadily for the recovery time is not reported  *)
(* stalled by the pass that sees it.                                       *)
THEOREM SteadyIsMoving == Spec => []SteadyMemberIsMoving
BY Invariance, PTL DEF Inv

(* The report does not flap: three changes take at least the recovery time *)
(* and half the stall window.                                              *)
THEOREM ReportsDoNotFlap == Spec => NoFlapping
<1>1. Inv /\ [Next]_progressVars =>
        [changes'[1] = 0 => changes[2] = Never \/ changes[2] + 1 >= RecoverAfter + Pause]_progressVars
  BY NextNoFlapping
<1>. QED  BY <1>1, Invariance, PTL DEF Spec, NoFlapping

(* What observe keeps to however commits and passes fall, all together.    *)
THEOREM JudgementIsKept == Spec => ProgressKept
BY ProgressTypeCorrect, StillIsStalled, SteadyIsMoving, ReportsDoNotFlap, PTL DEF ProgressKept

=============================================================================
