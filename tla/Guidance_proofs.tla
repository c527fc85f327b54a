--------------------------- MODULE Guidance_proofs ---------------------------
(***************************************************************************)
(* Theorems about the controllers of pd-control, for every route, leg without*)
(* a direction, hysteresis and bound: the terminal controller, the transfer   *)
(* controller asked at any boundary, and the same controller under the core.  *)
(***************************************************************************)
EXTENDS MCGuidance, TLAPS

\* The smaller of two integers.
LEMMA SmallerOfTwo ==
  ASSUME NEW a \in Int, NEW b \in Int
  PROVE  LET smaller == IF a <= b THEN a ELSE b
         IN  Min({a, b}) = smaller /\ Asked!Min({a, b}) = smaller /\ Terminals!Min({a, b}) = smaller
BY DEF Min, Asked!Min, Terminals!Min

----------------------------------------------------------------------------
(* The terminal controller.                                                 *)

States ==
  [mode : {"none", "LatestSafe", "NominalReady", "NominalPending"}, ready : Nat, release : Nat,
   settle : BOOLEAN, admitted : BOOLEAN, completed : BOOLEAN, plan : Int, replans : Nat]
TerminalTypes ==
  /\ now \in Nat /\ state \in States
  /\ past \in [calm : Nat, releases : Nat]

\* What would release the brake was calm; a plan is an admitted one of a policy that has plans.
BrakeIsCounted ==
  /\ state.release < TerminalScenario.gateTicks /\ past.calm <= TerminalScenario.gateTicks
  /\ state.release <= past.calm
PlanIsOwned(s) ==
  s.plan # -1 => /\ s.admitted /\ ~s.completed
                 /\ policy \in {"retained", "countdown"}
TerminalInv ==
  setting = "terminal" =>
    TerminalTypes /\ BrakeIsCounted /\ PlanIsOwned(state) /\ Terminals!PlanEndsOnce

\* The mode is chosen: nothing of the plan changes, and the brake is released when it is due.
LEMMA ModeIsSelected ==
  ASSUME NEW v \in Terminals!Views, TerminalTypes, BrakeIsCounted
  PROVE  LET s == Terminals!SelectMode(state, v)
             calm == Terminals!Calm(state, v) IN
         /\ s \in States
         /\ s.admitted = state.admitted /\ s.completed = state.completed
         /\ s.plan = state.plan /\ s.replans = state.replans
         /\ calm \in 0..TerminalScenario.gateTicks
         /\ s.release < TerminalScenario.gateTicks /\ s.release <= calm
         /\ state.mode = "LatestSafe" /\ s.mode # "LatestSafe" => calm = TerminalScenario.gateTicks
<1> DEFINE gate == TerminalScenario.gateTicks
           s == Terminals!SelectMode(state, v)
           calm == Terminals!Calm(state, v)
           n == Terminals!ReleaseTicks(state, v)
           wide == Terminals!IsReady(state, v) /\ v.margin = "wide"
           mode == IF v.margin = "spent" \/ (state.mode = "LatestSafe" /\ n < gate)
                   THEN "LatestSafe"
                   ELSE IF Terminals!IsReady(state, v) THEN "NominalReady" ELSE "NominalPending"
<1>1. gate \in Nat \ {0}
  BY TerminalsAssumption DEF Terminals!TerminalAssumption
<1>2. state.release \in Nat /\ past.calm \in Nat /\ state.ready \in Nat
  BY DEF TerminalTypes, States
<1>3. calm = IF wide THEN (IF past.calm + 1 <= gate THEN past.calm + 1 ELSE gate) ELSE 0
  <2>1. past.calm + 1 \in Int /\ gate \in Int
    BY <1>1, <1>2
  <2>2. Terminals!Min({past.calm + 1, gate}) = IF past.calm + 1 <= gate THEN past.calm + 1 ELSE gate
    BY <2>1, SmallerOfTwo
  <2> QED BY <2>2 DEF Terminals!Calm
<1>4. n = IF state.mode = "LatestSafe" /\ wide THEN state.release + 1 ELSE 0
  BY DEF Terminals!ReleaseTicks
<1>5. Terminals!Ticks(state.ready, v.nominal) \in Nat
  <2>1. state.ready + 1 \in Int /\ gate \in Int
    BY <1>1, <1>2
  <2>2. Terminals!Min({state.ready + 1, gate}) = IF state.ready + 1 <= gate THEN state.ready + 1
                                                 ELSE gate
    BY <2>1, SmallerOfTwo
  <2>3. Terminals!Min({state.ready + 1, gate}) \in Nat
    BY <1>1, <1>2, <2>2
  <2> QED BY <2>3 DEF Terminals!Ticks
<1>6. s = [state EXCEPT !.mode = mode, !.release = IF n = gate THEN 0 ELSE n,
                        !.ready = Terminals!Ticks(state.ready, v.nominal)]
  BY DEF Terminals!SelectMode
<1> HIDE DEF s, calm, n, wide
<1>7. n \in Nat /\ n <= gate /\ n <= calm /\ calm \in 0..gate
  BY <1>1, <1>2, <1>3, <1>4 DEF BrakeIsCounted
<1>8. mode \in {"LatestSafe", "NominalReady", "NominalPending"}
  OBVIOUS
<1> HIDE DEF mode
<1>9. /\ s \in States
      /\ s.admitted = state.admitted /\ s.completed = state.completed
      /\ s.plan = state.plan /\ s.replans = state.replans
      /\ s.release = (IF n = gate THEN 0 ELSE n) /\ s.mode = mode
  BY <1>5, <1>6, <1>7, <1>8 DEF TerminalTypes, States
<1>10. ASSUME state.mode = "LatestSafe", mode # "LatestSafe" PROVE calm = gate
  <2>1. n >= gate
    BY <1>1, <1>7, <1>10 DEF mode
  <2> QED BY <1>1, <1>7, <2>1
<1> QED BY <1>1, <1>7, <1>9, <1>10 DEF s, calm

\* A state with a plan, if any, that is owned and not over; and what one update may make of it.
Planned(s) == s \in States /\ PlanIsOwned(s) /\ (s.completed => s.plan = -1)
SameMode(s, r) == r.mode = s.mode /\ r.release = s.release
OnlyRetainedReplaced(s, r) ==
  s.plan # -1 /\ r.plan # -1 /\ r.plan # s.plan =>
    policy = "retained" /\ r.replans = s.replans + 1

\* A plan is made or replaced with time left; one that is kept has time left.
LEMMA PlanIsMaintained ==
  ASSUME NEW s \in States, NEW t \in Nat, NEW burn \in Nat \ {0},
         NEW fits, NEW fresh, NEW r, r = Terminals!Maintain(s, t, burn, fits, fresh)
  PROVE  /\ r \in States /\ r.plan > t /\ SameMode(s, r)
         /\ r.admitted = s.admitted /\ r.completed = s.completed
         /\ s.plan # -1 /\ r.plan # s.plan => r.replans = s.replans + 1
<1> DEFINE n == IF s.plan = -1 THEN s.replans ELSE s.replans + 1
           made == [s EXCEPT !.plan = t + burn, !.replans = n]
           kept == s.plan # -1 /\ s.plan > t /\ (fits \/ ~fresh)
<1>1. r = IF kept THEN s ELSE made
  BY DEF Terminals!Maintain, Terminals!NoTime, States
<1>2. CASE kept
  BY <1>1, <1>2 DEF SameMode, States
<1>3. CASE ~kept
  <2>1. r = made
    BY <1>1, <1>3
  <2>2. t + burn \in Int /\ t + burn > t /\ n \in Nat
    BY DEF States
  <2> HIDE DEF n
  <2>3. /\ made \in States /\ made.plan = t + burn /\ made.mode = s.mode
        /\ made.release = s.release /\ made.admitted = s.admitted /\ made.completed = s.completed
        /\ made.replans = n
    BY <2>2 DEF States
  <2> QED BY <2>1, <2>2, <2>3 DEF SameMode, n
<1> QED BY <1>2, <1>3

\* The plan is admitted or over for good, released, maintained, counted down: it is over once,
\* and what is flown has time left.
LEMMA PlanIsCommanded ==
  ASSUME NEW t \in Nat, NEW v \in Terminals!Views,
         TerminalTypes, BrakeIsCounted, Planned(state),
         NEW done, done = Terminals!CommandState(state, t, v)
  PROVE  /\ Planned(done.state) /\ SameMode(Terminals!SelectMode(state, v), done.state)
         /\ done.calm = Terminals!Calm(state, v)
         /\ done.arrival = done.state.plan
         /\ done.arrival = -1 \/ done.arrival > t
         /\ OnlyRetainedReplaced(state, done.state)
         /\ state.completed => done.state.completed
         /\ done.reason # "none" => ~state.completed /\ done.state.completed
<1> DEFINE moded == Terminals!SelectMode(state, v)
           admitted == Terminals!Admit(moded, v)
           released == Terminals!ReleaseReason(admitted, v)
           kept == IF released # "none" THEN Terminals!EndPlan(admitted)
                   ELSE IF Terminals!Active(admitted)
                   THEN Terminals!Maintain(admitted, t, v.burn, v.fits, v.fresh)
                   ELSE admitted
           counting == IF policy = "countdown" THEN Terminals!StartCountdown(kept, t, v) ELSE kept
           over == IF policy = "countdown" THEN Terminals!CountdownReason(counting, t, v)
                   ELSE "none"
           ended == IF over = "none" THEN counting ELSE Terminals!EndPlan(counting)
           Follows(r) == /\ Planned(r) /\ SameMode(moded, r) /\ OnlyRetainedReplaced(state, r)
                         /\ state.completed => r.completed
<1>1. done = [state |-> ended, arrival |-> ended.plan, calm |-> Terminals!Calm(state, v),
              reason |-> IF over = "none" THEN released ELSE over]
  BY DEF Terminals!CommandState
<1>2. /\ moded \in States /\ moded.admitted = state.admitted /\ moded.completed = state.completed
      /\ moded.plan = state.plan /\ moded.replans = state.replans
  BY ModeIsSelected
<1>3. v.burn \in Nat \ {0} /\ v.fits \in BOOLEAN /\ v.fresh \in BOOLEAN
  BY TerminalsAssumption DEF Terminals!Views, Terminals!TerminalAssumption
<1> HIDE DEF moded
<1>4. /\ Follows(admitted) /\ admitted.plan = state.plan /\ admitted.replans = state.replans
      /\ state.admitted => admitted.admitted
  <2>1. CASE admitted = moded
    BY <1>2, <2>1 DEF Planned, PlanIsOwned, SameMode, OnlyRetainedReplaced
  <2>2. CASE policy = "retained" /\ ~moded.admitted /\ ~moded.completed
             /\ admitted = [moded EXCEPT !.admitted = TRUE]
    BY <1>2, <2>2 DEF Planned, PlanIsOwned, SameMode, OnlyRetainedReplaced, States
  <2>3. CASE policy = "retained" /\ ~moded.admitted /\ ~moded.completed
             /\ admitted = [moded EXCEPT !.completed = TRUE]
    BY <1>2, <2>3 DEF Planned, PlanIsOwned, SameMode, OnlyRetainedReplaced, States
  <2> QED BY <2>1, <2>2, <2>3 DEF Terminals!Admit
<1> HIDE DEF admitted
<1>5. released # "none" => Terminals!Active(admitted)
  BY DEF Terminals!ReleaseReason
<1>6. ASSUME NEW r \in States, SameMode(moded, r)
      PROVE  /\ Follows(Terminals!EndPlan(r))
             /\ Terminals!EndPlan(r).completed /\ Terminals!EndPlan(r).plan = -1
  <2> DEFINE last == [r EXCEPT !.completed = TRUE, !.plan = -1]
  <2>1. Terminals!EndPlan(r) = last
    BY DEF Terminals!EndPlan, Terminals!NoTime
  <2>2. last \in States /\ last.plan = -1 /\ last.mode = r.mode /\ last.release = r.release
    <3>1. r \in States /\ -1 \in Int
      BY <1>6
    <3>2. last.plan = -1 /\ last.mode = r.mode
      BY <3>1 DEF States
    <3> QED BY <3>1, <3>2 DEF States
  <2>3. last.completed
    BY <1>6 DEF States
  <2> HIDE DEF last
  <2>4. Follows(last)
    BY <1>6, <2>2, <2>3 DEF Planned, PlanIsOwned, SameMode, OnlyRetainedReplaced
  <2> QED BY <2>1, <2>2, <2>3, <2>4
<1>7. /\ Follows(kept)
      /\ policy # "countdown" => kept.plan = -1 \/ kept.plan > t
      /\ policy = "countdown" => kept = admitted
      /\ released # "none" => kept.completed /\ ~state.completed /\ policy # "countdown"
  <2>1. CASE released # "none"
    <3>1. policy = "retained" /\ ~admitted.completed
      BY <1>5, <2>1 DEF Terminals!Active
    <3>2. kept = Terminals!EndPlan(admitted)
      BY <2>1
    <3>3. Follows(kept) /\ kept.completed /\ kept.plan = -1
      BY <1>4, <1>6, <3>2 DEF Planned
    <3> QED BY <1>4, <2>1, <3>1, <3>3
  <2>2. CASE released = "none" /\ Terminals!Active(admitted)
    <3>1. policy = "retained" /\ admitted.admitted /\ ~admitted.completed
      BY <2>2 DEF Terminals!Active
    <3>2. kept = Terminals!Maintain(admitted, t, v.burn, v.fits, v.fresh)
      BY <2>2
    <3>3. admitted \in States
      BY <1>4 DEF Planned
    <3>4. /\ kept \in States /\ kept.plan > t /\ SameMode(admitted, kept)
          /\ kept.admitted = admitted.admitted /\ kept.completed = admitted.completed
          /\ admitted.plan # -1 /\ kept.plan # admitted.plan =>
               kept.replans = admitted.replans + 1
      BY <1>3, <3>2, <3>3, PlanIsMaintained
    <3> HIDE DEF kept
    <3> QED BY <1>4, <2>2, <3>1, <3>4
        DEF Planned, PlanIsOwned, SameMode, OnlyRetainedReplaced
  <2>3. CASE released = "none" /\ ~Terminals!Active(admitted)
    <3>1. kept = admitted
      BY <2>3
    <3>2. policy # "countdown" => admitted.plan = -1
      BY <1>4, <2>3 DEF Planned, PlanIsOwned, Terminals!Active
    <3> QED BY <1>4, <2>3, <3>1, <3>2
  <2> QED BY <2>1, <2>2, <2>3
<1> HIDE DEF kept, released
<1>8. /\ Follows(counting)
      /\ policy # "countdown" => counting = kept
  <2>1. CASE counting = kept
    BY <1>7, <2>1
  <2>2. CASE counting # kept
    <3> DEFINE begun == [kept EXCEPT !.admitted = TRUE]
    <3>1. policy = "countdown" /\ ~kept.admitted /\ ~kept.completed
          /\ counting = Terminals!Maintain(begun, t, v.burn, TRUE, FALSE)
      BY <2>2 DEF Terminals!StartCountdown
    <3>2. kept \in States /\ kept.plan = -1
      BY <1>7, <3>1 DEF Planned, PlanIsOwned
    <3>3. /\ begun \in States /\ SameMode(kept, begun) /\ begun.admitted
          /\ ~begun.completed
      BY <3>1, <3>2 DEF States, SameMode
    <3> HIDE DEF begun, counting
    <3>4. /\ counting \in States /\ SameMode(begun, counting)
          /\ counting.admitted /\ ~counting.completed
      <4>1. PICK fits, fresh : counting = Terminals!Maintain(begun, t, v.burn, fits, fresh)
        BY <3>1, Zenon
      <4> QED BY <1>3, <3>3, <4>1, PlanIsMaintained
    <3>5. state.plan = -1 /\ ~state.completed
      BY <1>4, <1>7, <3>1, <3>2
    <3> QED BY <1>7, <3>1, <3>3, <3>4, <3>5
        DEF Planned, PlanIsOwned, SameMode, OnlyRetainedReplaced
  <2> QED BY <2>1, <2>2
<1> HIDE DEF counting
<1>9. /\ Follows(ended) /\ (ended.plan = -1 \/ ended.plan > t)
      /\ over # "none" => ended.completed /\ ~state.completed /\ policy = "countdown"
      /\ over = "none" => ended = counting
  <2>1. CASE over = "none"
    <3>1. ended = counting
      BY <2>1
    <3>2. policy = "countdown" => counting.plan = -1 \/ counting.plan > t
      <4>1. counting.plan \in Int
        BY <1>8 DEF Planned, States
      <4> QED BY <2>1, <4>1 DEF Terminals!CountdownReason, Terminals!NoTime
    <3> QED BY <1>7, <1>8, <2>1, <3>1, <3>2
  <2>2. CASE over # "none"
    <3>1. ended = Terminals!EndPlan(counting) /\ policy = "countdown" /\ counting.plan # -1
      BY <2>2 DEF Terminals!CountdownReason, Terminals!NoTime
    <3>2. ~counting.completed
      BY <1>8, <3>1 DEF Planned
    <3>3. Follows(ended) /\ ended.completed /\ ended.plan = -1
      BY <1>6, <1>8, <3>1 DEF Planned
    <3> QED BY <1>8, <2>2, <3>1, <3>2, <3>3
  <2> QED BY <2>1, <2>2
<1> HIDE DEF ended, over
<1>10. /\ done.state = ended /\ done.arrival = ended.plan
       /\ done.calm = Terminals!Calm(state, v)
       /\ done.reason = IF over = "none" THEN released ELSE over
  BY <1>1
<1>11. done.reason # "none" => ~state.completed /\ ended.completed
  BY <1>7, <1>8, <1>9, <1>10
<1> QED BY <1>9, <1>10, <1>11 DEF moded

\* Every step keeps the invariant, and is one of those the terminal controller may take.
TerminalStepLegal == Terminals!PlanRunsDown /\ Terminals!BrakeHeld

\* One update keeps the brake counted and the plan owned.
LEMMA UpdateKeepsTerminal ==
  ASSUME TerminalInv, setting = "terminal", setting' = setting, Terminals!Update
  PROVE  TerminalInv' /\ TerminalStepLegal
<1> DEFINE gate == TerminalScenario.gateTicks
<1>1. PICK g \in Terminals!Grounds, v \in Terminals!Views :
        LET done == Terminals!CommandState(state, now', v)
            command == Terminals!Command(state.settle, g)
        IN  /\ state' = [done.state EXCEPT !.settle = command = "settle"]
            /\ shown' = [command |-> command, arrival |-> done.arrival, reason |-> done.reason]
            /\ past' = [calm |-> done.calm,
                        releases |-> past.releases + IF done.reason = "none" THEN 0 ELSE 1]
  BY DEF Terminals!Update
<1>2. now' = now + 1 /\ UNCHANGED <<policy, coordinated>>
  BY DEF Terminals!Update
<1>3. TerminalTypes /\ BrakeIsCounted /\ PlanIsOwned(state) /\ Terminals!PlanEndsOnce
  BY DEF TerminalInv
<1>4. now' \in Nat /\ Planned(state)
  BY <1>2, <1>3 DEF TerminalTypes, Planned, Terminals!PlanEndsOnce, Terminals!NoTime
<1> DEFINE moded == Terminals!SelectMode(state, v)
           done == Terminals!CommandState(state, now', v)
           settle == Terminals!Command(state.settle, g) = "settle"
           calm == Terminals!Calm(state, v)
<1>5. /\ Planned(done.state) /\ SameMode(moded, done.state) /\ done.calm = calm
      /\ done.arrival = done.state.plan /\ (done.arrival = -1 \/ done.arrival > now')
      /\ OnlyRetainedReplaced(state, done.state)
      /\ state.completed => done.state.completed
      /\ done.reason # "none" => ~state.completed /\ done.state.completed
  <2>1. PICK t \in Nat : t = now'
    BY <1>4
  <2>2. PICK d : d = Terminals!CommandState(state, t, v)
    OBVIOUS
  <2>3. /\ Planned(d.state) /\ SameMode(moded, d.state) /\ d.calm = calm
        /\ d.arrival = d.state.plan /\ (d.arrival = -1 \/ d.arrival > t)
        /\ OnlyRetainedReplaced(state, d.state)
        /\ state.completed => d.state.completed
        /\ d.reason # "none" => ~state.completed /\ d.state.completed
    <3>1. v \in Terminals!Views
      BY <1>1
    <3> QED BY <1>3, <1>4, <2>1, <2>2, <3>1, PlanIsCommanded
  <2>4. d = done
    BY <2>1, <2>2
  <2> HIDE DEF done, moded, calm
  <2> QED BY <2>1, <2>3, <2>4
<1>6. /\ moded \in States /\ calm \in 0..gate
      /\ moded.release < gate /\ moded.release <= calm
      /\ state.mode = "LatestSafe" /\ moded.mode # "LatestSafe" => calm = gate
  BY <1>1, <1>3, ModeIsSelected
<1>7. settle \in BOOLEAN
  OBVIOUS
<1>8. /\ state' = [done.state EXCEPT !.settle = settle]
      /\ shown'.arrival = done.arrival
      /\ past' = [calm |-> calm,
                  releases |-> past.releases + IF done.reason = "none" THEN 0 ELSE 1]
  BY <1>1, <1>5
<1> HIDE DEF moded, done, settle, calm
<1>9. /\ state' \in States
      /\ state'.mode = done.state.mode /\ state'.release = done.state.release
      /\ state'.admitted = done.state.admitted /\ state'.completed = done.state.completed
      /\ state'.plan = done.state.plan /\ state'.replans = done.state.replans
  BY <1>5, <1>7, <1>8 DEF Planned, States
<1>10. /\ past'.calm = calm /\ past' \in [calm : Nat, releases : Nat]
       /\ past'.releases = past.releases + IF done.reason = "none" THEN 0 ELSE 1
  <2>1. calm \in Nat /\ past.releases \in Nat
    BY <1>3, <1>6, TerminalsAssumption DEF TerminalTypes, Terminals!TerminalAssumption
  <2> QED BY <1>8, <2>1
<1>11. TerminalTypes' /\ BrakeIsCounted' /\ PlanIsOwned(state)'
  <2>1. gate \in Nat
    BY TerminalsAssumption DEF Terminals!TerminalAssumption
  <2>2. BrakeIsCounted'
    BY <1>5, <1>6, <1>9, <1>10, <2>1 DEF BrakeIsCounted, SameMode
  <2>3. PlanIsOwned(state)'
    BY <1>2, <1>5, <1>9 DEF PlanIsOwned, Planned
  <2> QED BY <1>4, <1>9, <1>10, <2>2, <2>3 DEF TerminalTypes
<1>12. Terminals!PlanEndsOnce'
  <2>1. past.releases \in Nat
    BY <1>3 DEF TerminalTypes
  <2>2. past.releases <= 1 /\ (past.releases = 1 => state.completed)
    BY <1>3 DEF Terminals!PlanEndsOnce
  <2>3. past'.releases <= 1 /\ (past'.releases = 1 => state'.completed)
    BY <1>5, <1>9, <1>10, <2>1, <2>2
  <2>4. state'.completed => state'.plan = -1
    BY <1>5, <1>9 DEF Planned
  <2> QED BY <2>3, <2>4 DEF Terminals!PlanEndsOnce, Terminals!NoTime
<1>13. TerminalStepLegal
  <2>1. Terminals!BrakeHeld
    BY <1>5, <1>6, <1>9, <1>10 DEF Terminals!BrakeHeld, SameMode
  <2>2. shown'.arrival = -1 \/ shown'.arrival > now'
    BY <1>5, <1>8
  <2>3. state.completed => state'.completed
    BY <1>5, <1>9
  <2>4. state.plan # -1 /\ state'.plan # -1 /\ state'.plan # state.plan =>
          policy = "retained" /\ state'.replans = state.replans + 1
    BY <1>5, <1>9 DEF OnlyRetainedReplaced
  <2> QED BY <2>1, <2>2, <2>3, <2>4
      DEF TerminalStepLegal, Terminals!PlanRunsDown, Terminals!NoTime
<1> QED BY <1>11, <1>12, <1>13 DEF TerminalInv

\* Every step of the terminal controller does, and is legal.
LEMMA TerminalStep ==
  ASSUME TerminalInv, [GuidanceNext]_allVars
  PROVE  TerminalInv' /\ (setting = "terminal" => TerminalStepLegal)
<1> SUFFICES ASSUME setting = "terminal" PROVE TerminalInv' /\ TerminalStepLegal
  BY DEF TerminalInv, GuidanceNext, allVars
<1>1. setting' = setting
  BY DEF GuidanceNext, allVars
<1>2. Terminals!Update \/ Terminals!Skip \/ Terminals!Reset \/ UNCHANGED terminalVars
  BY DEF GuidanceNext, Terminals!Next, allVars
<1>3. TerminalTypes /\ BrakeIsCounted /\ PlanIsOwned(state) /\ Terminals!PlanEndsOnce
  BY DEF TerminalInv
<1>4. CASE Terminals!Update
  BY <1>1, <1>4, UpdateKeepsTerminal
<1>5. CASE Terminals!Skip \/ UNCHANGED terminalVars
  <2>1. UNCHANGED <<policy, state, shown, past>> /\ now' \in Nat
    BY <1>3, <1>5 DEF Terminals!Skip, terminalVars, TerminalTypes
  <2>2. TerminalInv'
    BY <1>3, <2>1 DEF TerminalInv, TerminalTypes, BrakeIsCounted, PlanIsOwned,
       Terminals!PlanEndsOnce, Terminals!NoTime
  <2>3. TerminalStepLegal
    BY <2>1 DEF TerminalStepLegal, Terminals!PlanRunsDown, Terminals!BrakeHeld
  <2> QED BY <2>2, <2>3
<1>6. CASE Terminals!Reset
  <2>1. /\ state' = Terminals!NewState /\ shown' = Terminals!NotShown /\ past' = Terminals!NoPast
        /\ UNCHANGED <<policy, now>>
    BY <1>6 DEF Terminals!Reset
  <2>2. TerminalScenario.gateTicks \in Nat \ {0}
    BY TerminalsAssumption DEF Terminals!TerminalAssumption
  <2>3. TerminalInv'
    BY <1>3, <2>1, <2>2 DEF TerminalInv, TerminalTypes, States, BrakeIsCounted, PlanIsOwned,
       Terminals!PlanEndsOnce, Terminals!NoTime, Terminals!NewState, Terminals!NoPast
  <2>4. TerminalStepLegal
    BY <2>1 DEF TerminalStepLegal, Terminals!PlanRunsDown, Terminals!BrakeHeld, Terminals!NoTime,
       Terminals!NewState, Terminals!NotShown
  <2> QED BY <2>3, <2>4
<1> QED BY <1>2, <1>4, <1>5, <1>6

\* At first there is no brake and no plan.
LEMMA TerminalBegins == GuidanceInit => TerminalInv
<1> SUFFICES ASSUME GuidanceInit, setting = "terminal"
             PROVE  TerminalTypes /\ BrakeIsCounted /\ PlanIsOwned(state) /\ Terminals!PlanEndsOnce
  BY DEF TerminalInv
<1>1. Terminals!Init
  BY DEF GuidanceInit
<1>2. TerminalScenario.gateTicks \in Nat \ {0}
  BY TerminalsAssumption DEF Terminals!TerminalAssumption
<1> QED BY <1>1, <1>2 DEF Terminals!Init, TerminalTypes, States, BrakeIsCounted, PlanIsOwned,
    Terminals!PlanEndsOnce, Terminals!NoTime, Terminals!NewState, Terminals!NoPast

\* The latest safe brake is released only after a calm as long as the hysteresis, and a plan
\* ends once, for every hysteresis and set of burn times (select_guidance_mode,
\* compute_command_state).
THEOREM TerminalIsHeldToTheEnd == GuidanceSpec => TerminalHeldToTheEnd
<1>1. GuidanceInit => TerminalInv
  BY TerminalBegins
<1>2. TerminalInv /\ [GuidanceNext]_allVars =>
        TerminalInv' /\ (setting = "terminal" => TerminalStepLegal)
  BY TerminalStep
<1>3. TerminalInv => (setting = "terminal" => Terminals!PlanEndsOnce)
  BY DEF TerminalInv
<1>4. (setting = "terminal" => TerminalStepLegal) =>
        (setting = "terminal" => Terminals!PlanRunsDown /\ Terminals!BrakeHeld)
  BY DEF TerminalStepLegal
<1> QED BY <1>1, <1>2, <1>3, <1>4, PTL DEF GuidanceSpec, TerminalHeldToTheEnd

----------------------------------------------------------------------------
(* The transfer controller: the plan of the active leg.                     *)

Reasons == {"none", "Initial", "Expired", "AuthorityRecovery", "ContractRecovery",
            "ReachableRecovery"}
Recoveries == {"unknown", "yes", "no"}
Plans == [leg : Int, revision : Int, reason : Reasons, recoverable : Recoveries]
Guides ==
  [plan : Plans, replans : Nat, fails : Nat, searched : Int, attempt : Int, passEver : BOOLEAN,
   snapshot : [revision : Int, own : BOOLEAN], failing : BOOLEAN, searches : Nat]

\* A guide a new plan can be put in, and what is true of one that is in use for leg i: its
\* revision is the number of its replans, and no snapshot is from a revision still to come.
Installable(g) ==
  /\ g \in Guides /\ g.snapshot.revision <= g.replans
  /\ g.plan = Asked!NoPlan => g.snapshot.revision < g.replans
InUse(g, i) ==
  /\ g.plan # Asked!NoPlan /\ g.plan.leg = i /\ g.plan.revision = g.replans
  /\ g.snapshot.revision = g.replans => g.snapshot.own
  /\ g.searches = 0 \/ (g.searches = 1 /\ g.searched = g.replans)
Kept(g, i) ==
  /\ Installable(g)
  /\ g.plan = Asked!NoPlan => g = [Asked!NewGuide EXCEPT !.replans = g.replans]
  /\ g.plan # Asked!NoPlan => InUse(g, i)
  /\ g.fails > 0 => g.failing

\* A plan just installed is in use, and nothing counts against it yet.
LEMMA InstalledIsInUse ==
  ASSUME NEW g, Installable(g), NEW i \in Nat,
         NEW reason \in Reasons, NEW recoverable \in Recoveries,
         NEW h, h = Asked!Install(g, i, reason, recoverable)
  PROVE  /\ Kept(h, i) /\ h.plan # Asked!NoPlan
         /\ h.plan.reason = reason /\ h.passEver = g.passEver
<1> DEFINE n == g.replans + (IF g.plan = Asked!NoPlan THEN 0 ELSE 1)
           plan == [leg |-> i, revision |-> n, reason |-> reason, recoverable |-> recoverable]
<1>1. n \in Nat /\ g \in Guides /\ g.snapshot.revision < n
  BY DEF Installable, Guides
<1> DEFINE taken == [g.snapshot EXCEPT !.own = FALSE]
<1>2. h = [g EXCEPT !.plan = plan, !.replans = n, !.fails = 0, !.snapshot = taken,
                    !.failing = FALSE, !.searches = 0]
  BY DEF Asked!Install
<1> HIDE DEF n
<1>3. plan \in Plans /\ plan # Asked!NoPlan
  BY <1>1 DEF Plans, Asked!NoPlan, Asked!NoLeg
<1>4. plan.leg = i /\ plan.revision = n /\ plan.reason = reason
  OBVIOUS
<1>5. taken \in [revision : Int, own : BOOLEAN] /\ taken.revision = g.snapshot.revision
  BY <1>1 DEF Guides
<1> HIDE DEF plan, taken
<1>6. /\ h \in Guides /\ h.plan = plan /\ h.replans = n /\ h.fails = 0
      /\ h.snapshot.revision = g.snapshot.revision /\ h.searches = 0 /\ h.passEver = g.passEver
  <2>1. g \in Guides /\ n \in Nat /\ plan \in Plans /\ taken \in [revision : Int, own : BOOLEAN]
    BY <1>1, <1>3, <1>5
  <2>2. h \in Guides
    <3> DEFINE made == [g EXCEPT !.plan = plan, !.replans = n, !.fails = 0, !.snapshot = taken,
                                 !.failing = FALSE, !.searches = 0]
    <3>1. made \in Guides
      BY <2>1 DEF Guides
    <3> QED BY <3>1, <1>2
  <2>3. /\ h.plan = plan /\ h.replans = n /\ h.fails = 0
        /\ h.snapshot = taken /\ h.searches = 0 /\ h.passEver = g.passEver
    BY <2>1, <1>2 DEF Guides
  <2> QED BY <1>5, <2>2, <2>3
<1> QED BY <1>1, <1>3, <1>4, <1>6 DEF Kept, InUse, Installable, Guides

\* A look at the plan changes what is known of it, not the plan.
LEMMA SeenIsInUse ==
  ASSUME NEW g, NEW i \in Nat, Kept(g, i), g.plan # Asked!NoPlan,
         NEW look \in Asked!Looks, NEW failing \in BOOLEAN,
         NEW h, h = Asked!Seen(g, look, failing)
  PROVE  /\ Kept(h, i) /\ h.plan = g.plan
         /\ g.passEver => h.passEver
         /\ failing /\ h.fails = 2 => g.failing
<1> DEFINE passed == g.passEver \/ look.contract = "pass"
           n == IF failing THEN Asked!Min({g.fails + 1, 2}) ELSE 0
<1>1. g \in Guides /\ g.fails \in Nat
  BY DEF Kept, Installable, Guides
<1>2. failing => n = (IF g.fails + 1 <= 2 THEN g.fails + 1 ELSE 2)
  <2>1. g.fails + 1 \in Int /\ 2 \in Int
    BY <1>1
  <2> QED BY <2>1, SmallerOfTwo
<1>3. n \in Nat /\ (n > 0 => failing) /\ (n = 2 => g.fails > 0)
  BY <1>1, <1>2
<1>4. h = [g EXCEPT !.passEver = passed, !.failing = failing, !.fails = n]
  BY <1>1 DEF Asked!Seen, Asked!FailureTicks, Guides
<1>5. passed \in BOOLEAN
  OBVIOUS
<1> HIDE DEF n
<1>6. /\ h \in Guides /\ h.plan = g.plan /\ h.replans = g.replans /\ h.fails = n
      /\ h.snapshot = g.snapshot /\ h.searches = g.searches /\ h.searched = g.searched
      /\ h.failing = failing /\ h.passEver = passed
  BY <1>1, <1>3, <1>4, <1>5 DEF Guides
<1> QED BY <1>3, <1>6 DEF Kept, InUse, Installable

\* A plan was given up for its contract, or by a search, only where that was due.
GivenUp(g, i, reason) ==
  /\ reason = "ContractRecovery" => g.failing
  /\ reason = "ReachableRecovery" /\ ~Asked!Final(i) => g.failing /\ ~g.passEver
\* What one update has made so far of the guide g of leg i.
Follows(g, i, s) ==
  /\ s = [guide |-> s.guide, look |-> s.look, confirmed |-> s.confirmed]
  /\ Kept(s.guide, i) /\ s.guide.plan # Asked!NoPlan /\ s.look \in Asked!Looks
  /\ g.plan # Asked!NoPlan =>
       /\ s.guide.plan.revision # g.plan.revision => GivenUp(g, i, s.guide.plan.reason)
       /\ s.confirmed => g.failing
       /\ g.passEver => s.guide.passEver

\* A plan made for a reason follows the one given up.
LEMMA MadeFollows ==
  ASSUME NEW g, NEW i \in Nat, NEW from, Installable(from), NEW reason \in Reasons,
         NEW recoverables, recoverables \subseteq Recoveries, NEW confirmed,
         g.plan # Asked!NoPlan =>
           GivenUp(g, i, reason) /\ (confirmed => g.failing) /\ (g.passEver => from.passEver),
         NEW s \in Asked!Made(from, i, reason, recoverables, confirmed)
  PROVE  Follows(g, i, s)
<1>1. PICK r \in recoverables, l \in Asked!FirstLooks :
        s = [guide |-> Asked!Install(from, i, reason, r), look |-> l, confirmed |-> confirmed]
  BY DEF Asked!Made
<1>2. /\ s = [guide |-> s.guide, look |-> s.look, confirmed |-> s.confirmed]
      /\ s.guide = Asked!Install(from, i, reason, r) /\ s.look = l /\ s.confirmed = confirmed
  BY <1>1
<1>3. r \in Recoveries /\ l \in Asked!Looks
  BY <1>1 DEF Asked!FirstLooks
<1>4. /\ Kept(s.guide, i) /\ s.guide.plan # Asked!NoPlan
      /\ s.guide.plan.reason = reason /\ s.guide.passEver = from.passEver
  BY <1>2, <1>3, InstalledIsInUse
<1> QED BY <1>2, <1>3, <1>4 DEF Follows

\* Whether a leg can be recovered is one of the three answers.
LEMMA RecoverableIsKnown ==
  ASSUME NEW i
  PROVE  Asked!Recoverable(i) \subseteq Recoveries /\ {"yes"} \subseteq Recoveries
BY DEF Asked!Recoverable, Recoveries

\* The plan in hand is kept, or replaced where its look gives a reason to.
LEMMA ReviewFollows ==
  ASSUME NEW g, NEW i \in Nat, Kept(g, i), g.plan # Asked!NoPlan,
         NEW look \in Asked!Looks, NEW s \in Asked!Review(g, i, look)
  PROVE  Follows(g, i, s)
<1> DEFINE failing == look.contract = "fail"
           seen == Asked!Seen(g, look, failing)
           confirmed == failing /\ seen.fails = Asked!FailureTicks
           Replaced(reason) == Asked!Made(seen, i, reason, Asked!Recoverable(i), confirmed)
<1>1. failing \in BOOLEAN
  OBVIOUS
<1> HIDE DEF failing
<1>2. /\ Kept(seen, i) /\ seen.plan = g.plan
      /\ g.passEver => seen.passEver
      /\ failing /\ seen.fails = 2 => g.failing
  BY <1>1, SeenIsInUse
<1> HIDE DEF seen
<1>3. confirmed => g.failing
  BY <1>2 DEF Asked!FailureTicks
<1> HIDE DEF confirmed
<1>4. \/ s = [guide |-> seen, look |-> look, confirmed |-> confirmed]
      \/ s \in Replaced("Expired") \/ s \in Replaced("AuthorityRecovery")
      \/ confirmed /\ s \in Replaced("ContractRecovery")
  BY DEF Asked!Review, seen, confirmed, failing
<1>5. CASE s = [guide |-> seen, look |-> look, confirmed |-> confirmed]
  <2>1. /\ s = [guide |-> s.guide, look |-> s.look, confirmed |-> s.confirmed]
        /\ s.guide = seen /\ s.look = look /\ s.confirmed = confirmed
    BY <1>5
  <2> QED BY <1>2, <1>3, <2>1 DEF Follows
<1>6. ASSUME NEW reason \in {"Expired", "AuthorityRecovery", "ContractRecovery"},
             reason = "ContractRecovery" => confirmed, s \in Replaced(reason)
      PROVE  Follows(g, i, s)
  <2>1. reason \in Reasons /\ GivenUp(g, i, reason)
    BY <1>3, <1>6 DEF Reasons, GivenUp
  <2>2. Installable(seen) /\ Asked!Recoverable(i) \subseteq Recoveries
    BY <1>2, RecoverableIsKnown DEF Kept
  <2> QED BY <1>2, <1>3, <1>6, <2>1, <2>2, MadeFollows
<1> QED BY <1>4, <1>5, <1>6

\* A recheck keeps or replaces the plan it looks at, or makes the first.
LEMMA RecheckFollows ==
  ASSUME NEW g, NEW i \in Nat, Kept(g, i), NEW s \in Asked!Recheck(g, i)
  PROVE  Follows(g, i, s)
<1> DEFINE current == Asked!Current(g, i)
<1>1. CASE g.plan # Asked!NoPlan
  <2>1. current = g
    BY <1>1 DEF Kept, InUse, Asked!Current
  <2>2. PICK look \in Asked!Looks : s \in Asked!Review(g, i, look)
    BY <1>1, <2>1 DEF Asked!Recheck
  <2> QED BY <1>1, <2>2, ReviewFollows
<1>2. CASE g.plan = Asked!NoPlan
  <2>1. g.plan.leg # i
    BY <1>2 DEF Asked!NoPlan, Asked!NoLeg
  <2>2. current = [g EXCEPT !.plan = Asked!NoPlan, !.fails = 0, !.searched = -1, !.attempt = -1,
                            !.snapshot = Asked!NoSnapshot]
    BY <2>1 DEF Asked!Current, Asked!None
  <2>3. g \in Guides /\ Asked!NoPlan \in Plans /\ -1 \in Int /\ 0 \in Nat
        /\ Asked!NoSnapshot \in [revision : Int, own : BOOLEAN]
        /\ Asked!NoSnapshot.revision = -1
    BY DEF Kept, Installable, Plans, Reasons, Recoveries, Asked!NoPlan, Asked!NoSnapshot,
       Asked!NoLeg, Asked!None
  <2>4. current \in Guides /\ current.plan = Asked!NoPlan
        /\ current.snapshot = Asked!NoSnapshot
    BY <2>2, <2>3 DEF Guides
  <2>5. Installable(current)
    BY <2>3, <2>4 DEF Installable, Guides
  <2> HIDE DEF current
  <2>6. s \in Asked!Made(current, i, "Initial", Asked!Recoverable(i), FALSE)
    BY <2>4 DEF Asked!Recheck, current
  <2>7. "Initial" \in Reasons
    BY DEF Reasons
  <2> QED BY <1>2, <2>5, <2>6, <2>7, RecoverableIsKnown, MadeFollows
<1> QED BY <1>1, <1>2

\* A note of an attempt, or of a search not yet made for this plan, leaves the plan in use.
LEMMA NotesKeepUse ==
  ASSUME NEW g, NEW i \in Nat, Kept(g, i), g.plan # Asked!NoPlan, NEW n \in Int
  PROVE  /\ LET h == [g EXCEPT !.attempt = n]
            IN  Kept(h, i) /\ h.plan = g.plan /\ h.passEver = g.passEver
         /\ g.searched # g.plan.revision =>
              LET h == [g EXCEPT !.searched = g.plan.revision, !.searches = @ + 1]
              IN  Kept(h, i) /\ h.plan = g.plan /\ h.passEver = g.passEver
<1>1. g \in Guides /\ g.plan.revision \in Int /\ g.searches + 1 \in Nat
  BY DEF Kept, Installable, Guides, Plans
<1>2. ASSUME NEW h, h = [g EXCEPT !.attempt = n]
      PROVE  Kept(h, i) /\ h.plan = g.plan /\ h.passEver = g.passEver
  <2>1. [g EXCEPT !.attempt = n] \in Guides
    BY <1>1 DEF Guides
  <2>2. /\ h \in Guides /\ h.plan = g.plan /\ h.passEver = g.passEver /\ h.replans = g.replans
        /\ h.snapshot = g.snapshot /\ h.fails = g.fails /\ h.failing = g.failing
        /\ h.searched = g.searched /\ h.searches = g.searches
    BY <1>1, <1>2, <2>1 DEF Guides
  <2> QED BY <2>2 DEF Kept, InUse, Installable
<1>3. ASSUME NEW h, h = [g EXCEPT !.searched = g.plan.revision, !.searches = g.searches + 1],
             g.searched # g.plan.revision
      PROVE  Kept(h, i) /\ h.plan = g.plan /\ h.passEver = g.passEver
  <2>1. [g EXCEPT !.searched = g.plan.revision, !.searches = g.searches + 1] \in Guides
    BY <1>1 DEF Guides
  <2>2. /\ h \in Guides /\ h.plan = g.plan /\ h.passEver = g.passEver /\ h.replans = g.replans
        /\ h.snapshot = g.snapshot /\ h.fails = g.fails /\ h.failing = g.failing
        /\ h.searched = g.plan.revision /\ h.searches = g.searches + 1
    BY <1>1, <1>3, <2>1 DEF Guides
  <2>3. g.searches = 0
    BY <1>3 DEF Kept, InUse
  <2> QED BY <2>2, <2>3 DEF Kept, InUse, Installable
<1>4. LET h == [g EXCEPT !.attempt = n]
      IN  Kept(h, i) /\ h.plan = g.plan /\ h.passEver = g.passEver
  BY <1>2
<1>5. ASSUME g.searched # g.plan.revision
      PROVE  LET h == [g EXCEPT !.searched = g.plan.revision, !.searches = g.searches + 1]
             IN  Kept(h, i) /\ h.plan = g.plan /\ h.passEver = g.passEver
  BY <1>3, <1>5
<1> QED BY <1>4, <1>5

\* A plan with the notes of its searches wiped can be replaced.
LEMMA WipedIsInstallable ==
  ASSUME NEW g, NEW i, Kept(g, i)
  PROVE  /\ LET h == [g EXCEPT !.attempt = -1] IN Installable(h) /\ h.passEver = g.passEver
         /\ LET h == [g EXCEPT !.searched = -1, !.attempt = -1]
            IN  Installable(h) /\ h.passEver = g.passEver
<1>1. g \in Guides /\ -1 \in Int
  BY DEF Kept, Installable
<1>2. ASSUME NEW h \in Guides, h.plan = g.plan, h.snapshot = g.snapshot, h.replans = g.replans
      PROVE  Installable(h)
  BY <1>2 DEF Kept, Installable
<1>3. /\ [g EXCEPT !.attempt = -1] \in Guides
      /\ [g EXCEPT !.searched = -1, !.attempt = -1] \in Guides
  BY <1>1 DEF Guides
<1>4. LET h == [g EXCEPT !.attempt = -1]
      IN  h.plan = g.plan /\ h.snapshot = g.snapshot /\ h.replans = g.replans
          /\ h.passEver = g.passEver
  BY <1>1 DEF Guides
<1>5. LET h == [g EXCEPT !.searched = -1, !.attempt = -1]
      IN  h.plan = g.plan /\ h.snapshot = g.snapshot /\ h.replans = g.replans
          /\ h.passEver = g.passEver
  BY <1>1 DEF Guides
<1> QED BY <1>2, <1>3, <1>4, <1>5

\* What is found for the plan in hand, or a new plan by search.
LEMMA FinalSearchFollows ==
  ASSUME NEW g, NEW i \in Nat, NEW t, Follows(g, i, t), NEW s \in Asked!FinalSearch(t, i)
  PROVE  Follows(g, i, s)
<1> DEFINE h == t.guide
           noted == [t EXCEPT !.guide.attempt = h.plan.revision]
           wiped == [h EXCEPT !.attempt = -1]
<1>1. \/ s = t \/ s = noted
      \/ Asked!Final(i) /\ s \in Asked!Made(wiped, i, "ReachableRecovery", {"yes"}, t.confirmed)
  BY DEF Asked!FinalSearch, Asked!None
<1>2. Kept(h, i) /\ h.plan # Asked!NoPlan /\ h.plan.revision \in Int
  BY DEF Follows, Kept, Installable, Guides, Plans
<1>3. CASE s = noted
  <2> DEFINE with == [h EXCEPT !.attempt = h.plan.revision]
  <2>1. Kept(with, i) /\ with.plan = h.plan /\ with.passEver = h.passEver
    BY <1>2, <1>3, NotesKeepUse
  <2>2. s = [guide |-> with, look |-> t.look, confirmed |-> t.confirmed]
    BY <1>3 DEF Follows
  <2> HIDE DEF with
  <2>3. s.guide = with /\ s.look = t.look /\ s.confirmed = t.confirmed
    BY <2>2
  <2> QED BY <2>1, <2>2, <2>3 DEF Follows
<1>4. CASE Asked!Final(i) /\ s \in Asked!Made(wiped, i, "ReachableRecovery", {"yes"}, t.confirmed)
  <2>1. Installable(wiped) /\ wiped.passEver = h.passEver
    BY <1>2, WipedIsInstallable
  <2>2. "ReachableRecovery" \in Reasons /\ GivenUp(g, i, "ReachableRecovery")
    BY <1>4 DEF Reasons, GivenUp
  <2>3. g.plan # Asked!NoPlan => (t.confirmed => g.failing) /\ (g.passEver => h.passEver)
    BY DEF Follows
  <2> HIDE DEF wiped
  <2> QED BY <1>4, <2>1, <2>2, <2>3, RecoverableIsKnown, MadeFollows
<1> QED BY <1>1, <1>3, <1>4

\* The search for a reachable plan replaces one that has never passed.
LEMMA ReachSearchFollows ==
  ASSUME NEW g, NEW i \in Nat, NEW t, Follows(g, i, t), NEW s \in Asked!ReachSearch(t, i)
  PROVE  Follows(g, i, s)
<1> DEFINE h == t.guide
           noted == [t EXCEPT !.guide.searched = h.plan.revision, !.guide.searches = @ + 1]
           wiped == [h EXCEPT !.searched = -1, !.attempt = -1]
           due == t.confirmed /\ ~h.passEver /\ h.searched # h.plan.revision
<1>1. \/ s = t \/ (due /\ s = noted)
      \/ due /\ s \in Asked!Made(wiped, i, "ReachableRecovery", Asked!Recoverable(i), t.confirmed)
  BY DEF Asked!ReachSearch, Asked!None
<1>2. Kept(h, i) /\ h.plan # Asked!NoPlan /\ h.plan.revision \in Int
  BY DEF Follows, Kept, Installable, Guides, Plans
<1>3. CASE due /\ s = noted
  <2> DEFINE with == [h EXCEPT !.searched = h.plan.revision, !.searches = @ + 1]
  <2>1. Kept(with, i) /\ with.plan = h.plan /\ with.passEver = h.passEver
    BY <1>2, <1>3, NotesKeepUse
  <2>2. s = [guide |-> with, look |-> t.look, confirmed |-> t.confirmed]
    BY <1>3 DEF Follows
  <2> HIDE DEF with
  <2>3. s.guide = with /\ s.look = t.look /\ s.confirmed = t.confirmed
    BY <2>2
  <2> QED BY <2>1, <2>2, <2>3 DEF Follows
<1>4. CASE due /\ s \in Asked!Made(wiped, i, "ReachableRecovery", Asked!Recoverable(i), t.confirmed)
  <2>1. Installable(wiped) /\ wiped.passEver = h.passEver
    BY <1>2, WipedIsInstallable
  <2>2. "ReachableRecovery" \in Reasons
    BY DEF Reasons
  <2>3. g.plan # Asked!NoPlan =>
          /\ GivenUp(g, i, "ReachableRecovery")
          /\ t.confirmed => g.failing
          /\ g.passEver => h.passEver
    BY <1>4 DEF Follows, GivenUp
  <2> HIDE DEF wiped
  <2> QED BY <1>4, <2>1, <2>2, <2>3, RecoverableIsKnown, MadeFollows
<1> QED BY <1>1, <1>3, <1>4

\* One update of an active leg: its guide is in use, and was given up only where that was due.
LEMMA GuidedIsInUse ==
  ASSUME NEW g, NEW i \in Nat, Kept(g, i), NEW h \in Asked!Guided(g, i)
  PROVE  /\ Kept(h, i) /\ h.plan # Asked!NoPlan
         /\ g.plan # Asked!NoPlan /\ h.plan.revision # g.plan.revision =>
              GivenUp(g, i, h.plan.reason)
<1>1. PICK s : /\ h = Asked!Snapshots(s, i)
               /\ \E t : s \in Asked!ReachSearch(t, i)
                        /\ \E u \in Asked!Recheck(g, i) : t \in Asked!FinalSearch(u, i)
  BY DEF Asked!Guided
<1>2. Follows(g, i, s)
  BY <1>1, RecheckFollows, FinalSearchFollows, ReachSearchFollows
<1> DEFINE snapshot == [revision |-> s.guide.plan.revision, own |-> TRUE]
<1>3. CASE h = s.guide
  BY <1>2, <1>3 DEF Follows
<1>4. CASE h = [s.guide EXCEPT !.snapshot = snapshot]
  <2>1. /\ s.guide \in Guides /\ s.guide.plan.revision = s.guide.replans
        /\ s.guide.plan # Asked!NoPlan /\ Kept(s.guide, i)
    BY <1>2 DEF Follows, Kept, InUse, Installable
  <2>2. snapshot \in [revision : Int, own : BOOLEAN] /\ snapshot.own
        /\ snapshot.revision = s.guide.replans
    BY <2>1 DEF Guides
  <2> HIDE DEF snapshot
  <2>3. [s.guide EXCEPT !.snapshot = snapshot] \in Guides
    BY <2>1, <2>2 DEF Guides
  <2>4. /\ h \in Guides /\ h.snapshot = snapshot /\ h.plan = s.guide.plan
        /\ h.replans = s.guide.replans /\ h.fails = s.guide.fails
        /\ h.failing = s.guide.failing /\ h.searches = s.guide.searches
        /\ h.searched = s.guide.searched
    BY <1>4, <2>1, <2>3 DEF Guides
  <2>5. Kept(h, i)
    BY <2>1, <2>2, <2>4 DEF Kept, InUse, Installable, Guides
  <2> QED BY <1>2, <2>1, <2>4, <2>5 DEF Follows
<1> QED BY <1>1, <1>3, <1>4 DEF Asked!Snapshots

----------------------------------------------------------------------------
(* The transfer controller: its leg, its phase and its markers.             *)

TransferTypes == legs \in Int /\ index \in Nat /\ capture.audit # "other"
\* What is kept is the active leg's, and an active leg is flown under power; of a leg without a
\* direction nothing is kept.
LegInv ==
  /\ TransferTypes /\ Kept(guide, index)
  /\ anchor \in {-1, index} /\ window \in {-1, index}
  /\ Asked!OnLeg => phase \in {"Takeoff", "Boost"}
  /\ Asked!Stalled => guide = Asked!NewGuide /\ window = -1
TransferInv == setting = "transfer" => LegInv
TransferStepLegal == Asked!PatientReplacement /\ Asked!PhaseLegal

\* A guide of no leg yet.
LEMMA NewGuideIsKept == \A i : Kept(Asked!NewGuide, i)
<1>1. Asked!NewGuide \in Guides
  BY DEF Asked!NewGuide, Asked!NoPlan, Asked!NoSnapshot, Asked!NoLeg, Asked!None, Guides, Plans,
     Reasons, Recoveries
<1>2. /\ Asked!NewGuide.plan = Asked!NoPlan /\ Asked!NewGuide.fails = 0
      /\ Asked!NewGuide.replans = 0 /\ Asked!NewGuide.snapshot.revision = -1
  BY DEF Asked!NewGuide, Asked!NoSnapshot, Asked!None
<1>3. Asked!NewGuide = [Asked!NewGuide EXCEPT !.replans = Asked!NewGuide.replans]
  BY DEF Asked!NewGuide
<1> QED BY <1>1, <1>2, <1>3 DEF Kept, Installable

\* A plain transfer sets the anchor on its own leg only; a coast, a landing and a completed route
\* are left as choose_phase allows.
LEMMA FrameKeepsAnchor ==
  ASSUME NEW i, NEW from, NEW anchored \in {-1, i}, NEW t, Asked!TransferFrame(i, from, anchored, t)
  PROVE  /\ anchor' \in {-1, i}
         /\ from \in {"Coast", "Terminal"} => phase' # "Boost"
         /\ from = "Terminal" /\ Asked!Completed(i) /\ ~early' => phase' = "Terminal"
<1>1. PICK gate \in Asked!Gates(t), see \in Asked!Views :
        /\ phase' = Asked!ChoosePhase(i, from, anchored # Asked!NoLeg, gate.ready, see, early')
        /\ anchor' = Asked!Anchor(i, anchored, phase')
  BY DEF Asked!TransferFrame
<1>2. anchor' \in {-1, i}
  BY <1>1 DEF Asked!Anchor
<1>3. from \in {"Coast", "Terminal"} => phase' # "Boost"
  BY <1>1 DEF Asked!ChoosePhase
<1>4. from = "Terminal" /\ Asked!Completed(i) /\ ~early' => phase' = "Terminal"
  BY <1>1 DEF Asked!ChoosePhase
<1> QED BY <1>2, <1>3, <1>4

\* An active leg is powered, anchored on itself, and keeps its own guide.
LEMMA ActiveFrameKeepsLeg ==
  ASSUME NEW i \in Nat, NEW anchored \in {-1, i}, NEW g, Kept(g, i),
         Asked!ActiveFrame(i, anchored, g)
  PROVE  /\ phase' \in {"Takeoff", "Boost"} /\ anchor' \in {-1, i} /\ Kept(guide', i)
         /\ g.plan # Asked!NoPlan /\ guide'.plan.revision # g.plan.revision =>
              GivenUp(g, i, guide'.plan.reason)
<1>1. CASE phase' = "Takeoff" /\ anchor' = anchored /\ guide' = g
  BY <1>1
<1>2. CASE phase' = "Boost" /\ anchor' = Asked!Anchor(i, anchored, "Boost")
           /\ guide' \in Asked!Guided(g, i)
  <2>1. PICK h \in Asked!Guided(g, i) : h = guide'
    BY <1>2
  <2>2. /\ Kept(h, i)
        /\ g.plan # Asked!NoPlan /\ h.plan.revision # g.plan.revision =>
             GivenUp(g, i, h.plan.reason)
    BY <2>1, GuidedIsInUse
  <2> QED BY <1>2, <2>1, <2>2 DEF Asked!Anchor
<1> QED BY <1>1, <1>2 DEF Asked!ActiveFrame

\* Off the route, nothing is kept of a leg.
LEMMA DirectKeepsLeg ==
  ASSUME LegInv, Asked!Direct
  PROVE  LegInv' /\ TransferStepLegal
<1>1. /\ ~Asked!OnLeg /\ Asked!TransferFrame(index, phase, anchor, ticks)
      /\ UNCHANGED <<legs, index, window, guide, capture, markers>>
  BY DEF Asked!Direct
<1>2. /\ anchor' \in {-1, index}
      /\ phase \in {"Coast", "Terminal"} => phase' # "Boost"
      /\ phase = "Terminal" /\ Asked!Completed(index) /\ ~early' => phase' = "Terminal"
  BY <1>1, FrameKeepsAnchor DEF LegInv
<1>3. ~Asked!OnLeg' /\ (Asked!Stalled' => Asked!Stalled)
  BY <1>1 DEF Asked!OnLeg, Asked!Stalled
<1>4. LegInv'
  BY <1>1, <1>2, <1>3 DEF LegInv, TransferTypes
<1>5. TransferStepLegal
  BY <1>1, <1>2 DEF TransferStepLegal, Asked!PatientReplacement, Asked!PhaseLegal
<1> QED BY <1>4, <1>5

\* On the route, what is kept is the active leg's.
LEMMA TrackKeepsLeg ==
  ASSUME LegInv, NEW sightings, Asked!Track(sightings)
  PROVE  LegInv' /\ TransferStepLegal
<1>1. /\ Asked!OnLeg /\ Asked!ActiveFrame(index, anchor, guide)
      /\ window' \in {index, window} /\ UNCHANGED <<legs, index, capture, markers>>
  BY DEF Asked!Track
<1>2. /\ phase' \in {"Takeoff", "Boost"} /\ anchor' \in {-1, index} /\ Kept(guide', index)
      /\ guide.plan # Asked!NoPlan /\ guide'.plan.revision # guide.plan.revision =>
           GivenUp(guide, index, guide'.plan.reason)
  BY <1>1, ActiveFrameKeepsLeg DEF LegInv, TransferTypes
<1>3. LegInv'
  <2>1. ~Asked!Stalled'
    BY <1>1 DEF Asked!OnLeg, Asked!Stalled
  <2> QED BY <1>1, <1>2, <2>1 DEF LegInv, TransferTypes
<1>4. Asked!PatientReplacement
  <2>1. guide.plan # Asked!NoPlan => guide.plan.leg = index
    BY DEF LegInv, Kept, InUse
  <2>2. legs' = legs
    BY <1>1
  <2> QED BY <1>2, <2>1 DEF Asked!PatientReplacement, GivenUp
<1>5. Asked!PhaseLegal
  <2>1. phase \in {"Takeoff", "Boost"}
    BY <1>1 DEF LegInv
  <2> QED BY <2>1 DEF Asked!PhaseLegal
<1> QED BY <1>3, <1>4, <1>5 DEF TransferStepLegal

\* A handoff drops what was kept of the old leg.
LEMMA HandOffKeepsLeg ==
  ASSUME LegInv, NEW sightings, Asked!HandOff(sightings)
  PROVE  LegInv' /\ TransferStepLegal
<1> DEFINE direct == Asked!Final(index) \/ index + 1 \in AskedScenario.degenerate
<1>1. /\ Asked!OnLeg /\ index' = index + 1 /\ window' = -1 /\ legs' = legs
      /\ \E o \in sightings : capture' = Asked!Captured(o)
  BY DEF Asked!HandOff, Asked!NoLeg
<1>2. index \in Nat /\ index' \in Nat /\ legs \in Int /\ Kept(guide, index)
  BY <1>1 DEF LegInv, TransferTypes
<1>3. capture'.audit # "other"
  BY <1>1, <1>2 DEF Asked!Captured, Kept, InUse, Asked!NoPlan, Asked!NoLeg
<1>4. Kept(Asked!NewGuide, index')
  BY NewGuideIsKept
<1>5. CASE direct
  <2>1. PICK from : Asked!TransferFrame(index + 1, from, -1, 0)
    BY <1>5 DEF Asked!HandOff, Asked!NoLeg
  <2>2. guide' = Asked!NewGuide
    BY <1>5 DEF Asked!HandOff
  <2>3. anchor' \in {-1, index'}
    BY <1>1, <2>1, FrameKeepsAnchor
  <2>4. ~Asked!OnLeg'
    BY <1>1, <1>2, <1>5 DEF Asked!OnLeg, Asked!Final
  <2>5. LegInv'
    BY <1>1, <1>2, <1>3, <1>4, <2>2, <2>3, <2>4 DEF LegInv, TransferTypes
  <2>6. guide'.plan = Asked!NoPlan
    BY <2>2 DEF Asked!NewGuide
  <2> QED BY <1>1, <1>2, <2>5, <2>6 DEF TransferStepLegal, Asked!PatientReplacement,
      Asked!PhaseLegal, Asked!Completed, Asked!OnLeg, Kept, InUse, Asked!NoPlan, Asked!NoLeg
<1>6. CASE ~direct
  <2>1. Asked!ActiveFrame(index + 1, -1, Asked!NewGuide)
    BY <1>6 DEF Asked!HandOff, Asked!NoLeg
  <2>2. phase' \in {"Takeoff", "Boost"} /\ anchor' \in {-1, index'} /\ Kept(guide', index')
    BY <1>1, <1>2, <1>4, <2>1, ActiveFrameKeepsLeg
  <2>3. LegInv'
    <3>1. ~Asked!Stalled'
      BY <1>1, <1>6 DEF Asked!Stalled
    <3> QED BY <1>1, <1>2, <1>3, <2>2, <3>1 DEF LegInv, TransferTypes
  <2>4. guide'.plan.leg \in {-1, index'}
    BY <2>2 DEF Kept, InUse, Asked!NoPlan, Asked!NoLeg
  <2> QED BY <1>1, <1>2, <2>3, <2>4 DEF TransferStepLegal, Asked!PatientReplacement,
      Asked!PhaseLegal, Asked!Completed, Asked!OnLeg, Kept, InUse, Asked!NoPlan, Asked!NoLeg
<1> QED BY <1>5, <1>6

\* Every step of the transfer controller keeps the invariant, and is legal.
LEMMA TransferStep ==
  ASSUME TransferInv, [GuidanceNext]_allVars
  PROVE  TransferInv' /\ (setting = "transfer" => TransferStepLegal)
<1> SUFFICES ASSUME setting = "transfer" PROVE LegInv' /\ TransferStepLegal
  BY DEF TransferInv, GuidanceNext, allVars
<1>1. Asked!Next \/ UNCHANGED vars
  BY DEF GuidanceNext, allVars, flight
<1>2. LegInv
  BY DEF TransferInv
<1>3. CASE Asked!Direct
  BY <1>2, <1>3, DirectKeepsLeg
<1>4. CASE Asked!Track(Asked!Sightings)
  BY <1>2, <1>4, TrackKeepsLeg
<1>5. CASE Asked!HandOff(Asked!Sightings)
  BY <1>2, <1>5, HandOffKeepsLeg
<1>6. CASE Asked!Reset
  <2>1. /\ early' = TRUE /\ index' = 0 /\ phase' = "Takeoff" /\ anchor' = -1 /\ window' = -1
        /\ guide' = Asked!NewGuide /\ capture' = Asked!NoCapture /\ legs' = legs
    BY <1>6 DEF Asked!Reset, Asked!NoLeg
  <2>2. LegInv'
    BY <1>2, <2>1, NewGuideIsKept DEF LegInv, TransferTypes, Asked!NoCapture
  <2>3. guide'.plan = Asked!NoPlan
    BY <2>1 DEF Asked!NewGuide
  <2> QED BY <1>2, <2>1, <2>2, <2>3 DEF LegInv, TransferTypes, TransferStepLegal,
      Asked!PatientReplacement, Asked!PhaseLegal, Kept, InUse, Asked!NoPlan, Asked!NoLeg
<1>7. CASE UNCHANGED vars
  BY <1>2, <1>7 DEF vars, LegInv, TransferTypes, Asked!OnLeg, Asked!Stalled, TransferStepLegal,
     Asked!PatientReplacement, Asked!PhaseLegal
<1> QED BY <1>1, <1>3, <1>4, <1>5, <1>6, <1>7 DEF Asked!Next

\* At first nothing is kept.
LEMMA TransferBegins == GuidanceInit => TransferInv
<1> SUFFICES ASSUME GuidanceInit, setting = "transfer" PROVE LegInv
  BY DEF TransferInv
<1>1. Asked!Init
  BY DEF GuidanceInit
<1>2. legs \in Int
  BY <1>1, AskedAssumption DEF Asked!Init, NoRoute
<1> QED BY <1>1, <1>2, NewGuideIsKept DEF Asked!Init, LegInv, TransferTypes, Asked!NoLeg,
    Asked!NoCapture

\* Nothing of one leg speaks for another, nor of one plan for another, on any route, whichever
\* legs have no direction (waypoint_update_context, current_waypoint_guidance_candidate).
THEOREM LegRecordsAreTheLegs == GuidanceSpec => [](setting = "transfer" => Asked!LegRecords)
<1>1. TransferInv => (setting = "transfer" => Asked!LegRecords)
  <2> SUFFICES ASSUME LegInv PROVE Asked!LegRecords
    BY DEF TransferInv
  <2>1. guide.plan.leg \in {-1, index}
    BY DEF LegInv, Kept, InUse, Asked!NoPlan, Asked!NoLeg
  <2>2. Asked!FreshPerLeg
    BY <2>1 DEF LegInv, Kept, Asked!FreshPerLeg, Asked!NoLeg
  <2>3. guide.searches <= 1
    <3>1. guide.plan = Asked!NoPlan => guide.searches = 0
      BY DEF LegInv, Kept, Asked!NewGuide
    <3> QED BY <3>1 DEF LegInv, Kept, InUse
  <2>4. Asked!SnapshotsSpeakForPlan
    BY <2>3 DEF LegInv, TransferTypes, Kept, InUse, Asked!SnapshotsSpeakForPlan
  <2> QED BY <2>2, <2>4 DEF Asked!LegRecords
<1>2. GuidanceInit => TransferInv
  BY TransferBegins
<1>3. TransferInv /\ [GuidanceNext]_allVars => TransferInv'
  BY TransferStep
<1> QED BY <1>1, <1>2, <1>3, PTL DEF GuidanceSpec

\* The markers count the waypoints passed; that of a handoff to a leg without a direction is lost.
MarkersInv ==
  setting = "transfer" => markers = index - (IF Asked!Stalled /\ index > 0 THEN 1 ELSE 0)

\* Each handoff leaves its marker, but one to a leg without a direction, from which there is none.
LEMMA MarkersStep ==
  ASSUME TransferInv, MarkersInv, [GuidanceNext]_allVars
  PROVE  MarkersInv'
<1> SUFFICES ASSUME setting = "transfer"
             PROVE  markers' = index' - (IF Asked!Stalled' /\ index' > 0 THEN 1 ELSE 0)
  BY DEF MarkersInv, GuidanceNext, allVars
<1>1. Asked!Next \/ UNCHANGED vars
  BY DEF GuidanceNext, allVars, flight
<1>2. /\ legs \in Int /\ index \in Nat
      /\ markers = index - (IF Asked!Stalled /\ index > 0 THEN 1 ELSE 0)
  BY DEF TransferInv, LegInv, TransferTypes, MarkersInv
<1>3. CASE Asked!HandOff(Asked!Sightings)
  <2> DEFINE direct == Asked!Final(index) \/ index + 1 \in AskedScenario.degenerate
  <2>1. /\ Asked!OnLeg /\ index' = index + 1 /\ legs' = legs
        /\ markers' = markers + (IF ~Asked!Final(index) /\ direct THEN 0 ELSE 1)
    BY <1>3 DEF Asked!HandOff
  <2>2. markers = index /\ index < legs
    BY <1>2, <2>1 DEF Asked!OnLeg, Asked!Stalled
  <2>3. Asked!Stalled' <=> ~Asked!Final(index) /\ direct
    BY <1>2, <2>1, <2>2 DEF Asked!Stalled, Asked!Final
  <2> HIDE DEF direct
  <2> QED BY <1>2, <2>1, <2>2, <2>3
<1>4. CASE Asked!Direct \/ Asked!Track(Asked!Sightings) \/ UNCHANGED vars
  <2>1. UNCHANGED <<legs, index, markers>>
    BY <1>4 DEF Asked!Direct, Asked!Track, vars
  <2> QED BY <1>2, <2>1 DEF Asked!Stalled
<1>5. CASE Asked!Reset
  BY <1>5 DEF Asked!Reset
<1> QED BY <1>1, <1>3, <1>4, <1>5 DEF Asked!Next

\* On every route, an active leg is flown under its own powered guidance, from its own records,
\* and told once it is over; a handoff to a leg without a direction loses that handoff's marker and
\* leaves nothing of the leg before ("While a waypoint is active, it keeps the leg under powered
\* guidance", transfer_suite.md; update_active_waypoint_frame).
THEOREM ActiveLegIsKept == GuidanceSpec => []ActiveLegKept
<1>1. GuidanceInit => MarkersInv
  BY DEF GuidanceInit, Asked!Init, MarkersInv
<1>2. TransferInv /\ MarkersInv /\ [GuidanceNext]_allVars => MarkersInv'
  BY MarkersStep
<1>3. TransferInv /\ MarkersInv /\ (setting = "transfer" => Asked!LegRecords) => ActiveLegKept
  BY DEF TransferInv, LegInv, MarkersInv, ActiveLegKept, Asked!LegKept, Asked!LegPowered
<1>4. GuidanceInit => TransferInv
  BY TransferBegins
<1>5. TransferInv /\ [GuidanceNext]_allVars => TransferInv'
  BY TransferStep
<1>6. GuidanceSpec => [](setting = "transfer" => Asked!LegRecords)
  BY LegRecordsAreTheLegs
<1> QED BY <1>1, <1>2, <1>3, <1>4, <1>5, <1>6, PTL DEF GuidanceSpec

\* One bad prediction never costs a leg its plan: a plan given up for its contract had failed at
\* the update before, one given up by a search had never passed.
THEOREM PlansAreReplacedPatiently == GuidanceSpec => PlanReplacedPatiently
<1>1. TransferInv /\ [GuidanceNext]_allVars =>
        TransferInv' /\ (setting = "transfer" => Asked!PatientReplacement)
  BY TransferStep DEF TransferStepLegal
<1>2. GuidanceInit => TransferInv
  BY TransferBegins
<1> QED BY <1>1, <1>2, PTL DEF GuidanceSpec, PlanReplacedPatiently

\* A craft that coasts or lands relights its burn only through a takeoff or a handoff, and a
\* completed route keeps terminal ownership, also where legs without a direction lie on it.
THEOREM TransferPhaseIsLegal == GuidanceSpec => TransferPhaseLegal
<1>1. TransferInv /\ [GuidanceNext]_allVars =>
        TransferInv' /\ (setting = "transfer" => Asked!PhaseLegal)
  BY TransferStep DEF TransferStepLegal
<1>2. GuidanceInit => TransferInv
  BY TransferBegins
<1> QED BY <1>1, <1>2, PTL DEF GuidanceSpec, TransferPhaseLegal

----------------------------------------------------------------------------
(* The transfer controller under the core.                                  *)

\* Where a waypoint is due, one of two windows or none is open.
RouteTypes ==
  /\ sim \in Core!SimStates /\ index \in Nat /\ legs = TheRoute
  /\ window \in {-1, index} /\ apart \in {"no", "start", "rest"}
\* As long as the flight runs, both hold the same waypoint and the same window, or are apart for
\* one of the two reasons; the first command finds no window open.
Agreed == index = sim.passed /\ window = sim.window
NotAhead == index <= sim.passed /\ (index = sim.passed /\ window # -1 => sim.window = window)
Apart == (apart = "no" => Agreed) /\ (apart # "start" => NotAhead)
RouteInv ==
  setting = "route" =>
    /\ ~Core!Terminal(sim) => RouteTypes /\ Apart
    /\ ~started => sim = Core!NewSim /\ index = 0 /\ window = -1

\* There is one route, and it has a waypoint.
LEMMA RouteIsLong == TheRoute \in Nat \ {0} /\ (legs \in Routes => legs = TheRoute)
<1>1. Routes = {TheRoute} /\ TheRoute > 0
  BY RouteAssumption DEF TheRoute
<1>2. TheRoute \in Nat \cup {NoRoute}
  BY <1>1, TransferAssumption
<1> QED BY <1>1, <1>2 DEF NoRoute

\* One step of the core without a contact, as long as the flight goes on: the waypoint due next is
\* passed with its window closed, or its window is entered, or nothing is asked of it.
LEMMA CoreJudges ==
  ASSUME NEW s \in Core!SimStates, ~Core!Terminal(s), NEW o \in Sightings,
         NEW after, after = Core!StepSim("WaypointSequence", s, Outcome(o, "None")),
         ~Core!Terminal(after)
  PROVE  LET due == s.passed < TheRoute /\ s.passed \notin Degenerate
             passes == /\ o.capture \/ o.deadline \/ s.window = s.passed
                       /\ o.spatial /\ o.envelope
         IN  /\ after \in Core!SimStates
             /\ due /\ passes => after.passed = s.passed + 1 /\ after.window = -1
             /\ due => passes \/ ~o.deadline
             /\ ~(due /\ passes) => after.passed = s.passed
             /\ due /\ ~passes => after.window = IF o.capture THEN s.passed ELSE s.window
             /\ ~due => after.window = s.window
<1> DEFINE out == Outcome(o, "None")
           moved == [s EXCEPT !.step = s.step + 1]
           landed == Core!ApplyContact("WaypointSequence", moved, "None")
           advanced == Core!ApplyProgress("WaypointSequence", moved, out)
           i == s.passed
           judged == Core!JudgedWaypoint("WaypointSequence", moved)
           due == i < TheRoute /\ i \notin Degenerate
           open == [moved EXCEPT !.window = IF o.capture THEN i ELSE moved.window]
           closed == [moved EXCEPT !.window = -1]
           next == [closed EXCEPT !.passed = closed.passed + 1]
           passes == /\ o.capture \/ o.deadline \/ s.window = i
                     /\ o.spatial /\ o.envelope
<1>1. /\ s.step \in Nat /\ i \in 0..TheRoute /\ TheRoute \in Nat \ {0}
      /\ s.end = "Running"
  BY RouteIsLong DEF Core!SimStates, Core!Terminal
<1>2. /\ moved \in Core!SimStates /\ moved.passed = i /\ moved.window = s.window
      /\ moved.end = "Running" /\ moved.step = s.step + 1
  BY <1>1 DEF Core!SimStates
<1>3. out.contact = "None" /\ out.capture = o.capture /\ out.deadline = o.deadline
      /\ out.spatial = o.spatial /\ out.envelope = o.envelope
  BY DEF Outcome
<1>4. Core!PhysicsStep(s) = moved /\ after = Core!StepSim("WaypointSequence", s, out)
  BY DEF Core!PhysicsStep, Core!SimStates
<1> HIDE DEF moved, out
<1>5. landed = moved
  BY DEF Core!ApplyContact
<1> DEFINE Running(t) == t \in Core!SimStates /\ t.end = "Running"
<1>6. ASSUME Running(advanced) PROVE after = advanced
  <2>1. Core!ApplyMaxTime(advanced).end = "MaxTimeReached"
    BY <1>6 DEF Core!ApplyMaxTime, Core!SimStates
  <2>2. ~Core!Terminal(landed) /\ ~Core!Terminal(advanced)
    BY <1>2, <1>5, <1>6 DEF Core!Terminal
  <2> HIDE DEF landed, advanced
  <2>3. after = advanced \/ after = Core!ApplyMaxTime(advanced)
    BY <1>3, <1>4, <2>2 DEF Core!StepSim, landed, advanced
  <2> QED BY <2>1, <2>3 DEF Core!Terminal
<1>7. ASSUME advanced.end \in {"CheckpointSatisfied", "CheckpointFailed"} PROVE FALSE
  <2>1. ~Core!Terminal(landed) /\ Core!Terminal(advanced)
    BY <1>2, <1>5, <1>7 DEF Core!Terminal
  <2> HIDE DEF landed, advanced
  <2>2. after = advanced
    BY <1>3, <1>4, <2>1 DEF Core!StepSim, landed, advanced
  <2> QED BY <2>1, <2>2
<1>8. CASE ~due
  <2>1. i \notin (0..(TheRoute - 1)) \ (Degenerate \cap 0..(TheRoute - 1))
    BY <1>1, <1>8
  <2>2. judged = -1
    BY <1>2, <2>1 DEF Core!JudgedWaypoint, Core!NoIndex, Core!Indices
  <2>3. advanced = moved
    BY <2>2 DEF Core!ApplyProgress, Core!NoIndex
  <2> QED BY <1>2, <1>6, <1>8, <2>3
<1>9. ASSUME due PROVE judged = i /\ i \in 0..(TheRoute - 1)
  <2>1. i \in 0..(TheRoute - 1) /\ i \notin Degenerate
    BY <1>1, <1>9
  <2>2. moved.step % 1 = 0
    BY <1>1, <1>2
  <2> QED BY <1>2, <2>1, <2>2 DEF Core!JudgedWaypoint, Core!Indices, Core!ControlBoundary
<1>10. /\ Core!ContractPass(moved, i, out) <=> passes
       /\ Core!Resolved(moved, i, out) <=> passes \/ o.deadline
  BY <1>2, <1>3 DEF Core!ContractPass, Core!Resolved, Core!WindowOpen
<1>11. ASSUME due
       PROVE  advanced = Core!WaypointProgress("WaypointSequence", moved, i, out)
  BY <1>9, <1>11 DEF Core!ApplyProgress, Core!NoIndex
<1> HIDE DEF advanced, judged
<1>12. CASE due /\ ~passes /\ ~o.deadline
  <2>1. advanced = open
    BY <1>3, <1>10, <1>11, <1>12 DEF Core!WaypointProgress
  <2>2. (IF o.capture THEN i ELSE moved.window) \in Core!Indices \cup {Core!NoIndex}
    BY <1>2, <1>9, <1>12 DEF Core!SimStates, Core!Indices
  <2>3. /\ open \in Core!SimStates /\ open.end = "Running" /\ open.passed = i
        /\ open.window = IF o.capture THEN i ELSE s.window
    BY <1>2, <2>2 DEF Core!SimStates
  <2> QED BY <1>6, <1>12, <2>1, <2>3
<1>13. CASE due /\ ~passes /\ o.deadline
  <2>1. closed \in Core!SimStates
    BY <1>2 DEF Core!SimStates, Core!NoIndex
  <2>2. advanced = Core!Fail([closed EXCEPT !.failedAt = i])
    BY <1>10, <1>11, <1>13 DEF Core!WaypointProgress, Core!NoIndex
  <2>3. advanced.end = "CheckpointFailed"
    BY <2>1, <2>2 DEF Core!Fail, Core!SimStates
  <2> QED BY <1>7, <2>3
<1>14. CASE due /\ passes
  <2>1. closed \in Core!SimStates /\ closed.passed = i /\ closed.end = "Running" /\ closed.window = -1
    BY <1>2 DEF Core!SimStates, Core!NoIndex
  <2>2. i + 1 \in 0..TheRoute
    BY <1>1, <1>9, <1>14
  <2> HIDE DEF closed
  <2>3. /\ next \in Core!SimStates /\ next.passed = i + 1 /\ next.end = "Running"
        /\ next.window = -1
    BY <2>1, <2>2 DEF Core!SimStates
  <2>4. advanced = next \/ advanced = Core!Satisfy(next)
    BY <1>10, <1>11, <1>14 DEF Core!WaypointProgress, Core!NoIndex, closed
  <2> HIDE DEF next
  <2>5. Core!Satisfy(next).end = "CheckpointSatisfied"
    BY <2>3 DEF Core!Satisfy, Core!SimStates
  <2> QED BY <1>6, <1>7, <1>14, <2>3, <2>4, <2>5
<1> QED BY <1>8, <1>12, <1>13, <1>14

\* A contact ends the flight.
LEMMA ContactEnds ==
  ASSUME NEW s \in Core!SimStates, NEW o, NEW c \in Core!Contacts \ {"None"}
  PROVE  Core!Terminal(Core!StepSim("WaypointSequence", s, Outcome(o, c)))
<1> DEFINE out == Outcome(o, c)
           moved == Core!PhysicsStep(s)
           landed == Core!ApplyContact("WaypointSequence", moved, c)
<1>1. s.step + 1 \in Nat /\ moved = [s EXCEPT !.step = s.step + 1]
  BY DEF Core!PhysicsStep, Core!SimStates
<1>2. moved \in Core!SimStates
  <2>1. [s EXCEPT !.step = s.step + 1] \in Core!SimStates
    BY <1>1 DEF Core!SimStates
  <2> QED BY <1>1, <2>1
<1>3. out.contact = c
  BY DEF Outcome
<1> HIDE DEF moved
<1>4. landed.end \in {"TouchdownOnTarget", "TouchdownOffTarget", "Crash"}
  <2>1. c \in {"OnTarget", "OffTarget", "Crash"}
    BY DEF Core!Contacts
  <2> QED BY <1>2, <2>1 DEF Core!ApplyContact, Core!SimStates
<1>5. Core!Terminal(landed)
  BY <1>4 DEF Core!Terminal
<1> HIDE DEF landed, out
<1>6. Core!StepSim("WaypointSequence", s, out) = landed
  BY <1>3, <1>5 DEF Core!StepSim, landed, moved
<1> QED BY <1>5, <1>6 DEF out

\* The numbers of a flight not yet begun.
LEMMA NewSimIsASim ==
  Core!NewSim \in Core!SimStates /\ Core!NewSim.passed = 0 /\ Core!NewSim.window = -1
<1>1. Core!NewSim \in Core!SimStates
  BY RouteIsLong DEF Core!NewSim, Core!SimStates, Core!EndReasons, Core!MissionOutcomes,
     Core!PhysicalOutcomes, Core!NoIndex
<1> QED BY <1>1 DEF Core!NewSim, Core!NoIndex

\* One update of the controller: it passes its waypoint, or keeps it and perhaps opens its window.
LEMMA ControllerUpdates ==
  ASSUME RouteTypes, NEW o \in Sightings, Update(o)
  PROVE  LET due == index < TheRoute /\ index \notin Degenerate
             passes == (o.capture \/ o.deadline \/ window = index) /\ o.spatial /\ o.envelope
             resolved == passes \/ o.deadline
         IN  /\ legs' = legs /\ index' \in Nat /\ window' \in {-1, index'}
             /\ due /\ resolved => index' = index + 1 /\ window' = -1
             /\ ~(due /\ resolved) => index' = index
             /\ due /\ ~resolved => window' = IF o.capture THEN index ELSE window
             /\ ~due => window' = window
<1> DEFINE due == index < TheRoute /\ index \notin Degenerate
           passes == (o.capture \/ o.deadline \/ window = index) /\ o.spatial /\ o.envelope
           resolved == passes \/ o.deadline
<1>1. (OnLeg <=> due) /\ index \in Nat /\ window \in {-1, index}
  BY DEF RouteTypes, OnLeg
<1>2. Resolved(o) <=> resolved
  BY <1>1 DEF Passes, Resolved, Opened, NoLeg
<1> HIDE DEF due, resolved
<1>3. CASE Direct
  <2>1. ~due /\ UNCHANGED <<legs, index, window>>
    BY <1>1, <1>3 DEF Direct
  <2> QED BY <1>1, <2>1 DEF due, resolved
<1>4. CASE Track({o})
  <2>1. due /\ ~resolved /\ UNCHANGED <<legs, index>>
        /\ window' = IF o.capture /\ window = -1 THEN index ELSE window
    BY <1>1, <1>2, <1>4 DEF Track, NoLeg
  <2> QED BY <1>1, <2>1 DEF due, resolved
<1>5. CASE HandOff({o})
  <2>1. due /\ resolved /\ index' = index + 1 /\ window' = -1 /\ legs' = legs
    BY <1>1, <1>2, <1>5 DEF HandOff, NoLeg
  <2> QED BY <1>1, <2>1 DEF due, resolved
<1> QED BY <1>3, <1>4, <1>5 DEF Update

\* The first command: outside every capture radius and before every plane it changes nothing.
LEMMA TakeoffAgrees ==
  ASSUME RouteTypes, sim = Core!NewSim, index = 0, window = -1, Takeoff
  PROVE  RouteTypes' /\ Apart'
<1>1. PICK o \in Sightings :
        Update(o) /\ apart' = IF o.capture \/ o.deadline THEN "start" ELSE "no"
  BY DEF Takeoff
<1>2. sim' = sim /\ sim.passed = 0 /\ sim.window = -1
  BY NewSimIsASim DEF Takeoff
<1>3. /\ legs' = legs /\ index' \in Nat /\ window' \in {-1, index'}
      /\ ~(o.capture \/ o.deadline) => index' = index /\ window' = window
  BY <1>1, ControllerUpdates
<1>4. RouteTypes'
  BY <1>1, <1>2, <1>3 DEF RouteTypes
<1> QED BY <1>1, <1>2, <1>3, <1>4 DEF Apart, Agreed, NotAhead

\* A boundary at which the core lets the flight go on and the controller is asked.
LEMMA BoundaryAgrees ==
  ASSUME RouteTypes, Apart, ~Core!Terminal(sim), ~Core!Terminal(sim)',
         NEW o \in Sightings, NEW rest \in BOOLEAN, NEW seen \in CoreSightings(o, rest),
         rest => index = sim.passed /\ index \in Lenient /\ ~o.envelope,
         sim' = Core!StepSim("WaypointSequence", sim, Outcome(seen, "None")),
         apart' = IF apart = "no" /\ rest THEN "rest" ELSE apart,
         Update(o)
  PROVE  RouteTypes' /\ Apart'
<1> DEFINE due == index < TheRoute /\ index \notin Degenerate
           passes == (o.capture \/ o.deadline \/ window = index) /\ o.spatial /\ o.envelope
           coreDue == sim.passed < TheRoute /\ sim.passed \notin Degenerate
           corePasses == /\ seen.capture \/ seen.deadline \/ sim.window = sim.passed
                         /\ seen.spatial /\ seen.envelope
<1>1. /\ o.capture \in BOOLEAN /\ o.deadline \in BOOLEAN
      /\ o.spatial \in BOOLEAN /\ o.envelope \in BOOLEAN
      /\ seen \in Sightings /\ seen.envelope \in BOOLEAN
      /\ index = sim.passed =>
           /\ seen.capture = o.capture /\ seen.deadline = o.deadline
           /\ seen.spatial = o.spatial /\ (o.envelope => seen.envelope)
           /\ (~rest => seen.envelope = o.envelope)
  BY DEF CoreSightings, Sightings
<1>2. /\ sim' \in Core!SimStates
      /\ coreDue /\ corePasses => sim'.passed = sim.passed + 1 /\ sim'.window = -1
      /\ coreDue => corePasses \/ ~seen.deadline
      /\ ~(coreDue /\ corePasses) => sim'.passed = sim.passed
      /\ coreDue /\ ~corePasses => sim'.window = IF seen.capture THEN sim.passed ELSE sim.window
      /\ ~coreDue => sim'.window = sim.window
  <2>1. PICK after : after = sim'
    OBVIOUS
  <2>2. ~Core!Terminal(after)
    BY <2>1 DEF Core!Terminal
  <2> QED BY <1>1, <2>1, <2>2, CoreJudges DEF RouteTypes
<1>3. /\ legs' = legs /\ index' \in Nat /\ window' \in {-1, index'}
      /\ due /\ (passes \/ o.deadline) => index' = index + 1 /\ window' = -1
      /\ ~(due /\ (passes \/ o.deadline)) => index' = index
      /\ due /\ ~(passes \/ o.deadline) => window' = IF o.capture THEN index ELSE window
      /\ ~due => window' = window
  BY ControllerUpdates
<1>4. index \in Nat /\ sim.passed \in Nat /\ window \in {-1, index}
  BY RouteIsLong DEF RouteTypes, Core!SimStates
<1>5. RouteTypes'
  BY <1>2, <1>3 DEF RouteTypes
<1>6. ASSUME apart' = "no" PROVE Agreed'
  <2>1. apart = "no" /\ ~rest /\ index = sim.passed /\ window = sim.window
    BY <1>6 DEF Apart, Agreed
  <2>2. (coreDue <=> due) /\ (corePasses <=> passes) /\ seen.capture = o.capture
        /\ seen.deadline = o.deadline
    BY <1>1, <2>1
  <2> HIDE DEF due, passes, coreDue, corePasses
  <2> QED BY <1>1, <1>2, <1>3, <2>1, <2>2 DEF Agreed
<1>7. ASSUME apart' # "start" PROVE NotAhead'
  <2>1. index <= sim.passed /\ (index = sim.passed /\ window # -1 => sim.window = window)
    BY <1>7 DEF Apart, NotAhead
  <2>2. CASE index = sim.passed
    <3>1. (coreDue <=> due) /\ (passes => corePasses) /\ seen.capture = o.capture
          /\ seen.deadline = o.deadline
      BY <1>1, <1>4, <2>1, <2>2
    <3> HIDE DEF due, passes, coreDue, corePasses
    <3>2. CASE ~due
      <4>1. index' = index /\ window' = window /\ sim'.passed = sim.passed
            /\ sim'.window = sim.window
        BY <1>2, <1>3, <3>1, <3>2
      <4> QED BY <1>4, <2>1, <2>2, <4>1 DEF NotAhead
    <3>3. CASE due /\ corePasses
      <4>1. sim'.passed = index + 1
        BY <1>2, <2>2, <3>1, <3>3
      <4>2. index' = index \/ (index' = index + 1 /\ window' = -1)
        BY <1>3
      <4> QED BY <1>4, <4>1, <4>2 DEF NotAhead
    <3>4. CASE due /\ ~corePasses
      <4>1. /\ ~passes /\ ~o.deadline /\ sim'.passed = sim.passed /\ index' = index
            /\ sim'.window = IF o.capture THEN index ELSE sim.window
            /\ window' = IF o.capture THEN index ELSE window
        BY <1>1, <1>2, <1>3, <2>2, <3>1, <3>4
      <4> QED BY <1>4, <2>1, <2>2, <4>1 DEF NotAhead
    <3> QED BY <3>2, <3>3, <3>4
  <2>3. CASE index < sim.passed
    <3>1. sim'.passed \in {sim.passed, sim.passed + 1}
      BY <1>2
    <3>2. index' = index \/ (index' = index + 1 /\ window' = -1)
      BY <1>3
    <3> QED BY <1>4, <2>3, <3>1, <3>2 DEF NotAhead
  <2> QED BY <1>4, <2>1, <2>2, <2>3
<1> QED BY <1>5, <1>6, <1>7 DEF Apart

\* Every boundary keeps what the two may disagree on until the flight ends.
LEMMA RouteStep ==
  ASSUME RouteInv, [GuidanceNext]_allVars
  PROVE  RouteInv'
<1> DEFINE Flown == RouteTypes /\ Apart
           Fresh == sim = Core!NewSim /\ index = 0 /\ window = -1
<1> SUFFICES ASSUME setting = "route"
             PROVE  (~Core!Terminal(sim) => Flown)' /\ (~started => Fresh)'
  BY DEF RouteInv, GuidanceNext, allVars
<1>1. Takeoff \/ Fly \/ Touch \/ UNCHANGED flight
  BY DEF GuidanceNext, allVars, FlightNext
<1>2. (~Core!Terminal(sim) => Flown) /\ (~started => Fresh)
  BY DEF RouteInv
<1>3. CASE Takeoff
  <2>1. ~started /\ started' /\ sim' = sim
    BY <1>3 DEF Takeoff
  <2>2. ~Core!Terminal(sim) => Flown'
    BY <1>2, <1>3, <2>1, TakeoffAgrees
  <2> HIDE DEF Flown, Fresh
  <2> QED BY <2>1, <2>2 DEF Core!Terminal
<1>4. CASE Fly
  <2>1. PICK o \in Sightings, rest \in BOOLEAN :
          /\ rest => index = sim.passed /\ index \in Lenient /\ ~o.envelope
          /\ sim' \in {Core!StepSim("WaypointSequence", sim, Outcome(seen, "None")) :
                       seen \in CoreSightings(o, rest)}
          /\ apart' = IF apart = "no" /\ rest THEN "rest" ELSE apart
          /\ IF Core!Terminal(sim') THEN UNCHANGED vars ELSE Update(o)
    BY <1>4 DEF Fly
  <2>2. PICK seen \in CoreSightings(o, rest) :
          sim' = Core!StepSim("WaypointSequence", sim, Outcome(seen, "None"))
    BY <2>1
  <2>3. ~Core!Terminal(sim) /\ started /\ started' = started
    BY <1>4 DEF Fly
  <2>4. ~Core!Terminal(sim)' => Flown'
    <3> SUFFICES ASSUME ~Core!Terminal(sim)' PROVE Flown'
      OBVIOUS
    <3>1. Update(o)
      BY <2>1 DEF Core!Terminal
    <3> QED BY <1>2, <2>1, <2>2, <2>3, <3>1, BoundaryAgrees
  <2> HIDE DEF Flown, Fresh
  <2> QED BY <2>3, <2>4
<1>5. CASE Touch
  <2>1. PICK c \in Core!Contacts \ {"None"} :
          sim' = Core!StepSim("WaypointSequence", sim, Outcome(NotSeen, c))
    BY <1>5 DEF Touch
  <2>2. ~Core!Terminal(sim) /\ started /\ started' = started
    BY <1>5 DEF Touch
  <2>3. Core!Terminal(Core!StepSim("WaypointSequence", sim, Outcome(NotSeen, c)))
    BY <1>2, <2>2, ContactEnds DEF RouteTypes
  <2> QED BY <2>1, <2>2, <2>3 DEF Core!Terminal
<1>6. CASE UNCHANGED flight
  BY <1>2, <1>6 DEF flight, vars, RouteTypes, Apart, Agreed, NotAhead, Core!Terminal
<1> QED BY <1>1, <1>3, <1>4, <1>5, <1>6

\* On every route, from every start, whichever of its legs have no direction and wherever the two
\* judge rest differently: as long as the flight runs, the controller and the core fly and judge
\* the same waypoint under the same window, unless the first command was already inside a capture
\* radius or past a plane, or the craft was judged at rest at a waypoint only the core finds met;
\* and after the latter the controller is behind the core, never ahead of it.
THEOREM RouteAgreesWithTheCore == GuidanceSpec => []RouteAgreesWithCore
<1>1. GuidanceInit => RouteInv
  <2> SUFFICES ASSUME GuidanceInit, setting = "route"
               PROVE  RouteTypes /\ Apart /\ sim = Core!NewSim /\ index = 0 /\ window = -1
    BY DEF RouteInv
  <2>1. legs \in Routes /\ index = 0 /\ window = -1 /\ sim = Core!NewSim /\ apart = "no"
    BY DEF GuidanceInit, FlightInit, Init, NoLeg
  <2> QED BY <2>1, NewSimIsASim, RouteIsLong DEF RouteTypes, Apart, Agreed, NotAhead
<1>2. RouteInv /\ [GuidanceNext]_allVars => RouteInv'
  BY RouteStep
<1>3. RouteInv => RouteAgreesWithCore
  BY DEF RouteInv, Apart, Agreed, NotAhead, RouteAgreesWithCore, CoreAgrees, NoLeg
<1> QED BY <1>1, <1>2, <1>3, PTL DEF GuidanceSpec

=============================================================================
