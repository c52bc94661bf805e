-------------------------- MODULE SpacesActorProofs --------------------------
(***************************************************************************)
(* What the spaces actor schedules is never lost, for every set of         *)
(* displays, spaces and pictures, any number of retries and attempts and   *)
(* any length of behaviour: a pending refresh has its attempt on the way,  *)
(* a churn has a check of its epoch on the way, and a churn settles by     *)
(* samples taken since its last reconfiguration.                           *)
(***************************************************************************)
EXTENDS SpacesActor, TLAPS

-----------------------------------------------------------------------------
(* The refresh.                                                            *)

RefreshTypes ==
    /\ refresh \in [pending : BOOLEAN, unconfirmed : BOOLEAN]
    /\ refreshes \in [RefreshAttempts -> Nat]

(* The refresh holds by itself: no step needs more than that the refresh   *)
(* before it was outstanding.                                              *)
RefreshInv == RefreshTypes /\ RefreshOutstanding

(* A refresh that agrees with r on what is pending, before it schedules.   *)
LEMMA ScheduleKeeps ==
    ASSUME RefreshInv, NEW r \in [pending : BOOLEAN, unconfirmed : BOOLEAN],
           r.pending = refresh.pending, NEW active, Schedules(r, active)
    PROVE  RefreshInv'
<1> USE DEF RefreshInv, RefreshTypes, RefreshOutstanding, RefreshAttempts
<1>0. REFRESH_MAX_RETRIES \in Nat
  BY SpacesAssumption
<1>1. CASE active \/ r.pending
  BY <1>0, <1>1 DEF Schedules
<1>2. CASE ~(active \/ r.pending)
  <2>1. \A n \in 0..REFRESH_MAX_RETRIES : refreshes[n] = 0
    BY <1>0, <1>2
  <2>2. refresh' = [r EXCEPT !.pending = TRUE] /\ refreshes' = [refreshes EXCEPT ![0] = @ + 1]
    BY <1>2 DEF Schedules
  <2>3. \A n \in 0..REFRESH_MAX_RETRIES : refreshes'[n] = IF n = 0 THEN 1 ELSE 0
    BY <1>0, <2>1, <2>2
  <2>4. refresh' \in [pending : BOOLEAN, unconfirmed : BOOLEAN] /\ refresh'.pending
    BY <2>2
  <2>5. refreshes' \in [0..REFRESH_MAX_RETRIES -> Nat] /\ 0 \in 0..REFRESH_MAX_RETRIES
    BY <1>0, <2>2
  <2>6. \E n \in 0..REFRESH_MAX_RETRIES : refreshes'[n] > 0
    BY <2>3, <2>5
  <2> QED BY <2>3, <2>4, <2>5, <2>6
<1> QED BY <1>1, <1>2

(* An attempt that comes due ends the refresh, or goes on as one attempt.  *)
LEMMA AttemptKeeps ==
    ASSUME RefreshInv, NEW n \in RefreshAttempts, ProcessScreenRefresh(n),
           lifecycle.releases \in BOOLEAN
    PROVE  RefreshInv'
<1> DEFINE rest  == [refreshes EXCEPT ![n] = @ - 1]
           on(k) == [rest EXCEPT ![k] = @ + 1]
<1>0. REFRESH_MAX_RETRIES \in Nat
  BY SpacesAssumption
<1>1. /\ \A k \in RefreshAttempts : refreshes[k] = IF k = n THEN 1 ELSE 0
      /\ refresh.pending
  BY <1>0 DEF ProcessScreenRefresh, RefreshInv, RefreshTypes, RefreshOutstanding, RefreshAttempts
<1>2. rest \in [RefreshAttempts -> Nat] /\ \A k \in RefreshAttempts : rest[k] = 0
  BY <1>0, <1>1 DEF RefreshInv, RefreshTypes, RefreshAttempts
<1> HIDE DEF rest
<1>3. ASSUME NEW k \in RefreshAttempts
      PROVE  /\ on(k) \in [RefreshAttempts -> Nat]
             /\ \A j \in RefreshAttempts : on(k)[j] = IF j = k THEN 1 ELSE 0
  BY <1>0, <1>2 DEF RefreshAttempts
<1> HIDE DEF on
<1>4. /\ refresh' \in [pending : BOOLEAN, unconfirmed : BOOLEAN]
      /\ \/ ~refresh'.pending /\ refreshes' = rest
         \/ refresh'.pending /\ \E k \in RefreshAttempts : refreshes' = on(k)
  <2>1. CASE Quarantined
    BY <2>1 DEF ProcessScreenRefresh, Ended, RefreshInv, RefreshTypes, rest
  <2>2. CASE /\ n < REFRESH_MAX_RETRIES
             /\ refreshes' = [rest EXCEPT ![n + 1] = @ + 1]
             /\ refresh' = [refresh EXCEPT !.pending = TRUE]
    <3>1. n + 1 \in RefreshAttempts
      BY <1>0, <2>2 DEF RefreshAttempts
    <3> QED BY <2>2, <3>1 DEF RefreshInv, RefreshTypes, on
  <2>3. CASE /\ refresh' = [refresh EXCEPT !.pending = lifecycle.releases]
             /\ refreshes' = IF lifecycle.releases THEN [rest EXCEPT ![0] = @ + 1] ELSE rest
    <3>1. 0 \in RefreshAttempts
      BY <1>0 DEF RefreshAttempts
    <3> QED BY <2>3, <3>1 DEF RefreshInv, RefreshTypes, on
  <2>4. CASE refresh' = [pending |-> FALSE, unconfirmed |-> FALSE] /\ refreshes' = rest
    BY <2>4
  <2> QED
    BY <2>1, <2>2, <2>3, <2>4 DEF ProcessScreenRefresh, rest
<1> QED
  <2>1. CASE ~refresh'.pending /\ refreshes' = rest
    BY <1>0, <1>2, <1>4, <2>1 DEF RefreshInv, RefreshTypes, RefreshOutstanding, RefreshAttempts
  <2>2. ASSUME refresh'.pending, NEW k \in RefreshAttempts, refreshes' = on(k)
        PROVE  RefreshInv'
    <3>1. /\ refreshes' \in [RefreshAttempts -> Nat]
          /\ \A j \in RefreshAttempts : refreshes'[j] = IF j = k THEN 1 ELSE 0
      BY <1>3, <2>2
    <3>2. \E j \in RefreshAttempts : refreshes'[j] > 0
      BY <2>2, <3>1
    <3>3. \A i, j \in RefreshAttempts : refreshes'[i] > 0 /\ refreshes'[j] > 0 => i = j
      BY <3>1
    <3>4. \A j \in RefreshAttempts : refreshes'[j] <= 1
      BY <3>1
    <3>5. RefreshOutstanding'
      BY <2>2, <3>2, <3>3, <3>4 DEF RefreshOutstanding
    <3> QED BY <1>4, <3>1, <3>5 DEF RefreshInv, RefreshTypes
  <2> QED BY <1>4, <2>1, <2>2

LEMMA ForwardsOrSchedulesKeeps ==
    ASSUME RefreshInv, NEW r \in [pending : BOOLEAN, unconfirmed : BOOLEAN],
           r.pending = refresh.pending, NEW force, ForwardsOrSchedules(r, force)
    PROVE  RefreshInv'
<1>1. CASE \E active : Schedules(r, active)
  BY <1>1, ScheduleKeeps
<1>2. CASE refresh' = [r EXCEPT !.unconfirmed = FALSE] /\ UNCHANGED refreshes
  BY <1>2 DEF RefreshInv, RefreshTypes, RefreshOutstanding
<1> QED
  BY <1>1, <1>2 DEF ForwardsOrSchedules

(* The lifecycle's holds, and the release it owes.                         *)
LifecycleType == lifecycle \in [releases : BOOLEAN, on : SUBSET Hold]

LEMMA ForwardsKeepsLifecycle ==
    ASSUME LifecycleType, NEW screens, Forwards(screens) \/ ForwardsNothing
    PROVE  LifecycleType'
BY DEF LifecycleType, Forwards, ForwardsNothing, snapshotVars

LEMMA LifecycleStep == LifecycleType /\ [Next]_vars => LifecycleType'
<1> SUFFICES ASSUME LifecycleType, [Next]_vars PROVE LifecycleType'
  OBVIOUS
<1>1. CASE lifecycle' = lifecycle
  BY <1>1 DEF LifecycleType
<1>2. CASE \E screens : Forwards(screens) \/ ForwardsNothing
  BY <1>2, ForwardsKeepsLifecycle
<1>3. ASSUME NEW h \in Hold, Holds(h) PROVE LifecycleType'
  BY <1>3 DEF LifecycleType, Holds
<1>4. ASSUME NEW h \in Hold, Resamples(h) PROVE LifecycleType'
  BY <1>4 DEF LifecycleType, Resamples
<1>5. CASE ActiveDisplayChanged \/ SpaceInventoryChanged \/ Announcements
  BY <1>1, <1>2, <1>5 DEF ActiveDisplayChanged, SpaceInventoryChanged, Announcements,
     ActiveSpaceChanged, ScreenRefreshRequested, DisplayReconfigured, ForwardsOrSchedules
<1>6. CASE Refreshes \/ Checks
  BY <1>1, <1>2, <1>6 DEF Refreshes, Checks, ProcessScreenRefresh, CheckDisplayStabilization
<1>7. CASE ReactorHears \/ DefersRefresh \/ UNCHANGED vars
  BY <1>1, <1>7 DEF ReactorHears, DefersRefresh, vars, snapshotVars
<1>8. ASSUME NEW picture, Changes(picture) PROVE LifecycleType'
  BY <1>1, <1>8 DEF Changes, snapshotVars
<1> QED
  BY <1>3, <1>4, <1>5, <1>6, <1>7, <1>8 DEF Next, MacActs

LEMMA RefreshStep == LifecycleType /\ RefreshInv /\ [Next]_vars => RefreshInv'
<1> SUFFICES ASSUME LifecycleType, RefreshInv, [Next]_vars PROVE RefreshInv'
  OBVIOUS
<1>0. refresh \in [pending : BOOLEAN, unconfirmed : BOOLEAN]
  BY DEF RefreshInv, RefreshTypes
<1>1. CASE UNCHANGED timerVars
  BY <1>1 DEF RefreshInv, RefreshTypes, RefreshOutstanding, timerVars
<1>2. ASSUME NEW active, Schedules(refresh, active) PROVE RefreshInv'
  BY <1>0, <1>2, ScheduleKeeps
<1>3. ASSUME NEW force, ForwardsOrSchedules(refresh, force) PROVE RefreshInv'
  BY <1>0, <1>3, ForwardsOrSchedulesKeeps
<1>4. CASE ActiveSpaceChanged
  <2> DEFINE r == [refresh EXCEPT !.unconfirmed = TRUE]
  <2>1. r \in [pending : BOOLEAN, unconfirmed : BOOLEAN] /\ r.pending = refresh.pending
    BY <1>0
  <2>2. ForwardsOrSchedules(r, FALSE)
    BY <1>4 DEF ActiveSpaceChanged
  <2> HIDE DEF r
  <2> QED BY <2>1, <2>2, ForwardsOrSchedulesKeeps
<1>5. CASE refresh' = [refresh EXCEPT !.unconfirmed = FALSE] /\ UNCHANGED refreshes
  BY <1>5 DEF RefreshInv, RefreshTypes, RefreshOutstanding
<1>6. ASSUME NEW h \in Hold, Holds(h) \/ Resamples(h) PROVE RefreshInv'
  BY <1>1, <1>2, <1>6 DEF Holds, Resamples
<1>7. CASE ActiveDisplayChanged \/ SpaceInventoryChanged
  BY <1>1, <1>3, <1>7 DEF ActiveDisplayChanged, SpaceInventoryChanged
<1>8. CASE ScreenRefreshRequested \/ DisplayReconfigured
  BY <1>1, <1>2, <1>8 DEF ScreenRefreshRequested, DisplayReconfigured
<1>9. ASSUME NEW n \in RefreshAttempts, ProcessScreenRefresh(n) PROVE RefreshInv'
  BY <1>9, AttemptKeeps DEF LifecycleType
<1>10. ASSUME NEW e \in Epochs, NEW n \in CheckAttempts, CheckDisplayStabilization(e, n)
       PROVE  RefreshInv'
  BY <1>1, <1>2, <1>5, <1>10 DEF CheckDisplayStabilization
<1>11. ASSUME NEW picture, Changes(picture) PROVE RefreshInv'
  BY <1>1, <1>11 DEF Changes
<1>12. CASE ReactorHears \/ DefersRefresh \/ UNCHANGED vars
  BY <1>1, <1>12 DEF ReactorHears, DefersRefresh, vars
<1> QED
  BY <1>4, <1>6, <1>7, <1>8, <1>9, <1>10, <1>11, <1>12
     DEF Next, MacActs, Announcements, Refreshes, Checks

LEMMA RefreshInit == Init => LifecycleType /\ RefreshInv
BY SpacesAssumption DEF Init, LifecycleType, RefreshInv, RefreshTypes, RefreshOutstanding,
   RefreshAttempts

(* A refresh is pending exactly while one attempt of it is on its way: no  *)
(* refresh the actor believes in is ever lost, and none runs twice.        *)
THEOREM RefreshesOutstanding == Spec => []RefreshOutstanding
<1>1. RefreshInv => RefreshOutstanding
  BY DEF RefreshInv
<1> QED
  BY RefreshInit, LifecycleStep, RefreshStep, <1>1, PTL DEF Spec

-----------------------------------------------------------------------------
(* The churn.                                                              *)

IsRun(r) ==
    /\ DOMAIN r = {"active", "last", "hits"}
    /\ r.active \in BOOLEAN /\ r.hits \in 0..DISPLAY_STABLE_REQUIRED_HITS

ChurnTypes ==
    /\ DOMAIN churn = {"epoch", "run"}
    /\ churn.epoch \in Nat /\ IsRun(churn.run)
    /\ churn.run.active => churn.epoch \in Epochs
    /\ checks \in [Epochs \X CheckAttempts -> Nat]
    /\ samples \in 0..DISPLAY_STABLE_REQUIRED_HITS

ChurnInv == ChurnTypes /\ ChurnChecked /\ SettledSince

LEMMA FreshRuns == IsRun(NoRun) /\ IsRun(NewRun) /\ NewRun.active /\ NewRun.hits = 0
                   /\ ~NoRun.active /\ NoRun.hits = 0
BY SpacesAssumption DEF IsRun, NoRun, NewRun

(* What a check makes of the samples: one more of the picture sampled      *)
(* last, or the first of another.                                          *)
LEMMA Settled ==
    ASSUME NEW run, IsRun(run), run.active, NEW screens, NEW quiet, NEW n,
           NEW taken \in 0..DISPLAY_STABLE_REQUIRED_HITS, run.hits <= taken
    PROVE  LET s == Settle(run, screens, quiet, n) IN
           /\ IsRun(s.run) /\ s.run.active
           /\ s.step \in {"again", "giveUp", "forward"}
           /\ IF screens = <<>> THEN s.run.hits <= taken
              ELSE s.run.hits <= AtMost(taken + 1, DISPLAY_STABLE_REQUIRED_HITS)
<1> DEFINE most == DISPLAY_STABLE_REQUIRED_HITS
           hits == AtMost(run.hits + 1, most)
           seen == [run EXCEPT !.hits = hits]
           new1 == [run EXCEPT !.last = screens]
           new  == [new1 EXCEPT !.hits = 1]
           s    == Settle(run, screens, quiet, n)
<1>0. most \in Nat \ {0} /\ run.hits \in 0..most
  BY SpacesAssumption DEF IsRun
<1>1. /\ hits \in 0..most /\ 1 \in 0..most
      /\ hits <= AtMost(taken + 1, most) /\ 1 <= AtMost(taken + 1, most)
      /\ 0 <= AtMost(taken + 1, most)
  BY <1>0 DEF AtMost
<1> HIDE DEF hits, most
<1>2. IsRun(seen) /\ seen.active /\ seen.hits = hits
  BY <1>1 DEF IsRun, most
<1>3. IsRun(new) /\ new.active /\ new.hits = 1
  <2>1. IsRun(new1) /\ new1.active
    BY DEF IsRun
  <2> HIDE DEF new1
  <2> QED BY <1>1, <2>1 DEF IsRun, most
<1>4. new = [run EXCEPT !.last = screens, !.hits = 1]
  BY DEF IsRun
<1>5. NextCheck(n) \in {"again", "giveUp"}
  BY DEF NextCheck
<1>6. \/ screens = <<>> /\ s = [run |-> run, step |-> NextCheck(n)]
      \/ screens # <<>> /\ s = [run |-> new, step |-> "again"]
      \/ screens # <<>> /\ s = [run |-> seen, step |-> NextCheck(n)]
      \/ screens # <<>> /\ s = [run |-> NewRun, step |-> NextCheck(n)]
      \/ screens # <<>> /\ s = [run |-> seen, step |-> "forward"]
  BY <1>4 DEF Settle, hits, most
<1> HIDE DEF s, seen, new, new1
<1>7. CASE screens = <<>> /\ s = [run |-> run, step |-> NextCheck(n)]
  BY <1>5, <1>7 DEF s, most
<1>8. CASE screens # <<>> /\ \/ s = [run |-> seen, step |-> NextCheck(n)]
                             \/ s = [run |-> seen, step |-> "forward"]
  BY <1>1, <1>2, <1>5, <1>8 DEF s, most
<1>9. CASE screens # <<>> /\ s = [run |-> new, step |-> "again"]
  BY <1>1, <1>3, <1>9 DEF s, most
<1>10. CASE screens # <<>> /\ s = [run |-> NewRun, step |-> NextCheck(n)]
  BY <1>1, <1>5, <1>10, FreshRuns DEF s, most
<1> QED
  BY <1>6, <1>7, <1>8, <1>9, <1>10

LEMMA ChecksAre ==
    ASSUME ChurnTypes, NEW e \in Epochs, NEW n \in CheckAttempts
    PROVE  /\ <<e, n>> \in Epochs \X CheckAttempts
           /\ checks[<<e, n>>] \in Nat
           /\ 0 \in CheckAttempts
BY SpacesAssumption DEF ChurnTypes, CheckAttempts

(* A check scheduled adds to those of its epoch, and takes from none.      *)
LEMMA CheckSoonAdds ==
    ASSUME ChurnTypes, NEW e \in Epochs, checks' = CheckSoon(e)
    PROVE  /\ checks' \in [Epochs \X CheckAttempts -> Nat]
           /\ \E n \in CheckAttempts : checks'[<<e, n>>] > 0
<1>1. 0 \in CheckAttempts /\ <<e, 0>> \in Epochs \X CheckAttempts
  BY SpacesAssumption DEF CheckAttempts
<1>2. checks' = [checks EXCEPT ![<<e, 0>>] = @ + 1]
  BY DEF CheckSoon
<1>3. checks' \in [Epochs \X CheckAttempts -> Nat] /\ checks'[<<e, 0>>] = checks[<<e, 0>>] + 1
  BY <1>1, <1>2 DEF ChurnTypes
<1>4. checks[<<e, 0>>] \in Nat
  BY <1>1 DEF ChurnTypes
<1> QED BY <1>1, <1>3, <1>4

(* A churn that another reconfiguration meets is checked anew, at an epoch *)
(* no check yet carries, and samples from the start.                       *)
LEMMA ReconfiguredKeeps == ASSUME ChurnInv, DisplayReconfigured PROVE ChurnInv'
<1>1. churn' = [epoch |-> churn.epoch + 1, run |-> NewRun] /\ samples' = 0
  BY DEF DisplayReconfigured, Reconfigured
<1>2. churn.epoch + 1 \in Epochs
  BY SpacesAssumption DEF DisplayReconfigured, Epochs, ChurnInv, ChurnTypes
<1>3. /\ checks' \in [Epochs \X CheckAttempts -> Nat]
      /\ \E n \in CheckAttempts : checks'[<<churn.epoch + 1, n>>] > 0
  BY <1>2, CheckSoonAdds DEF DisplayReconfigured, ChurnInv
<1>4. ChurnTypes'
  BY <1>1, <1>2, <1>3, FreshRuns, SpacesAssumption DEF ChurnTypes, ChurnInv, Epochs
<1>5. ChurnChecked'
  BY <1>1, <1>3 DEF ChurnChecked
<1>6. SettledSince'
  BY <1>1, FreshRuns DEF SettledSince
<1> QED BY <1>4, <1>5, <1>6 DEF ChurnInv

LEMMA ResamplesKeeps == ASSUME ChurnInv, NEW h, Resamples(h) PROVE ChurnInv'
<1>1. UNCHANGED <<churn, samples>>
  BY DEF Resamples
<1>2. CASE churn.run.active
  <2>1. churn.epoch \in Epochs /\ checks' = CheckSoon(churn.epoch)
    BY <1>2 DEF Resamples, ChurnInv, ChurnTypes
  <2>2. /\ checks' \in [Epochs \X CheckAttempts -> Nat]
        /\ \E n \in CheckAttempts : checks'[<<churn.epoch, n>>] > 0
    BY <2>1, CheckSoonAdds DEF ChurnInv
  <2> QED BY <1>1, <2>2 DEF ChurnInv, ChurnTypes, ChurnChecked, SettledSince
<1>3. CASE ~churn.run.active
  <2>1. checks' = checks
    BY <1>3 DEF Resamples
  <2> QED BY <1>1, <2>1 DEF ChurnInv, ChurnTypes, ChurnChecked, SettledSince
<1> QED BY <1>2, <1>3

(* A check of the churn's own epoch has another follow it, or ends the     *)
(* churn; one of an epoch since moved on from takes nothing from it.       *)
LEMMA CheckKeeps ==
    ASSUME ChurnInv, NEW e \in Epochs, NEW n \in CheckAttempts, CheckDisplayStabilization(e, n)
    PROVE  ChurnInv'
<1> DEFINE rest    == [checks EXCEPT ![<<e, n>>] = @ - 1]
           next    == AtMost(n + 1, DISPLAY_STABILIZE_MAX_ATTEMPTS)
           screens == IF Collected = NoPicture THEN <<>> ELSE Collected
           result(quiet) == Settle(churn.run, screens, quiet, n)
           most    == DISPLAY_STABLE_REQUIRED_HITS
<1>1. <<e, n>> \in Epochs \X CheckAttempts /\ checks[<<e, n>>] \in Nat /\ checks[<<e, n>>] > 0
  BY ChecksAre DEF ChurnInv, CheckDisplayStabilization
<1>2. /\ rest \in [Epochs \X CheckAttempts -> Nat]
      /\ \A d \in Epochs, k \in CheckAttempts : d # e => rest[<<d, k>>] = checks[<<d, k>>]
  BY <1>1 DEF ChurnInv, ChurnTypes
<1>3. next \in CheckAttempts /\ most \in Nat \ {0}
  BY SpacesAssumption DEF AtMost, CheckAttempts
<1>4. CASE ~churn.run.active \/ churn.epoch # e
  <2>1. checks' = rest /\ UNCHANGED <<churn, samples>>
    BY <1>4 DEF CheckDisplayStabilization
  <2>2. ChurnTypes'
    BY <1>2, <2>1 DEF ChurnInv, ChurnTypes
  <2>3. ChurnChecked'
    <3>1. SUFFICES ASSUME churn.run.active PROVE \E k \in CheckAttempts : rest[<<churn.epoch, k>>] > 0
      BY <2>1 DEF ChurnChecked
    <3>2. churn.epoch \in Epochs /\ churn.epoch # e
      BY <1>4, <3>1 DEF ChurnInv, ChurnTypes
    <3>3. PICK k \in CheckAttempts : checks[<<churn.epoch, k>>] > 0
      BY <3>1 DEF ChurnInv, ChurnChecked
    <3> QED BY <1>2, <3>2, <3>3
  <2> QED BY <2>1, <2>2, <2>3 DEF ChurnInv, SettledSince
<1>5. CASE churn.run.active /\ churn.epoch = e
  <2>1. PICK quiet \in BOOLEAN :
          /\ samples' = IF screens = <<>> THEN samples ELSE AtMost(samples + 1, most)
          /\ \/ /\ result(quiet).step = "again"
                /\ churn' = [churn EXCEPT !.run = result(quiet).run]
                /\ checks' = [rest EXCEPT ![<<e, next>>] = @ + 1]
             \/ churn' = ChurnOver /\ checks' = rest
    BY <1>5 DEF CheckDisplayStabilization
  <2> DEFINE s == result(quiet)
  <2>2. /\ IsRun(s.run) /\ s.run.active
        /\ IF screens = <<>> THEN s.run.hits <= samples
           ELSE s.run.hits <= AtMost(samples + 1, most)
    BY <1>5, Settled DEF ChurnInv, ChurnTypes, SettledSince
  <2>3. samples' \in 0..most /\ s.run.hits <= samples'
    BY <1>3, <2>1, <2>2 DEF AtMost, ChurnInv, ChurnTypes
  <2> HIDE DEF s, rest, next, most
  <2>4. CASE /\ churn' = [churn EXCEPT !.run = s.run]
             /\ checks' = [rest EXCEPT ![<<e, next>>] = @ + 1]
    <3>1. <<e, next>> \in Epochs \X CheckAttempts /\ rest[<<e, next>>] \in Nat
      BY <1>2, <1>3
    <3>2. checks' \in [Epochs \X CheckAttempts -> Nat] /\ checks'[<<e, next>>] > 0
      BY <1>2, <2>4, <3>1
    <3>3. DOMAIN churn' = {"epoch", "run"} /\ churn'.epoch = e /\ churn'.run = s.run
      BY <1>5, <2>4 DEF ChurnInv, ChurnTypes
    <3>4. e \in Nat
      BY DEF Epochs
    <3>5. ChurnTypes'
      BY <2>2, <2>3, <3>2, <3>3, <3>4 DEF ChurnTypes, most
    <3> QED BY <1>3, <2>3, <3>2, <3>3, <3>5 DEF ChurnInv, ChurnChecked, SettledSince
  <2>5. CASE churn' = ChurnOver /\ checks' = rest
    <3>1. churn' = [epoch |-> churn.epoch + 1, run |-> NoRun]
      BY <2>5 DEF ChurnOver
    <3>2. ChurnTypes'
      BY <1>2, <2>3, <2>5, <3>1, FreshRuns DEF ChurnInv, ChurnTypes, most
    <3> QED
      BY <2>3, <3>1, <3>2, FreshRuns DEF ChurnInv, ChurnChecked, SettledSince, most
  <2> QED BY <2>1, <2>4, <2>5 DEF s
<1> QED BY <1>4, <1>5

LEMMA ChurnStep == ChurnInv /\ [Next]_vars => ChurnInv'
<1> SUFFICES ASSUME ChurnInv, [Next]_vars PROVE ChurnInv'
  OBVIOUS
<1>1. CASE UNCHANGED churnVars
  BY <1>1 DEF ChurnInv, ChurnTypes, ChurnChecked, SettledSince, churnVars
<1>2. ASSUME NEW r, NEW force, ForwardsOrSchedules(r, force) PROVE ChurnInv'
  BY <1>1, <1>2 DEF ForwardsOrSchedules
<1>3. ASSUME NEW h \in Hold, Holds(h) \/ Resamples(h) PROVE ChurnInv'
  BY <1>1, <1>3, ResamplesKeeps DEF Holds
<1>4. CASE ActiveDisplayChanged \/ SpaceInventoryChanged \/ ActiveSpaceChanged
  BY <1>1, <1>2, <1>4 DEF ActiveDisplayChanged, SpaceInventoryChanged, ActiveSpaceChanged
<1>5. CASE ScreenRefreshRequested \/ DisplayReconfigured
  BY <1>1, <1>5, ReconfiguredKeeps DEF ScreenRefreshRequested
<1>6. ASSUME NEW n \in RefreshAttempts, ProcessScreenRefresh(n) PROVE ChurnInv'
  BY <1>1, <1>6 DEF ProcessScreenRefresh
<1>7. ASSUME NEW e \in Epochs, NEW n \in CheckAttempts, CheckDisplayStabilization(e, n)
      PROVE  ChurnInv'
  BY <1>7, CheckKeeps
<1>8. ASSUME NEW picture, Changes(picture) PROVE ChurnInv'
  BY <1>1, <1>8 DEF Changes
<1>9. CASE ReactorHears \/ DefersRefresh \/ UNCHANGED vars
  BY <1>1, <1>9 DEF ReactorHears, DefersRefresh, vars
<1> QED
  BY <1>3, <1>4, <1>5, <1>6, <1>7, <1>8, <1>9 DEF Next, MacActs, Announcements, Refreshes, Checks

LEMMA ChurnInit == Init => ChurnInv
BY FreshRuns, SpacesAssumption DEF Init, ChurnInv, ChurnTypes, ChurnChecked, SettledSince, Epochs

(* A churn under way has a check of its epoch on the way, however many     *)
(* reconfigurations came on top of it.                                     *)
THEOREM ChurnsChecked == Spec => []ChurnChecked
<1>1. ChurnInv => ChurnChecked
  BY DEF ChurnInv
<1> QED
  BY ChurnInit, ChurnStep, <1>1, PTL DEF Spec

(* The samples a churn settles by were taken since its last                *)
(* reconfiguration.                                                        *)
THEOREM ChurnsSettleSince == Spec => []SettledSince
<1>1. ChurnInv => SettledSince
  BY DEF ChurnInv
<1> QED
  BY ChurnInit, ChurnStep, <1>1, PTL DEF Spec

(* Neither a refresh nor a churn is ever believed under way with nothing   *)
(* scheduled to end it, and a churn settles by samples of its own.         *)
THEOREM ScheduledSoundly == Spec => []ScheduledSound
<1>1. RefreshOutstanding /\ ChurnChecked /\ SettledSince => ScheduledSound
  BY DEF ScheduledSound
<1> QED BY <1>1, RefreshesOutstanding, ChurnsChecked, ChurnsSettleSince, PTL

-----------------------------------------------------------------------------
(* What is held back.                                                      *)

SentType == sent \in Seq(Events)

LEMMA TellKeeps ==
    ASSUME SentType, NEW event \in Events, Tell(event)
    PROVE  SentType' /\ sent' # <<>> /\ sent'[Len(sent')] = event
BY DEF SentType, Tell

LEMMA EventsAre ==
    /\ \A k \in {"willSleep", "woke", "resigned", "activated", "churnBegan"} :
          Event(k) \in Events /\ Event(k).kind # "snapshot"
    /\ \A b \in BOOLEAN : Snapshot(b) \in Events
BY DEF Event, Snapshot, Events

LEMMA ForwardsKeepsSent ==
    ASSUME SentType, LifecycleType, NEW screens, Forwards(screens) \/ ForwardsNothing
    PROVE  SentType'
<1>1. CASE ForwardsNothing
  BY <1>1 DEF ForwardsNothing, SentType
<1>2. CASE Forwards(screens)
  <2>1. Snapshot(lifecycle.releases) \in Events /\ Tell(Snapshot(lifecycle.releases))
    BY <1>2, EventsAre DEF Forwards, LifecycleType
  <2> QED BY <2>1, TellKeeps
<1> QED BY <1>1, <1>2

(* What a step sends: nothing, an event of another kind, or a snapshot,    *)
(* outside every hold and churn or ending a churn.                         *)
LEMMA SendStep ==
    SentType /\ LifecycleType /\ [Next]_vars =>
        /\ SentType'
        /\ SnapshotSent => ~churn'.run.active /\ (lifecycle.on = {} \/ churn.run.active)
<1> SUFFICES ASSUME SentType, LifecycleType, [Next]_vars
             PROVE  /\ SentType'
                    /\ SnapshotSent => ~churn'.run.active /\ (lifecycle.on = {} \/ churn.run.active)
  OBVIOUS
<1> DEFINE Kept == /\ SentType'
                   /\ SnapshotSent => ~churn'.run.active /\ (lifecycle.on = {} \/ churn.run.active)
<1>1. CASE UNCHANGED sent
  BY <1>1 DEF SentType, SnapshotSent
<1>2. ASSUME NEW k \in {"willSleep", "woke", "resigned", "activated", "churnBegan"}, Tell(Event(k))
      PROVE  Kept
  BY <1>2, EventsAre, TellKeeps DEF SnapshotSent
<1>3. ASSUME NEW screens, Forwards(screens), ~Quarantined, churn' = churn
      PROVE  Kept
  <2>1. SentType'
    BY <1>3, ForwardsKeepsSent
  <2>2. ~churn'.run.active /\ lifecycle.on = {}
    BY <1>3 DEF Quarantined
  <2> QED BY <2>1, <2>2
<1>4. ASSUME NEW r, NEW force, ForwardsOrSchedules(r, force) PROVE Kept
  <2>1. CASE ForwardsNothing
    BY <1>1, <2>1 DEF ForwardsNothing
  <2>3. churn' = churn
    BY <1>4 DEF ForwardsOrSchedules, churnVars
  <2>4. ForwardsNothing \/ (~Quarantined /\ Forwards(Collected))
    BY <1>4 DEF ForwardsOrSchedules
  <2> HIDE DEF Kept
  <2> QED BY <1>3, <2>1, <2>3, <2>4
<1>5. ASSUME NEW h \in Hold, Holds(h) \/ Resamples(h) PROVE Kept
  BY <1>2, <1>5 DEF Holds, Resamples
<1>6. CASE ActiveDisplayChanged \/ SpaceInventoryChanged \/ ActiveSpaceChanged
  BY <1>1, <1>4, <1>6 DEF ActiveDisplayChanged, SpaceInventoryChanged, ActiveSpaceChanged,
     ForwardsNothing
<1>7. CASE ScreenRefreshRequested \/ DisplayReconfigured
  BY <1>1, <1>2, <1>7 DEF ScreenRefreshRequested, DisplayReconfigured, ForwardsNothing
<1>8. ASSUME NEW n \in RefreshAttempts, ProcessScreenRefresh(n) PROVE Kept
  <2>1. CASE ForwardsNothing
    BY <1>1, <2>1 DEF ForwardsNothing
  <2>3. churn' = churn
    BY <1>8 DEF ProcessScreenRefresh, churnVars
  <2>4. ForwardsNothing \/ (~Quarantined /\ Forwards(Collected))
    BY <1>8 DEF ProcessScreenRefresh
  <2> HIDE DEF Kept
  <2> QED BY <1>3, <2>1, <2>3, <2>4
<1>9. ASSUME NEW e \in Epochs, NEW n \in CheckAttempts, CheckDisplayStabilization(e, n)
      PROVE  Kept
  <2>1. CASE ForwardsNothing
    BY <1>1, <2>1 DEF ForwardsNothing
  <2>2. ASSUME NEW screens, churn.run.active, churn' = ChurnOver, Forwards(screens)
        PROVE  Kept
    <3>1. SentType'
      BY <2>2, ForwardsKeepsSent
    <3>2. ~churn'.run.active
      BY <2>2, FreshRuns DEF ChurnOver
    <3> QED BY <2>2, <3>1, <3>2
  <2> QED BY <1>9, <2>1, <2>2 DEF CheckDisplayStabilization
<1>10. ASSUME NEW picture, Changes(picture) PROVE Kept
  BY <1>1, <1>10 DEF Changes
<1>11. CASE ReactorHears
  <2>1. SentType' /\ Len(sent') < Len(sent)
    BY <1>11 DEF ReactorHears, SentType
  <2>2. ~SnapshotSent
    BY <2>1 DEF SnapshotSent, SentType
  <2> QED BY <2>1, <2>2
<1>12. CASE DefersRefresh \/ UNCHANGED vars
  BY <1>1, <1>12 DEF DefersRefresh, vars
<1> QED
  BY <1>5, <1>6, <1>7, <1>8, <1>9, <1>10, <1>11, <1>12
     DEF Next, MacActs, Announcements, Refreshes, Checks

(* A snapshot is forwarded outside a churn, or ends one; under a hold of   *)
(* sleep or the login window only by ending a churn.                       *)
THEOREM SnapshotsHeldBack == Spec => HeldBack
<1>1. Init => SentType /\ LifecycleType
  BY RefreshInit DEF Init, SentType
<1>2. SentType /\ LifecycleType /\ [Next]_vars
      => [SnapshotSent => ~churn.run.active' /\ (lifecycle.on = {} \/ churn.run.active)]_vars
  BY SendStep
<1>3. SentType /\ LifecycleType /\ [Next]_vars => SentType' /\ LifecycleType'
  BY SendStep, LifecycleStep
<1> QED
  BY <1>1, <1>2, <1>3, PTL DEF Spec, HeldBack

(* The reactor owes a refresh only while it is held back, whatever it      *)
(* hears.                                                                  *)
LEMMA MovedOwes ==
    ASSUME NEW r \in ReactorStates, r.owed => Blocks(r), NEW event \in Events
    PROVE  Moved(r, event) \in ReactorStates /\ (Moved(r, event).owed => Blocks(Moved(r, event)))
<1>1. CASE event.kind = "snapshot"
  <2> DEFINE steady == [wake    |-> Released(event.releases, r.wake, "awake"),
                        session |-> Released(event.releases, r.session, "active"),
                        churn   |-> "steady", owed |-> FALSE]
             done == [steady EXCEPT !.owed = Blocks(steady)]
  <2>1. steady \in ReactorStates /\ Blocks(steady) \in BOOLEAN
    BY DEF ReactorStates, Released, Blocks
  <2>2. Moved(r, event) = done
    BY <1>1 DEF Moved, Incorporated
  <2> HIDE DEF steady
  <2>3. done \in ReactorStates /\ done.owed = Blocks(steady) /\ Blocks(done) = Blocks(steady)
    BY <2>1 DEF ReactorStates, Blocks
  <2> QED BY <2>2, <2>3
<1>2. CASE event.kind = "willSleep"
  BY <1>2 DEF Moved, ReactorStates, Blocks
<1>3. CASE event.kind = "woke"
  BY <1>3 DEF Moved, ReactorStates, Blocks
<1>4. CASE event.kind = "resigned"
  BY <1>4 DEF Moved, ReactorStates, Blocks
<1>5. CASE event.kind = "activated"
  BY <1>5 DEF Moved, ReactorStates, Blocks
<1>6. CASE event.kind = "churnBegan"
  BY <1>6 DEF Moved, ReactorStates, Blocks
<1> QED
  BY <1>1, <1>2, <1>3, <1>4, <1>5, <1>6 DEF Events

ReactorInv == reactor \in ReactorStates /\ OwedWhileBlocked

LEMMA ReactorStep == SentType /\ ReactorInv /\ [Next]_vars => ReactorInv'
<1> SUFFICES ASSUME SentType, ReactorInv, [Next]_vars PROVE ReactorInv'
  OBVIOUS
<1>1. CASE UNCHANGED reactor
  BY <1>1 DEF ReactorInv, OwedWhileBlocked, Blocks
<1>2. CASE DefersRefresh
  BY <1>2 DEF DefersRefresh, ReactorInv, ReactorStates, OwedWhileBlocked, Blocks
<1>3. CASE ReactorHears
  <2>1. Head(sent) \in Events /\ reactor' = Moved(reactor, Head(sent))
    BY <1>3 DEF ReactorHears, SentType
  <2> QED BY <2>1, MovedOwes DEF ReactorInv, OwedWhileBlocked
<1> QED
  BY <1>1, <1>2, <1>3 DEF Next, MacActs, Announcements, Refreshes, Checks, Changes, Holds,
     Resamples, ActiveDisplayChanged, SpaceInventoryChanged, ActiveSpaceChanged,
     ForwardsOrSchedules, ScreenRefreshRequested, DisplayReconfigured, ProcessScreenRefresh,
     CheckDisplayStabilization, vars

(* The window refresh owed is made the moment nothing holds it back.       *)
THEOREM OwedOnlyBlocked == Spec => []OwedWhileBlocked
<1>1. Init => ReactorInv /\ SentType /\ LifecycleType
  BY RefreshInit DEF Init, ReactorInv, ReactorStates, OwedWhileBlocked, SentType
<1>2. SentType /\ LifecycleType /\ [Next]_vars => SentType' /\ LifecycleType'
  BY SendStep, LifecycleStep
<1>3. ReactorInv => OwedWhileBlocked
  BY DEF ReactorInv
<1> QED
  BY <1>1, <1>2, <1>3, ReactorStep, PTL DEF Spec

-----------------------------------------------------------------------------
(* What the reactor will have made of everything sent: a chain of what it  *)
(* believes of sleep and of the session, from now on and one belief for    *)
(* each event in its channel, ends where the actor's own holds are.        *)

WakeAfter(w, event) ==
    CASE event.kind = "willSleep" -> "asleep"
      [] event.kind = "woke"      -> "awaiting"
      [] event.kind = "snapshot"  -> Released(event.releases, w, "awake")
      [] OTHER                    -> w

SessionAfter(s, event) ==
    CASE event.kind = "resigned"  -> "inactive"
      [] event.kind = "activated" -> "awaiting"
      [] event.kind = "snapshot"  -> Released(event.releases, s, "active")
      [] OTHER                    -> s

Wakes == {"awake", "asleep", "awaiting"}

Sessions == {"active", "inactive", "awaiting"}

WakeChain(c) ==
    /\ c \in [0..Len(sent) -> Wakes] /\ c[0] = reactor.wake
    /\ \A i \in 1..Len(sent) : c[i] = WakeAfter(c[i - 1], sent[i])

SessionChain(c) ==
    /\ c \in [0..Len(sent) -> Sessions] /\ c[0] = reactor.session
    /\ \A i \in 1..Len(sent) : c[i] = SessionAfter(c[i - 1], sent[i])

(* The beliefs w and s are those of an actor with these holds.             *)
Agrees(w, s) ==
    /\ w = "asleep" <=> "Sleep" \in lifecycle.on
    /\ s = "inactive" <=> "Session" \in lifecycle.on
    /\ w = "awaiting" \/ s = "awaiting" => lifecycle.releases \/ lifecycle.on # {}

HearsInv ==
    \E w \in [0..Len(sent) -> Wakes], s \in [0..Len(sent) -> Sessions] :
        WakeChain(w) /\ SessionChain(s) /\ Agrees(w[Len(sent)], s[Len(sent)])

LEMMA BeliefsMove ==
    ASSUME NEW r \in ReactorStates, NEW event \in Events
    PROVE  /\ Moved(r, event).wake = WakeAfter(r.wake, event)
           /\ Moved(r, event).session = SessionAfter(r.session, event)
<1>1. CASE event.kind = "snapshot"
  <2> DEFINE steady == [wake    |-> Released(event.releases, r.wake, "awake"),
                        session |-> Released(event.releases, r.session, "active"),
                        churn   |-> "steady", owed |-> FALSE]
             done == [steady EXCEPT !.owed = Blocks(steady)]
  <2>1. Moved(r, event) = done
    BY <1>1 DEF Moved, Incorporated
  <2>2. done.wake = steady.wake /\ done.session = steady.session
    OBVIOUS
  <2> QED BY <1>1, <2>1, <2>2 DEF WakeAfter, SessionAfter
<1>2. CASE event.kind = "willSleep"
  BY <1>2 DEF Moved, ReactorStates, WakeAfter, SessionAfter
<1>3. CASE event.kind = "woke"
  BY <1>3 DEF Moved, ReactorStates, WakeAfter, SessionAfter
<1>4. CASE event.kind = "resigned"
  BY <1>4 DEF Moved, ReactorStates, WakeAfter, SessionAfter
<1>5. CASE event.kind = "activated"
  BY <1>5 DEF Moved, ReactorStates, WakeAfter, SessionAfter
<1>6. CASE event.kind = "churnBegan"
  BY <1>6 DEF Moved, ReactorStates, WakeAfter, SessionAfter
<1> QED
  BY <1>1, <1>2, <1>3, <1>4, <1>5, <1>6 DEF Events

LEMMA BeliefsAre ==
    ASSUME NEW event \in Events
    PROVE  /\ \A w \in Wakes : WakeAfter(w, event) \in Wakes
           /\ \A s \in Sessions : SessionAfter(s, event) \in Sessions
BY DEF Events, Wakes, Sessions, WakeAfter, SessionAfter, Released

(* What is sent last is heard last.                                        *)
LEMMA ToldAgrees ==
    ASSUME SentType, HearsInv, NEW event \in Events, Tell(event), UNCHANGED reactor,
           \A w \in Wakes, s \in Sessions :
               Agrees(w, s) => Agrees(WakeAfter(w, event), SessionAfter(s, event))'
    PROVE  HearsInv'
<1>0. PICK n \in Nat : n = Len(sent)
  BY DEF SentType
<1>1. /\ n \in Nat /\ sent' \in Seq(Events) /\ Len(sent') = n + 1 /\ sent'[n + 1] = event
      /\ \A i \in 1..n : sent'[i] = sent[i]
  BY <1>0 DEF SentType, Tell
<1>2. PICK w \in [0..n -> Wakes], s \in [0..n -> Sessions] :
         WakeChain(w) /\ SessionChain(s) /\ Agrees(w[n], s[n])
  BY <1>0 DEF HearsInv
<1> DEFINE v == [i \in 0..(n + 1) |-> IF i = n + 1 THEN WakeAfter(w[n], event) ELSE w[i]]
           t == [i \in 0..(n + 1) |-> IF i = n + 1 THEN SessionAfter(s[n], event) ELSE s[i]]
<1>3. w[n] \in Wakes /\ s[n] \in Sessions
  BY <1>1, <1>2
<1>4. WakeAfter(w[n], event) \in Wakes /\ SessionAfter(s[n], event) \in Sessions
  BY <1>3, BeliefsAre
<1>5. v \in [0..(n + 1) -> Wakes] /\ t \in [0..(n + 1) -> Sessions]
  BY <1>1, <1>2, <1>4
<1>6. /\ v[n + 1] = WakeAfter(w[n], event) /\ t[n + 1] = SessionAfter(s[n], event)
      /\ \A i \in 0..n : v[i] = w[i] /\ t[i] = s[i]
  BY <1>1
<1> HIDE DEF v, t
<1>7. v[0] = reactor'.wake /\ t[0] = reactor'.session
  BY <1>1, <1>2, <1>6 DEF WakeChain, SessionChain
<1>8. ASSUME NEW i \in 1..(n + 1)
      PROVE  v[i] = WakeAfter(v[i - 1], sent'[i]) /\ t[i] = SessionAfter(t[i - 1], sent'[i])
  <2>1. CASE i = n + 1
    <3>1. i - 1 = n /\ n \in 0..n
      BY <1>1, <2>1
    <3> QED BY <1>1, <1>6, <2>1, <3>1
  <2>2. CASE i # n + 1
    <3>1. i \in 1..n /\ i \in 0..n /\ i - 1 \in 0..n
      BY <1>1, <2>2
    <3>2. w[i] = WakeAfter(w[i - 1], sent[i]) /\ s[i] = SessionAfter(s[i - 1], sent[i])
      BY <1>0, <1>2, <3>1 DEF WakeChain, SessionChain
    <3> QED BY <1>1, <1>6, <3>1, <3>2
  <2> QED BY <2>1, <2>2
<1>9. WakeChain(v)' /\ SessionChain(t)'
  BY <1>1, <1>5, <1>7, <1>8 DEF WakeChain, SessionChain
<1>10. Agrees(v[n + 1], t[n + 1])'
  <2>1. Agrees(WakeAfter(w[n], event), SessionAfter(s[n], event))'
    BY <1>2, <1>3
  <2> QED BY <1>6, <2>1
<1> QED BY <1>1, <1>5, <1>9, <1>10 DEF HearsInv

(* The actor's holds and the reactor's beliefs stay: so does what agrees.  *)
LEMMA KeptAgrees ==
    ASSUME HearsInv, UNCHANGED <<sent, lifecycle>>, reactor'.wake = reactor.wake,
           reactor'.session = reactor.session
    PROVE  HearsInv'
BY DEF HearsInv, WakeChain, SessionChain, Agrees

(* What the reactor hears first is the chain's first step.                 *)
LEMMA HeardAgrees ==
    ASSUME SentType, HearsInv, reactor \in ReactorStates, ReactorHears PROVE HearsInv'
<1>0. PICK n \in Nat, e \in Events : n = Len(sent) /\ e = Head(sent)
  BY DEF SentType, ReactorHears
<1>1. /\ n \in Nat \ {0} /\ sent' \in Seq(Events) /\ Len(sent') = n - 1
      /\ sent[1] = e /\ e \in Events
      /\ \A i \in 1..(n - 1) : sent'[i] = sent[i + 1]
  BY <1>0 DEF SentType, ReactorHears
<1>2. /\ reactor'.wake = WakeAfter(reactor.wake, e)
      /\ reactor'.session = SessionAfter(reactor.session, e)
  BY <1>0, <1>1, BeliefsMove DEF ReactorHears
<1>3. PICK w \in [0..n -> Wakes], s \in [0..n -> Sessions] :
         WakeChain(w) /\ SessionChain(s) /\ Agrees(w[n], s[n])
  BY <1>0 DEF HearsInv
<1> DEFINE v == [i \in 0..(n - 1) |-> w[i + 1]]
           t == [i \in 0..(n - 1) |-> s[i + 1]]
<1>4. /\ v \in [0..(n - 1) -> Wakes] /\ t \in [0..(n - 1) -> Sessions]
      /\ \A i \in 0..(n - 1) : v[i] = w[i + 1] /\ t[i] = s[i + 1]
  BY <1>1, <1>3
<1> HIDE DEF v, t
<1>5. v[0] = reactor'.wake /\ t[0] = reactor'.session
  <2>1. 1 \in 1..n /\ 0 \in 0..(n - 1)
    BY <1>1
  <2>2. w[1] = WakeAfter(w[1 - 1], sent[1]) /\ s[1] = SessionAfter(s[1 - 1], sent[1])
    BY <1>0, <1>3, <2>1 DEF WakeChain, SessionChain
  <2>3. w[0] = reactor.wake /\ s[0] = reactor.session
    BY <1>3 DEF WakeChain, SessionChain
  <2>4. 1 - 1 = 0 /\ 0 + 1 = 1
    OBVIOUS
  <2> QED BY <1>1, <1>2, <1>4, <2>1, <2>2, <2>3, <2>4
<1>6. ASSUME NEW i \in 1..(n - 1)
      PROVE  v[i] = WakeAfter(v[i - 1], sent'[i]) /\ t[i] = SessionAfter(t[i - 1], sent'[i])
  <2>1. i + 1 \in 1..n /\ i \in 0..(n - 1) /\ i - 1 \in 0..(n - 1)
    BY <1>1
  <2>2. /\ w[i + 1] = WakeAfter(w[i + 1 - 1], sent[i + 1])
        /\ s[i + 1] = SessionAfter(s[i + 1 - 1], sent[i + 1])
    BY <1>0, <1>3, <2>1 DEF WakeChain, SessionChain
  <2>3. i + 1 - 1 = i /\ i - 1 + 1 = i
    BY <1>1
  <2> QED BY <1>1, <1>4, <2>1, <2>2, <2>3
<1>7. v[n - 1] = w[n] /\ t[n - 1] = s[n]
  <2>1. n - 1 \in 0..(n - 1) /\ n - 1 + 1 = n
    BY <1>1
  <2> QED BY <1>4, <2>1
<1>8. Agrees(v[n - 1], t[n - 1])'
  BY <1>3, <1>7 DEF Agrees, ReactorHears, snapshotVars
<1>9. WakeChain(v)' /\ SessionChain(t)'
  BY <1>1, <1>4, <1>5, <1>6 DEF WakeChain, SessionChain
<1> QED BY <1>1, <1>4, <1>8, <1>9 DEF HearsInv

(* A snapshot that carries the actor's release is the last of it, and      *)
(* leaves nothing awaited.                                                 *)
LEMMA ForwardsAgrees ==
    ASSUME SentType, LifecycleType, HearsInv, NEW screens, Forwards(screens), UNCHANGED reactor
    PROVE  HearsInv'
<1>0. PICK e \in Events : e = Snapshot(lifecycle.releases)
  BY EventsAre DEF LifecycleType
<1>1. e \in Events /\ Tell(e)
  BY <1>0 DEF Forwards
<1>2. e.kind = "snapshot" /\ e.releases = lifecycle.releases
  BY <1>0 DEF Snapshot
<1>3. lifecycle'.releases = FALSE /\ lifecycle'.on = lifecycle.on
  BY DEF Forwards, LifecycleType
<1>4. ASSUME NEW w \in Wakes, NEW s \in Sessions, Agrees(w, s)
      PROVE  Agrees(WakeAfter(w, e), SessionAfter(s, e))'
  <2>1. WakeAfter(w, e) = Released(lifecycle.releases, w, "awake")
        /\ SessionAfter(s, e) = Released(lifecycle.releases, s, "active")
    BY <1>2 DEF WakeAfter, SessionAfter
  <2>2. CASE lifecycle.releases
    <3>1. /\ WakeAfter(w, e) = IF w = "awaiting" THEN "awake" ELSE w
          /\ SessionAfter(s, e) = IF s = "awaiting" THEN "active" ELSE s
      BY <2>1, <2>2 DEF Released
    <3> QED BY <1>3, <1>4, <3>1 DEF Agrees
  <2>3. CASE ~lifecycle.releases
    <3>1. WakeAfter(w, e) = w /\ SessionAfter(s, e) = s
      BY <2>1, <2>3 DEF Released
    <3> QED BY <1>3, <1>4, <2>3, <3>1 DEF Agrees
  <2> QED BY <2>2, <2>3
<1>5. \A w \in Wakes, s \in Sessions :
         Agrees(w, s) => Agrees(WakeAfter(w, e), SessionAfter(s, e))'
  BY <1>4
<1> QED BY <1>1, <1>5, ToldAgrees

LEMMA HoldsAgrees ==
    ASSUME SentType, LifecycleType, HearsInv, NEW h \in Hold, Holds(h) \/ Resamples(h)
    PROVE  HearsInv'
<1> DEFINE holding(k) == CASE h = "Sleep" -> k = "willSleep" [] OTHER -> k = "resigned"
           letting(k) == CASE h = "Sleep" -> k = "woke" [] OTHER -> k = "activated"
<1>1. PICK e \in Events : /\ Tell(e)
                          /\ \/ Holds(h) /\ holding(e.kind)
                             \/ Resamples(h) /\ letting(e.kind)
  BY EventsAre DEF Holds, Resamples, Event
<1>2. UNCHANGED reactor
  BY DEF Holds, Resamples
<1>3. ASSUME NEW w \in Wakes, NEW s \in Sessions, Agrees(w, s)
      PROVE  Agrees(WakeAfter(w, e), SessionAfter(s, e))'
  <2>1. CASE Holds(h) /\ holding(e.kind)
    <3>1. lifecycle'.on = lifecycle.on \cup {h} /\ h \in lifecycle'.on
      BY <2>1 DEF Holds
    <3>2. /\ WakeAfter(w, e) = IF h = "Sleep" THEN "asleep" ELSE w
          /\ SessionAfter(s, e) = IF h = "Sleep" THEN s ELSE "inactive"
      BY <2>1 DEF WakeAfter, SessionAfter
    <3> QED BY <1>3, <3>1, <3>2 DEF Agrees, Hold
  <2>2. CASE Resamples(h) /\ letting(e.kind)
    <3>1. lifecycle'.on = lifecycle.on \ {h} /\ lifecycle'.releases = TRUE
      BY <2>2 DEF Resamples
    <3>2. /\ WakeAfter(w, e) = IF h = "Sleep" THEN "awaiting" ELSE w
          /\ SessionAfter(s, e) = IF h = "Sleep" THEN s ELSE "awaiting"
      BY <2>2 DEF WakeAfter, SessionAfter
    <3> QED BY <1>3, <3>1, <3>2 DEF Agrees, Hold
  <2> QED BY <1>1, <2>1, <2>2
<1>4. \A w \in Wakes, s \in Sessions :
         Agrees(w, s) => Agrees(WakeAfter(w, e), SessionAfter(s, e))'
  BY <1>3
<1> QED BY <1>1, <1>2, <1>4, ToldAgrees

LEMMA HearsStep ==
    SentType /\ LifecycleType /\ ReactorInv /\ HearsInv /\ [Next]_vars => HearsInv'
<1> SUFFICES ASSUME SentType, LifecycleType, ReactorInv, HearsInv, [Next]_vars PROVE HearsInv'
  OBVIOUS
<1>0. reactor \in ReactorStates
  BY DEF ReactorInv
<1>1. CASE UNCHANGED <<sent, lifecycle, reactor>>
  BY <1>1, KeptAgrees
<1>2. ASSUME NEW screens, Forwards(screens) \/ ForwardsNothing, UNCHANGED reactor PROVE HearsInv'
  BY <1>1, <1>2, ForwardsAgrees DEF ForwardsNothing, snapshotVars
<1>3. ASSUME NEW h \in Hold, Holds(h) \/ Resamples(h) PROVE HearsInv'
  BY <1>3, HoldsAgrees
<1>4. CASE ActiveDisplayChanged \/ SpaceInventoryChanged \/ ActiveSpaceChanged
  BY <1>2, <1>4 DEF ActiveDisplayChanged, SpaceInventoryChanged, ActiveSpaceChanged,
     ForwardsOrSchedules
<1>5. CASE ScreenRefreshRequested
  BY <1>2, <1>5 DEF ScreenRefreshRequested
<1>6. CASE DisplayReconfigured
  <2>1. CASE UNCHANGED sent
    BY <1>1, <1>6, <2>1 DEF DisplayReconfigured
  <2>2. CASE Tell(Event("churnBegan"))
    <3>1. PICK e \in Events : e = Event("churnBegan") /\ e.kind = "churnBegan"
      BY EventsAre DEF Event
    <3>2. ASSUME NEW w \in Wakes, NEW s \in Sessions, Agrees(w, s)
          PROVE  Agrees(WakeAfter(w, e), SessionAfter(s, e))'
      BY <1>6, <3>1, <3>2 DEF Agrees, WakeAfter, SessionAfter, DisplayReconfigured
    <3>3. Tell(e) /\ UNCHANGED reactor
      BY <1>6, <2>2, <3>1 DEF DisplayReconfigured
    <3>4. \A w \in Wakes, s \in Sessions :
             Agrees(w, s) => Agrees(WakeAfter(w, e), SessionAfter(s, e))'
      BY <3>2
    <3> QED BY <3>1, <3>3, <3>4, ToldAgrees
  <2> QED BY <1>6, <2>1, <2>2 DEF DisplayReconfigured
<1>7. ASSUME NEW n \in RefreshAttempts, ProcessScreenRefresh(n) PROVE HearsInv'
  BY <1>2, <1>7 DEF ProcessScreenRefresh
<1>8. ASSUME NEW e \in Epochs, NEW n \in CheckAttempts, CheckDisplayStabilization(e, n)
      PROVE  HearsInv'
  BY <1>2, <1>8 DEF CheckDisplayStabilization
<1>9. ASSUME NEW picture, Changes(picture) PROVE HearsInv'
  BY <1>1, <1>9 DEF Changes, snapshotVars
<1>10. CASE ReactorHears
  BY <1>0, <1>10, HeardAgrees
<1>11. CASE DefersRefresh
  <2>1. reactor'.wake = reactor.wake /\ reactor'.session = reactor.session
    BY <1>0, <1>11 DEF DefersRefresh, ReactorStates
  <2> QED BY <1>11, <2>1, KeptAgrees DEF DefersRefresh, snapshotVars
<1>12. CASE UNCHANGED vars
  BY <1>1, <1>12 DEF vars, snapshotVars
<1> QED
  BY <1>3, <1>4, <1>5, <1>6, <1>7, <1>8, <1>9, <1>10, <1>11, <1>12
     DEF Next, MacActs, Announcements, Refreshes, Checks

LEMMA HearsInit == Init => HearsInv
<1> SUFFICES ASSUME Init PROVE HearsInv
  OBVIOUS
<1> DEFINE w == [i \in 0..0 |-> "awake"]
           s == [i \in 0..0 |-> "active"]
<1>1. Len(sent) = 0 /\ sent = <<>>
  BY DEF Init
<1>2. w \in [0..0 -> Wakes] /\ w[0] = "awake" /\ s \in [0..0 -> Sessions] /\ s[0] = "active"
  BY DEF Wakes, Sessions
<1> HIDE DEF w, s
<1>3. WakeChain(w) /\ SessionChain(s) /\ Agrees(w[0], s[0])
  BY <1>1, <1>2 DEF Init, WakeChain, SessionChain, Agrees
<1> QED BY <1>1, <1>2, <1>3 DEF HearsInv

(* Once the reactor has heard everything it holds back what the actor      *)
(* does, and awaits a snapshot only if the actor owes it one, whatever     *)
(* order sleep, the login window, churns and snapshots came in.            *)
THEOREM QuarantinesAgree == Spec => []QuarantineAgrees
<1>1. Init => ReactorInv /\ SentType /\ LifecycleType /\ HearsInv
  BY RefreshInit, HearsInit DEF Init, ReactorInv, ReactorStates, OwedWhileBlocked, SentType
<1>2. SentType /\ LifecycleType /\ [Next]_vars => SentType' /\ LifecycleType'
  BY SendStep, LifecycleStep
<1>3. ReactorInv /\ HearsInv => QuarantineAgrees
  <2> SUFFICES ASSUME ReactorInv, HearsInv, sent = <<>>
               PROVE  Agrees(reactor.wake, reactor.session)
    BY DEF QuarantineAgrees, ReactorInv, Agrees
  <2>1. Len(sent) = 0
    OBVIOUS
  <2> QED BY <2>1 DEF HearsInv, WakeChain, SessionChain
<1> QED
  BY <1>1, <1>2, <1>3, ReactorStep, HearsStep, PTL DEF Spec

-----------------------------------------------------------------------------
(* Types.                                                                  *)

UserSpace == Space \ (Fullscreen \cup Login)

Shows(screens) ==
    \A i \in DOMAIN screens :
        DOMAIN screens[i] = {"display", "space"} /\ screens[i].space \in Space \cup {NoSpace}

ShowsUser(screens) == \A i \in DOMAIN screens : screens[i].space \in UserSpace \cup {NoSpace}

ScreensInv ==
    /\ native \in Pictures \cup {NoPicture}
    /\ DOMAIN cache = {"state", "dirty", "sleeping"}
    /\ cache.state = NoPicture \/ Shows(cache.state)
    /\ Shows(forwarded) /\ ShowsUser(forwarded)

LEMMA ShownOnIs ==
    ASSUME NEW screens, NEW S, NoSpace \in S, NEW d,
           screens = NoPicture \/ \A i \in DOMAIN screens : screens[i].space \in S
    PROVE  ShownOn(screens, d) \in S
<1>1. CASE d \in DisplaysOf(screens)
  <2> DEFINE i == CHOOSE i \in DOMAIN screens : screens[i].display = d
  <2>1. \E j \in DOMAIN screens : screens[j].display = d
    BY <1>1 DEF DisplaysOf
  <2>2. i \in DOMAIN screens
    BY <2>1
  <2>3. ShownOn(screens, d) = screens[i].space /\ screens # NoPicture
    BY <1>1 DEF ShownOn, DisplaysOf
  <2> QED BY <2>2, <2>3
<1>2. CASE d \notin DisplaysOf(screens)
  BY <1>2 DEF ShownOn
<1> QED BY <1>1, <1>2

(* What the actor collects is a picture: of macOS, of the cache with       *)
(* macOS's spaces, or the one it forwarded last.                           *)
LEMMA CollectedIs == ASSUME ScreensInv PROVE Collected = NoPicture \/ Shows(Collected)
<1> DEFINE read == [i \in DOMAIN cache.state |->
                [cache.state[i] EXCEPT !.space = ShownOn(native, cache.state[i].display)]]
<1>1. native = NoPicture \/ Shows(native)
  BY SpacesAssumption DEF ScreensInv, Shows
<1>2. CASE cache.state # NoPicture
  <2>1. ASSUME NEW i \in DOMAIN read
        PROVE  DOMAIN read[i] = {"display", "space"} /\ read[i].space \in Space \cup {NoSpace}
    <3>1. DOMAIN cache.state[i] = {"display", "space"}
      BY <1>2, <2>1 DEF ScreensInv, Shows
    <3>2. ShownOn(native, cache.state[i].display) \in Space \cup {NoSpace}
      BY <1>1, ShownOnIs DEF Shows
    <3>3. read[i] = [cache.state[i] EXCEPT !.space = ShownOn(native, cache.state[i].display)]
      BY <2>1
    <3> HIDE DEF read
    <3> QED BY <3>1, <3>2, <3>3
  <2>2. Shows(read)
    BY <2>1 DEF Shows
  <2>3. CacheRead \in {cache.state, read, native}
    BY DEF CacheRead
  <2> HIDE DEF read
  <2>4. CacheRead = NoPicture \/ Shows(CacheRead)
    BY <1>1, <1>2, <2>2, <2>3 DEF ScreensInv
  <2> QED BY <2>4 DEF Collected, ScreensInv
<1>3. CASE cache.state = NoPicture
  <2>1. CacheRead = NoPicture \/ CacheRead = native
    BY <1>3 DEF CacheRead
  <2> QED BY <1>1, <2>1 DEF Collected, ScreensInv
<1> QED BY <1>2, <1>3

(* What is forwarded shows user spaces only.                               *)
LEMMA UserScreensAre ==
    ASSUME NEW previous, Shows(previous), ShowsUser(previous), NEW screens, Shows(screens)
    PROVE  Shows(UserScreens(previous, screens)) /\ ShowsUser(UserScreens(previous, screens))
<1> DEFINE kept == KeptThroughFullscreen(previous, screens)
           user == UserScreens(previous, screens)
           S    == Space \cup {NoSpace}
<1>1. ASSUME NEW i \in DOMAIN kept
      PROVE  DOMAIN kept[i] = {"display", "space"} /\ kept[i].space \in S
  <2> DEFINE before == ShownOn(previous, screens[i].display)
  <2>1. before \in S
    BY ShownOnIs DEF Shows
  <2>2. /\ i \in DOMAIN screens
        /\ kept[i] = screens[i] \/ kept[i] = [screens[i] EXCEPT !.space = before]
    BY <1>1 DEF KeptThroughFullscreen
  <2> HIDE DEF kept, before
  <2> QED BY <2>1, <2>2 DEF Shows
<1>2. DOMAIN user = DOMAIN kept
  BY DEF UserScreens
<1>3. ASSUME NEW i \in DOMAIN user
      PROVE  /\ DOMAIN user[i] = {"display", "space"}
             /\ user[i].space \in UserSpace \cup {NoSpace}
  <2>1. user[i] = IF kept[i].space \in Fullscreen \cup Login
                  THEN [kept[i] EXCEPT !.space = NoSpace] ELSE kept[i]
    BY <1>2, <1>3 DEF UserScreens
  <2>2. DOMAIN kept[i] = {"display", "space"} /\ kept[i].space \in S
    BY <1>1, <1>2, <1>3
  <2> HIDE DEF user, kept
  <2> QED BY <2>1, <2>2 DEF UserSpace
<1> HIDE DEF user
<1>4. Shows(user) /\ ShowsUser(user)
  BY <1>3 DEF Shows, ShowsUser, UserSpace
<1> QED BY <1>4 DEF user

LEMMA ForwardsScreens ==
    ASSUME ScreensInv, NEW screens, Shows(screens), Forwards(screens)
    PROVE  Shows(forwarded)' /\ ShowsUser(forwarded)'
<1>1. forwarded' = UserScreens(forwarded, screens)
  BY DEF Forwards
<1>2. Shows(UserScreens(forwarded, screens)) /\ ShowsUser(UserScreens(forwarded, screens))
  BY UserScreensAre DEF ScreensInv
<1> QED BY <1>1, <1>2 DEF Shows, ShowsUser

(* The cache keeps a picture or none, whatever is done to it.              *)
CacheMoves ==
    \/ UNCHANGED cache
    \/ cache' = CacheLeft
    \/ cache' = [cache EXCEPT !.dirty = TRUE]
    \/ cache' = [cache EXCEPT !.sleeping = TRUE]
    \/ \E h : cache' = [cache EXCEPT !.dirty = TRUE, !.sleeping = @ /\ h # "Sleep"]

LEMMA CacheKeeps ==
    ASSUME ScreensInv, CacheMoves
    PROVE  /\ DOMAIN cache' = {"state", "dirty", "sleeping"}
           /\ cache'.state = NoPicture \/ Shows(cache'.state)
<1>1. native = NoPicture \/ Shows(native)
  BY SpacesAssumption DEF ScreensInv, Shows
<1>2. CASE cache' = [cache EXCEPT !.state = native, !.dirty = FALSE]
  <2> DEFINE filled == [cache EXCEPT !.state = native]
             clean  == [filled EXCEPT !.dirty = FALSE]
  <2>1. DOMAIN filled = {"state", "dirty", "sleeping"} /\ filled.state = native
    BY DEF ScreensInv
  <2>2. cache' = clean
    BY <1>2
  <2> HIDE DEF filled
  <2>3. DOMAIN clean = {"state", "dirty", "sleeping"} /\ clean.state = native
    BY <2>1
  <2> HIDE DEF clean
  <2> QED BY <1>1, <2>2, <2>3
<1>3. ASSUME NEW h, cache' = [cache EXCEPT !.dirty = TRUE, !.sleeping = @ /\ h # "Sleep"]
      PROVE  DOMAIN cache' = {"state", "dirty", "sleeping"} /\ cache'.state = cache.state
  <2> DEFINE dirty == [cache EXCEPT !.dirty = TRUE]
             awake == [dirty EXCEPT !.sleeping = @ /\ h # "Sleep"]
  <2>1. DOMAIN dirty = {"state", "dirty", "sleeping"} /\ dirty.state = cache.state
    BY DEF ScreensInv
  <2>2. cache' = awake
    BY <1>3
  <2> HIDE DEF dirty
  <2>3. DOMAIN awake = {"state", "dirty", "sleeping"} /\ awake.state = cache.state
    BY <2>1
  <2> HIDE DEF awake
  <2> QED BY <2>2, <2>3
<1>4. CASE \/ cache' = [cache EXCEPT !.dirty = TRUE] \/ cache' = [cache EXCEPT !.sleeping = TRUE]
           \/ UNCHANGED cache
  BY <1>4 DEF ScreensInv
<1>5. CASE \E h : cache' = [cache EXCEPT !.dirty = TRUE, !.sleeping = @ /\ h # "Sleep"]
  BY <1>3, <1>5 DEF ScreensInv
<1> QED BY <1>2, <1>4, <1>5 DEF CacheMoves, CacheLeft

LEMMA ScreensStep == ScreensInv /\ [Next]_vars => ScreensInv'
<1> SUFFICES ASSUME ScreensInv, [Next]_vars PROVE ScreensInv'
  OBVIOUS
<1> DEFINE ForwardedKept == \/ UNCHANGED forwarded
                            \/ \E screens : Forwards(screens) /\ Shows(screens)
           NativeKept == UNCHANGED native \/ native' \in Pictures \cup {NoPicture}
<1>1. CASE ForwardedKept /\ NativeKept /\ CacheMoves
  <2>1. native' \in Pictures \cup {NoPicture}
    BY <1>1 DEF ScreensInv
  <2>2. Shows(forwarded)' /\ ShowsUser(forwarded)'
    BY <1>1, ForwardsScreens DEF ScreensInv, Shows, ShowsUser
  <2>3. /\ DOMAIN cache' = {"state", "dirty", "sleeping"}
        /\ cache'.state = NoPicture \/ Shows(cache'.state)
    BY <1>1, CacheKeeps
  <2> QED BY <2>1, <2>2, <2>3 DEF ScreensInv, Shows
<1>2. Committable(Collected) => Shows(Collected)
  BY CollectedIs DEF Committable
<1>3. ASSUME NEW r, NEW force, ForwardsOrSchedules(r, force), UNCHANGED native PROVE ScreensInv'
  <2>1. CacheMoves /\ ForwardedKept
    BY <1>2, <1>3 DEF ForwardsOrSchedules, CacheMoves, ForwardsNothing, snapshotVars
  <2> QED BY <1>1, <1>3, <2>1
<1>4. ASSUME NEW h \in Hold, Holds(h) \/ Resamples(h) PROVE ScreensInv'
  BY <1>1, <1>4 DEF Holds, Resamples, CacheMoves
<1>5. CASE ActiveDisplayChanged \/ SpaceInventoryChanged \/ ActiveSpaceChanged
  <2>1. CASE \E r, force : ForwardsOrSchedules(r, force)
    BY <1>3, <2>1 DEF ForwardsOrSchedules
  <2>2. CASE UNCHANGED <<native, forwarded, cache>>
    BY <1>1, <2>2 DEF CacheMoves
  <2> QED
    BY <1>5, <2>1, <2>2 DEF ActiveDisplayChanged, SpaceInventoryChanged, ActiveSpaceChanged,
       ForwardsNothing, snapshotVars
<1>6. CASE ScreenRefreshRequested \/ DisplayReconfigured
  BY <1>1, <1>6 DEF ScreenRefreshRequested, DisplayReconfigured, CacheMoves, ForwardsNothing,
     snapshotVars
<1>7. ASSUME NEW n \in RefreshAttempts, ProcessScreenRefresh(n) PROVE ScreensInv'
  <2>1. UNCHANGED native /\ CacheMoves /\ ForwardedKept
    BY <1>2, <1>7 DEF ProcessScreenRefresh, CacheMoves, ForwardsNothing, snapshotVars, macVars
  <2> QED BY <1>1, <2>1
<1>8. ASSUME NEW e \in Epochs, NEW n \in CheckAttempts, CheckDisplayStabilization(e, n)
      PROVE  ScreensInv'
  <2> DEFINE screens == IF Collected = NoPicture THEN <<>> ELSE Collected
  <2>1. Shows(screens)
    BY CollectedIs DEF Shows
  <2>2. UNCHANGED native /\ CacheMoves /\ (UNCHANGED forwarded \/ Forwards(screens))
    BY <1>8 DEF CheckDisplayStabilization, CacheMoves, ForwardsNothing, snapshotVars, macVars
  <2> HIDE DEF screens
  <2> QED BY <1>1, <2>1, <2>2
<1>9. ASSUME NEW picture \in Pictures \cup {NoPicture}, Changes(picture) PROVE ScreensInv'
  BY <1>1, <1>9 DEF Changes, CacheMoves, snapshotVars
<1>10. CASE ReactorHears \/ DefersRefresh \/ UNCHANGED vars
  BY <1>1, <1>10 DEF ReactorHears, DefersRefresh, vars, macVars, snapshotVars, CacheMoves
<1> QED
  BY <1>4, <1>5, <1>6, <1>7, <1>8, <1>9, <1>10 DEF Next, MacActs, Announcements, Refreshes, Checks

(* What macOS does, and the churn's epoch, which a reconfiguration leaves  *)
(* room to end.                                                            *)
MacTypes ==
    /\ owes \subseteq {"spaceChanged", "reconfigured", "screens"}
    /\ away \subseteq Hold /\ acts \in 0..MaxActs

EpochInv ==
    /\ DOMAIN churn = {"epoch", "run"} /\ churn.epoch \in Nat
    /\ churn.epoch <= MaxEpoch /\ (churn.run.active => churn.epoch + 1 <= MaxEpoch)

LEMMA MacTypesStep == MacTypes /\ [Next]_vars => MacTypes'
<1> SUFFICES ASSUME MacTypes, [Next]_vars PROVE MacTypes'
  OBVIOUS
<1>0. MaxActs \in Nat /\ acts \in Nat
  BY SpacesAssumption DEF MacTypes
<1>1. CASE UNCHANGED <<owes, away, acts>>
  BY <1>1 DEF MacTypes
<1>2. ASSUME NEW kind, Notified(kind), UNCHANGED away PROVE MacTypes'
  <2>1. /\ owes' = owes \/ owes' = owes \ {kind}
        /\ acts' = acts \/ (acts < MaxActs /\ acts' = acts + 1)
    BY <1>2, Zenon DEF Notified
  <2>2. owes' \subseteq {"spaceChanged", "reconfigured", "screens"}
    BY <2>1 DEF MacTypes
  <2>3. acts' \in 0..MaxActs
    BY <1>0, <2>1 DEF MacTypes
  <2> QED BY <1>2, <2>2, <2>3 DEF MacTypes
<1>3. ASSUME NEW h \in Hold, Holds(h) \/ Resamples(h) PROVE MacTypes'
  BY <1>0, <1>3 DEF MacTypes, Holds, Resamples
<1>4. CASE ActiveDisplayChanged \/ SpaceInventoryChanged \/ Announcements
  BY <1>2, <1>4 DEF ActiveDisplayChanged, SpaceInventoryChanged, Announcements,
     ActiveSpaceChanged, ScreenRefreshRequested, DisplayReconfigured, ForwardsOrSchedules
<1>5. CASE Refreshes \/ Checks
  BY <1>1, <1>5 DEF Refreshes, Checks, ProcessScreenRefresh, CheckDisplayStabilization, macVars
<1>6. ASSUME NEW picture, Changes(picture) PROVE MacTypes'
  BY <1>0, <1>6 DEF Changes, MacTypes
<1>7. CASE ReactorHears \/ DefersRefresh \/ UNCHANGED vars
  BY <1>1, <1>7 DEF ReactorHears, DefersRefresh, vars, macVars
<1> QED
  BY <1>3, <1>4, <1>5, <1>6, <1>7 DEF Next, MacActs

LEMMA EpochStep == EpochInv /\ [Next]_vars => EpochInv'
<1> SUFFICES ASSUME EpochInv, [Next]_vars PROVE EpochInv'
  OBVIOUS
<1>0. MaxEpoch \in Nat /\ churn.epoch \in Nat
  BY SpacesAssumption DEF EpochInv
<1>1. CASE UNCHANGED churn
  BY <1>1 DEF EpochInv
<1>2. CASE DisplayReconfigured
  <2>1. churn' = [epoch |-> churn.epoch + 1, run |-> NewRun] /\ churn.epoch + 2 <= MaxEpoch
    BY <1>2 DEF DisplayReconfigured, Reconfigured
  <2> QED BY <1>0, <2>1 DEF EpochInv
<1>3. ASSUME NEW e \in Epochs, NEW n \in CheckAttempts, CheckDisplayStabilization(e, n)
      PROVE  EpochInv'
  <2>1. \/ UNCHANGED churn
        \/ churn.run.active /\ \/ \E run : churn' = [churn EXCEPT !.run = run]
                               \/ churn' = ChurnOver
    BY <1>3 DEF CheckDisplayStabilization
  <2>2. CASE churn.run.active /\ \E run : churn' = [churn EXCEPT !.run = run]
    BY <1>0, <2>2 DEF EpochInv
  <2>3. CASE churn.run.active /\ churn' = ChurnOver
    <3>1. churn' = [epoch |-> churn.epoch + 1, run |-> NoRun]
      BY <2>3 DEF ChurnOver
    <3>2. DOMAIN churn' = {"epoch", "run"} /\ churn'.epoch = churn.epoch + 1 /\ ~churn'.run.active
      BY <3>1, FreshRuns
    <3> QED BY <1>0, <2>3, <3>2 DEF EpochInv
  <2> QED BY <1>1, <2>1, <2>2, <2>3
<1>4. CASE MacActs \/ ActiveSpaceChanged \/ ScreenRefreshRequested \/ Refreshes
  BY <1>1, <1>4 DEF MacActs, Changes, Holds, Resamples, ActiveDisplayChanged,
     SpaceInventoryChanged, ActiveSpaceChanged, ForwardsOrSchedules, ScreenRefreshRequested,
     Refreshes, ProcessScreenRefresh, churnVars
<1>5. CASE ReactorHears \/ DefersRefresh \/ UNCHANGED vars
  BY <1>1, <1>5 DEF ReactorHears, DefersRefresh, vars, churnVars
<1> QED
  BY <1>2, <1>3, <1>4, <1>5 DEF Next, Announcements, Checks

LEMMA TypesInit == Init => ScreensInv /\ MacTypes /\ EpochInv
BY SpacesAssumption, FreshRuns DEF Init, ScreensInv, Shows, ShowsUser, MacTypes, EpochInv

(* Every variable stays in its type; what is forwarded shows user spaces   *)
(* only, and the churn's epoch never passes its bound.                     *)
THEOREM TypeCorrect == Spec => []TypeOK
<1>1. Init => ReactorInv /\ SentType /\ LifecycleType
  BY RefreshInit DEF Init, ReactorInv, ReactorStates, OwedWhileBlocked, SentType
<1>2. SentType /\ LifecycleType /\ [Next]_vars => SentType' /\ LifecycleType'
  BY SendStep, LifecycleStep
<1>3. /\ ScreensInv /\ MacTypes /\ EpochInv
      /\ LifecycleType /\ SentType /\ ReactorInv /\ RefreshInv /\ ChurnInv
      => TypeOK
  <2> SUFFICES ASSUME ScreensInv, MacTypes, EpochInv, LifecycleType, SentType, ReactorInv,
                      RefreshInv, ChurnInv
               PROVE  TypeOK
    OBVIOUS
  <2>1. churn.epoch \in Epochs
    BY SpacesAssumption DEF EpochInv, Epochs
  <2>2. \A i \in DOMAIN forwarded :
           forwarded[i].space \in (Space \ (Fullscreen \cup Login)) \cup {NoSpace}
    BY DEF ScreensInv, ShowsUser, UserSpace
  <2>3. /\ churn.run.active \in BOOLEAN /\ churn.run.hits \in 0..DISPLAY_STABLE_REQUIRED_HITS
        /\ checks \in [Epochs \X CheckAttempts -> Nat]
        /\ samples \in 0..DISPLAY_STABLE_REQUIRED_HITS
    BY DEF ChurnInv, ChurnTypes, IsRun
  <2> QED
    BY <2>1, <2>2, <2>3 DEF TypeOK, ScreensInv, MacTypes, LifecycleType, SentType, ReactorInv,
       RefreshInv, RefreshTypes
<1>4. ScreensInv /\ MacTypes /\ EpochInv /\ [Next]_vars => ScreensInv' /\ MacTypes' /\ EpochInv'
  BY ScreensStep, MacTypesStep, EpochStep
<1> QED
  BY <1>1, <1>2, <1>3, <1>4, TypesInit, RefreshInit, ChurnInit, RefreshStep, ChurnStep, ReactorStep,
     PTL DEF Spec
=============================================================================
