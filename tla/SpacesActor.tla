----------------------------- MODULE SpacesActor -----------------------------
(***************************************************************************)
(* The spaces actor (displays/platform/spaces.rs): between what macOS says *)
(* of displays, spaces, sleep and the login window, and the reactor, which *)
(* acts on one snapshot of the displays at a time.  Three machines hold    *)
(* snapshots back (displays/domain/authority.rs): the lifecycle holds of   *)
(* sleep and the login window, the display churn, which ends once the      *)
(* displays have settled (displays/domain/settling.rs), and the screen     *)
(* refresh.  The actor wakes itself by messages scheduled on the main      *)
(* queue.  The reactor holds window refreshes back by a machine of its own *)
(* (app/reactor/managers.rs), which only what the actor sends moves.       *)
(*                                                                         *)
(* A picture is the screens in order, each a display and the space it      *)
(* shows.  Frames are part of a display, and the windows on a space and    *)
(* the menu bar's space are left out.                                      *)
(***************************************************************************)
EXTENDS Naturals, Sequences

CONSTANTS
    Space,          \* native spaces
    Fullscreen,     \* the ones of a fullscreen window
    Login,          \* the ones of the login window
    NoSpace,
    NoPicture,      \* also: macOS cannot list its displays
    Pictures,       \* bound: what macOS may show
    First,          \* what it shows at the start
    REFRESH_MAX_RETRIES,
    DISPLAY_STABILIZE_MAX_ATTEMPTS,
    DISPLAY_STABLE_REQUIRED_HITS,
    MayHold,        \* bound: the holds that may come on
    MaxActs,        \* bound: what macOS does
    MaxEpoch,       \* bound: the churn's epoch
    MaxLag          \* bound: what waits in the reactor's channel

Hold == {"Sleep", "Session"}

ASSUME SpacesAssumption ==
    /\ Fullscreen \subseteq Space /\ Login \subseteq Space \ Fullscreen /\ NoSpace \notin Space
    /\ First \in Pictures /\ NoPicture \notin Pictures
    /\ \A picture \in Pictures : \A i \in DOMAIN picture :
          /\ DOMAIN picture[i] = {"display", "space"}
          /\ picture[i].space \in Space \cup {NoSpace}
    /\ {REFRESH_MAX_RETRIES, DISPLAY_STABILIZE_MAX_ATTEMPTS, MaxActs, MaxEpoch} \subseteq Nat
    /\ {DISPLAY_STABLE_REQUIRED_HITS, MaxLag} \subseteq Nat \ {0}
    /\ MayHold \subseteq Hold

VARIABLES
    native,     \* macOS: the screens and the spaces they show
    owes,       \* macOS: the notifications of it that are still to come
    away,       \* macOS: asleep, or at the login window
    acts,       \* how much macOS has done
    lifecycle,  \* AuthorityState.lifecycle
    churn,      \* AuthorityState.churn
    refresh,    \* AuthorityState.refresh
    forwarded,  \* AuthorityState.forwarded.screens
    lastSent,   \* AuthorityState.last_sent_spaces
    cache,      \* AuthorityState.screen_cache
    refreshes,  \* how many ProcessScreenRefresh of each attempt are on their way
    checks,     \* how many CheckDisplayStabilization of each epoch and attempt are
    sent,       \* the reactor's channel
    reactor,    \* the reactor's RefreshQuarantineManager
    samples     \* history: pictures sampled since the last reconfiguration, up to the hits required

macVars      == <<native, owes, away, acts>>
snapshotVars == <<lifecycle, forwarded, lastSent>>
timerVars    == <<refresh, refreshes>>
churnVars    == <<churn, checks, samples>>
vars == <<macVars, snapshotVars, timerVars, churnVars, cache, sent, reactor>>

-----------------------------------------------------------------------------
(* Pictures.                                                               *)

SpacesOf(screens) == [i \in DOMAIN screens |-> screens[i].space]

DisplaysOf(screens) ==
    IF screens = NoPicture THEN {} ELSE { screens[i].display : i \in DOMAIN screens }

(* snapshot_spaces_are_coherent.                                           *)
Coherent(screens) ==
    \A i, j \in DOMAIN screens :
        i # j /\ screens[i].space \in Space \ Fullscreen => screens[i].space # screens[j].space

CommittableWithSpaces(screens) ==
    screens \notin {NoPicture, <<>>} /\ \A i \in DOMAIN screens : screens[i].space # NoSpace

(* snapshot_is_committable.                                                *)
Committable(screens) ==
    /\ screens \notin {NoPicture, <<>>}
    /\ \A i \in DOMAIN screens : screens[i].space # NoSpace
    /\ Coherent(screens)

ShownOn(screens, d) ==
    IF d \in DisplaysOf(screens)
    THEN screens[CHOOSE i \in DOMAIN screens : screens[i].display = d].space
    ELSE NoSpace

(* keep_user_spaces_through_fullscreen: while a display enters fullscreen, *)
(* one that seems to take over another's space keeps its own.              *)
KeptThroughFullscreen(previous, screens) ==
    LET before(i) == ShownOn(previous, screens[i].display)
        entering  == \E i \in DOMAIN screens : screens[i].space \in Fullscreen /\ before(i) # NoSpace
        takesOver(i) ==
            /\ entering /\ before(i) # NoSpace
            /\ screens[i].space \notin Fullscreen \cup {NoSpace, before(i)}
            /\ \E j \in DOMAIN previous : /\ previous[j].space = screens[i].space
                                          /\ previous[j].display # screens[i].display
    IN  [i \in DOMAIN screens |->
            IF takesOver(i) THEN [screens[i] EXCEPT !.space = before(i)] ELSE screens[i]]

UserScreensOutOfFullscreen(previous, screens) ==
    LET kept == KeptThroughFullscreen(previous, screens) IN
    [i \in DOMAIN kept |->
        IF kept[i].space \in Fullscreen THEN [kept[i] EXCEPT !.space = NoSpace] ELSE kept[i]]

(* user_screens: only user spaces are shown on.                            *)
UserScreens(previous, screens) ==
    LET kept == KeptThroughFullscreen(previous, screens) IN
    [i \in DOMAIN kept |->
        IF kept[i].space \in Fullscreen \cup Login THEN [kept[i] EXCEPT !.space = NoSpace] ELSE kept[i]]

CacheReadStale ==
    IF cache.sleeping \/ (cache.state # NoPicture /\ ~cache.dirty) THEN cache.state ELSE native

(* ScreenCache::refresh: asleep it says what it last rebuilt; clean, the   *)
(* displays it last listed with the spaces they show now; dirty, it lists  *)
(* them again, and stays dirty when it cannot.                             *)
CacheRead ==
    IF cache.sleeping THEN cache.state
    ELSE IF cache.state # NoPicture /\ ~cache.dirty
    THEN [i \in DOMAIN cache.state |->
             [cache.state[i] EXCEPT !.space = ShownOn(native, cache.state[i].display)]]
    ELSE native

CacheLeft ==
    IF cache.sleeping \/ native = NoPicture \/ (cache.state # NoPicture /\ ~cache.dirty) THEN cache
    ELSE [cache EXCEPT !.state = native, !.dirty = FALSE]

(* collect_state: the last coherent picture stands in for none.            *)
Collected == IF CacheRead = NoPicture /\ forwarded # <<>> THEN forwarded ELSE CacheRead

-----------------------------------------------------------------------------
(* What holds snapshots back.                                              *)

NoRun == [active |-> FALSE, last |-> NoPicture, hits |-> 0]

NewRun == [NoRun EXCEPT !.active = TRUE]

QuarantinedByHold == lifecycle.on # {}

Quarantined == lifecycle.on # {} \/ churn.run.active

(* macOS may post a notification of nothing new.                           *)
Notified(kind) ==
    \/ kind \in owes /\ owes' = owes \ {kind} /\ UNCHANGED acts
    \/ acts < MaxActs /\ acts' = acts + 1 /\ UNCHANGED owes

(* The channel has no bound in the code.                                   *)
Tell(event) ==
    /\ Len(sent) < MaxLag
    /\ sent' = Append(sent, event)

Event(kind) == [kind |-> kind, releases |-> FALSE]

Snapshot(releases) == [kind |-> "snapshot", releases |-> releases]

(* forward_screen_parameters.                                              *)
Forwards(screens) ==
    /\ forwarded' = UserScreens(forwarded, screens)
    /\ lastSent' = SpacesOf(forwarded')
    /\ lifecycle' = [lifecycle EXCEPT !.releases = FALSE]
    /\ Tell(Snapshot(lifecycle.releases))

ForwardsNothing == UNCHANGED <<snapshotVars, sent>>

SchedulesAnyway(r, active) ==
    IF active
    THEN refresh' = r /\ UNCHANGED refreshes
    ELSE /\ refresh' = [r EXCEPT !.pending = TRUE]
         /\ refreshes' = [refreshes EXCEPT ![0] = @ + 1]

(* schedule_screen_refresh_after a first attempt, from a refresh r: one    *)
(* waits while a churn is under way or another is pending.                 *)
Schedules(r, active) ==
    IF active \/ r.pending
    THEN refresh' = r /\ UNCHANGED refreshes
    ELSE /\ refresh' = [r EXCEPT !.pending = TRUE]
         /\ refreshes' = [refreshes EXCEPT ![0] = @ + 1]

(* try_forward_authoritative_snapshot, or else a refresh.                  *)
ForwardsOrSchedules(r, force) ==
    /\ IF Quarantined \/ r.pending
       THEN Schedules(r, churn.run.active) /\ ForwardsNothing /\ UNCHANGED cache
       ELSE /\ cache' = CacheLeft
            /\ IF Committable(Collected) /\ (force \/ lastSent # SpacesOf(Collected))
               THEN /\ Forwards(Collected)
                    /\ refresh' = [r EXCEPT !.unconfirmed = FALSE] /\ UNCHANGED refreshes
               ELSE Schedules(r, FALSE) /\ ForwardsNothing
    /\ UNCHANGED <<native, away, churnVars, reactor>>

-----------------------------------------------------------------------------
(* macOS.                                                                  *)

(* The displays change, or the spaces they show, and the notification of   *)
(* it comes after.  The login window's spaces show only while it owns the  *)
(* displays; a listing fails only while the displays change.               *)
Changes(picture) ==
    /\ acts < MaxActs /\ picture # native
    /\ native' = picture /\ acts' = acts + 1
    /\ owes' = owes \cup { IF DisplaysOf(picture) = DisplaysOf(native) /\ DisplaysOf(picture) # {}
                           THEN "spaceChanged" ELSE "reconfigured" }
    /\ UNCHANGED <<away, snapshotVars, timerVars, churnVars, cache, sent, reactor>>

ShowsLogin(picture) == picture # NoPicture /\ \E i \in DOMAIN picture : picture[i].space \in Login

-----------------------------------------------------------------------------
(* The actor, one action per notification.                                 *)

(* SystemWillSleep, SessionDidResignActive.                                *)
Holds(h) ==
    /\ acts < MaxActs /\ acts' = acts + 1
    /\ h \in MayHold \ away /\ away' = away \cup {h}
    /\ lifecycle' = [releases |-> FALSE, on |-> lifecycle.on \cup {h}]
    /\ Tell(Event(IF h = "Sleep" THEN "willSleep" ELSE "resigned"))
    /\ cache' = IF h = "Sleep" THEN [cache EXCEPT !.sleeping = TRUE] ELSE cache
    /\ UNCHANGED <<native, owes, forwarded, lastSent, timerVars, churnVars, reactor>>

CheckSoon(e) == [checks EXCEPT ![<<e, 0>>] = @ + 1]

(* SystemDidWake, SessionDidBecomeActive: the churn is checked at once and *)
(* the screens are sampled afresh.                                         *)
Resamples(h) ==
    /\ h \in away /\ away' = away \ {h}
    /\ lifecycle' = [releases |-> TRUE, on |-> lifecycle.on \ {h}]
    /\ Tell(Event(IF h = "Sleep" THEN "woke" ELSE "activated"))
    /\ cache' = [cache EXCEPT !.dirty = TRUE, !.sleeping = @ /\ h # "Sleep"]
    /\ checks' = IF churn.run.active THEN CheckSoon(churn.epoch) ELSE checks
    /\ Schedules(refresh, churn.run.active)
    /\ UNCHANGED <<native, owes, acts, forwarded, lastSent, churn, samples, reactor>>

(* A display already active, or one that shows a known space, moves no     *)
(* snapshot.  Which display is active is left open.                        *)
ActiveDisplayChanged ==
    /\ Notified("display")
    /\ \/ /\ forwarded # <<>>
          /\ ForwardsNothing
          /\ UNCHANGED <<native, away, timerVars, churnVars, cache, reactor>>
       \/ ForwardsOrSchedules(refresh, TRUE)

ActiveSpaceChanged ==
    /\ Notified("spaceChanged")
    /\ ForwardsOrSchedules([refresh EXCEPT !.unconfirmed = TRUE], FALSE)

SpaceInventoryChanged ==
    /\ Notified("inventory")
    /\ ForwardsOrSchedules(refresh, TRUE)

ScreenRefreshRequested ==
    /\ Notified("screens")
    /\ cache' = [cache EXCEPT !.dirty = TRUE]
    /\ Schedules(refresh, churn.run.active)
    /\ ForwardsNothing
    /\ UNCHANGED <<native, away, churnVars, reactor>>

(* Another reconfiguration of a churn under way starts its samples over.   *)
Reconfigured(c) == [epoch |-> c.epoch + 1, run |-> NewRun]

DisplayReconfigured ==
    /\ Notified("reconfigured")
    /\ churn.epoch + 2 <= MaxEpoch
    /\ churn' = Reconfigured(churn) /\ samples' = 0
    /\ lastSent' = NoPicture
    /\ cache' = [cache EXCEPT !.dirty = TRUE]
    /\ checks' = CheckSoon(churn.epoch + 1)
    /\ IF churn.run.active THEN UNCHANGED sent ELSE Tell(Event("churnBegan"))
    /\ UNCHANGED <<native, away, lifecycle, forwarded, timerVars, reactor>>

Ended == [refresh EXCEPT !.pending = FALSE]

(* A refresh attempt that comes due under quarantine is dropped; one that  *)
(* finds nothing to forward, or a space switch not yet to be seen, is      *)
(* tried again.                                                            *)
ProcessScreenRefresh(n) ==
    LET rest  == [refreshes EXCEPT ![n] = @ - 1]
        again == [rest EXCEPT ![n + 1] = @ + 1]
        over  == [rest EXCEPT ![0] = @ + 1]
    IN
    /\ refreshes[n] > 0
    /\ \/ /\ Quarantined
          /\ refresh' = Ended /\ refreshes' = rest
          /\ ForwardsNothing /\ UNCHANGED cache
       \/ /\ ~Quarantined
          /\ LET found  == Committable(Collected)
                 unseen == found /\ refresh.unconfirmed /\ lastSent = SpacesOf(Collected)
             IN
               /\ cache' = CacheLeft
               /\ \/ /\ ~found \/ unseen
                     /\ n < REFRESH_MAX_RETRIES
                     /\ refreshes' = again
                     /\ refresh' = [refresh EXCEPT !.pending = TRUE]
                     /\ ForwardsNothing
                  \/ /\ ~found
                     /\ n = REFRESH_MAX_RETRIES
                     /\ refresh' = [refresh EXCEPT !.pending = lifecycle.releases]
                     /\ refreshes' = IF lifecycle.releases THEN over ELSE rest
                     /\ ForwardsNothing
                  \/ /\ found
                     /\ ~unseen \/ n = REFRESH_MAX_RETRIES
                     /\ Forwards(Collected)
                     /\ refresh' = [pending |-> FALSE, unconfirmed |-> FALSE]
                     /\ refreshes' = rest
    /\ UNCHANGED <<macVars, churnVars, reactor>>

(* settle: what a check of attempt n does of a run once it has sampled     *)
(* screens.                                                                *)
NextCheck(n) == IF n < DISPLAY_STABILIZE_MAX_ATTEMPTS THEN "again" ELSE "giveUp"

AtMost(m, n) == IF m < n THEN m ELSE n

Settle(run, screens, quiet, n) ==
    LET hits == AtMost(run.hits + 1, DISPLAY_STABLE_REQUIRED_HITS)
        seen == [run EXCEPT !.hits = hits]
    IN
    IF screens = <<>> THEN [run |-> run, step |-> NextCheck(n)]
    ELSE IF run.last # screens
    THEN [run |-> [run EXCEPT !.last = screens, !.hits = 1], step |-> "again"]
    ELSE IF hits < DISPLAY_STABLE_REQUIRED_HITS THEN [run |-> seen, step |-> NextCheck(n)]
    ELSE IF ~Coherent(screens) THEN [run |-> NewRun, step |-> NextCheck(n)]
    ELSE IF ~quiet THEN [run |-> seen, step |-> NextCheck(n)]
    ELSE [run |-> seen, step |-> "forward"]

ChurnOver == [epoch |-> churn.epoch + 1, run |-> NoRun]

(* A check of an epoch since moved on from does nothing.                   *)
CheckDisplayStabilization(e, n) ==
    LET rest == [checks EXCEPT ![<<e, n>>] = @ - 1] IN
    /\ checks[<<e, n>>] > 0
    /\ \/ /\ ~churn.run.active \/ churn.epoch # e
          /\ checks' = rest
          /\ ForwardsNothing /\ UNCHANGED <<timerVars, cache, churn, samples>>
       \/ /\ churn.run.active /\ churn.epoch = e
          /\ \E quiet \in BOOLEAN :
               LET screens == IF Collected = NoPicture THEN <<>> ELSE Collected
                   settled == Settle(churn.run, screens, quiet, n)
               IN
               /\ cache' = CacheLeft
               /\ samples' = IF screens = <<>> THEN samples
                             ELSE AtMost(samples + 1, DISPLAY_STABLE_REQUIRED_HITS)
               /\ \/ /\ settled.step = "again"
                     /\ churn' = [churn EXCEPT !.run = settled.run]
                     /\ checks' = [rest EXCEPT
                          ![<<e, AtMost(n + 1, DISPLAY_STABILIZE_MAX_ATTEMPTS)>>] = @ + 1]
                     /\ ForwardsNothing /\ UNCHANGED timerVars
                  \/ /\ settled.step = "giveUp"
                     /\ churn' = ChurnOver /\ checks' = rest
                     /\ Schedules(refresh, FALSE)
                     /\ ForwardsNothing
                  \/ /\ settled.step = "forward"
                     /\ churn' = ChurnOver /\ checks' = rest
                     /\ Forwards(screens)
                     /\ refresh' = [refresh EXCEPT !.unconfirmed = FALSE] /\ UNCHANGED refreshes
    /\ UNCHANGED <<macVars, reactor>>

-----------------------------------------------------------------------------
(* The reactor.                                                            *)

Blocks(r) == r.wake # "awake" \/ r.session # "active" \/ r.churn # "steady"

IncorporatedAwake(r, releases) ==
    LET steady == [wake |-> "awake", session |-> "active", churn |-> "steady", owed |-> FALSE]
    IN  [steady EXCEPT !.owed = Blocks(steady)]

(* RefreshQuarantineManager::on for what the actor sends.                  *)
Released(releases, held, free) == IF releases /\ held = "awaiting" THEN free ELSE held

Incorporated(r, releases) ==
    LET steady == [wake    |-> Released(releases, r.wake, "awake"),
                   session |-> Released(releases, r.session, "active"),
                   churn   |-> "steady", owed |-> FALSE]
    IN  [steady EXCEPT !.owed = Blocks(steady)]

Moved(r, event) ==
    CASE event.kind = "willSleep"  -> [r EXCEPT !.wake = "asleep"]
      [] event.kind = "woke"       -> [r EXCEPT !.wake = "awaiting", !.owed = TRUE]
      [] event.kind = "resigned"   -> [r EXCEPT !.session = "inactive"]
      [] event.kind = "activated"  -> [r EXCEPT !.session = "awaiting", !.owed = TRUE]
      [] event.kind = "churnBegan" -> [r EXCEPT !.churn = "awaiting"]
      [] event.kind = "snapshot"   -> Incorporated(r, event.releases)

ReactorHears ==
    /\ sent # <<>>
    /\ sent' = Tail(sent)
    /\ reactor' = Moved(reactor, Head(sent))
    /\ UNCHANGED <<macVars, snapshotVars, timerVars, churnVars, cache>>

(* A window refresh asked for while they are blocked.                      *)
DefersRefresh ==
    /\ Blocks(reactor) /\ ~reactor.owed
    /\ reactor' = [reactor EXCEPT !.owed = TRUE]
    /\ UNCHANGED <<macVars, snapshotVars, timerVars, churnVars, cache, sent>>

-----------------------------------------------------------------------------
Epochs == 0..MaxEpoch
RefreshAttempts == 0..REFRESH_MAX_RETRIES
CheckAttempts == 0..DISPLAY_STABILIZE_MAX_ATTEMPTS

Init ==
    /\ native = First /\ owes = {"screens"} /\ away = {} /\ acts = 0
    /\ lifecycle = [releases |-> FALSE, on |-> {}]
    /\ churn = [epoch |-> 0, run |-> NoRun]
    /\ refresh = [pending |-> FALSE, unconfirmed |-> FALSE]
    /\ forwarded = <<>> /\ lastSent = NoPicture
    /\ cache = [state |-> NoPicture, dirty |-> FALSE, sleeping |-> FALSE]
    /\ refreshes = [n \in RefreshAttempts |-> 0]
    /\ checks = [c \in Epochs \X CheckAttempts |-> 0]
    /\ sent = <<>>
    /\ reactor = [wake |-> "awake", session |-> "active", churn |-> "steady", owed |-> FALSE]
    /\ samples = 0

Announcements == ActiveSpaceChanged \/ DisplayReconfigured \/ ScreenRefreshRequested

MacActs ==
    \/ \E picture \in Pictures \cup {NoPicture} :
         (ShowsLogin(picture) => "Session" \in away) /\ Changes(picture)
    \/ \E h \in Hold : Holds(h) \/ Resamples(h)
    \/ ActiveDisplayChanged \/ SpaceInventoryChanged

Refreshes == \E n \in RefreshAttempts : ProcessScreenRefresh(n)

Checks == \E e \in Epochs, n \in CheckAttempts : CheckDisplayStabilization(e, n)

Next ==
    \/ MacActs
    \/ Announcements \/ Refreshes \/ Checks
    \/ ReactorHears \/ DefersRefresh

(* What macOS owes it posts, the main queue sends what is scheduled on it, *)
(* and the reactor drains its channel.                                     *)
Fairness ==
    /\ WF_vars(Announcements) /\ WF_vars(Refreshes) /\ WF_vars(Checks) /\ WF_vars(ReactorHears)

Spec == Init /\ [][Next]_vars

FairSpec == Spec /\ Fairness

-----------------------------------------------------------------------------
(* Properties.                                                             *)

Events ==
    [kind : {"willSleep", "woke", "resigned", "activated", "churnBegan", "snapshot"}, releases : BOOLEAN]

ReactorStates ==
    [wake : {"awake", "asleep", "awaiting"}, session : {"active", "inactive", "awaiting"},
     churn : {"steady", "awaiting"}, owed : BOOLEAN]

TypeOK ==
    /\ native \in Pictures \cup {NoPicture} /\ owes \subseteq {"spaceChanged", "reconfigured", "screens"}
    /\ away \subseteq Hold /\ acts \in 0..MaxActs
    /\ lifecycle \in [releases : BOOLEAN, on : SUBSET Hold]
    /\ churn.epoch \in Epochs /\ churn.run.active \in BOOLEAN
    /\ churn.run.hits \in 0..DISPLAY_STABLE_REQUIRED_HITS
    /\ \A i \in DOMAIN forwarded : forwarded[i].space \in (Space \ (Fullscreen \cup Login)) \cup {NoSpace}
    /\ refresh \in [pending : BOOLEAN, unconfirmed : BOOLEAN]
    /\ refreshes \in [RefreshAttempts -> Nat]
    /\ checks \in [Epochs \X CheckAttempts -> Nat]
    /\ sent \in Seq(Events)
    /\ reactor \in ReactorStates
    /\ samples \in 0..DISPLAY_STABLE_REQUIRED_HITS

(* A refresh is pending exactly while one attempt of it is on its way: one *)
(* believed pending with none would have every later one wait for good.    *)
RefreshOutstanding ==
    /\ refresh.pending <=> \E n \in RefreshAttempts : refreshes[n] > 0
    /\ \A m, n \in RefreshAttempts : refreshes[m] > 0 /\ refreshes[n] > 0 => m = n
    /\ \A n \in RefreshAttempts : refreshes[n] <= 1

(* A churn under way has a check of its epoch on the way, whatever         *)
(* reconfigurations came on top: with none rini would stay quarantined.    *)
ChurnChecked == churn.run.active => \E n \in CheckAttempts : checks[<<churn.epoch, n>>] > 0

(* The samples a churn settles by were taken since its last                *)
(* reconfiguration.                                                        *)
SettledSince == churn.run.hits <= samples

(* What is believed to be under way is under way: a refresh and a churn    *)
(* have an attempt scheduled of their own, and a churn settles by samples  *)
(* of after its last reconfiguration.                                      *)
ScheduledSound == RefreshOutstanding /\ ChurnChecked /\ SettledSince

(* No space is shown on two displays of a snapshot forwarded.              *)
ForwardedCoherent ==
    \A i, j \in DOMAIN forwarded :
        forwarded[i].space = forwarded[j].space => i = j \/ forwarded[i].space = NoSpace

SnapshotSent == sent' # sent /\ sent' # <<>> /\ sent'[Len(sent')].kind = "snapshot" /\ Len(sent') > Len(sent)

(* A snapshot is forwarded outside a churn, or ends one; under a hold of   *)
(* sleep or the login window only by ending a churn.                       *)
HeldBack ==
    [][SnapshotSent => ~churn.run.active' /\ (lifecycle.on = {} \/ churn.run.active)]_vars

(* The window refresh owed is made the moment nothing holds it back.       *)
OwedWhileBlocked == reactor.owed => Blocks(reactor)

(* Once the reactor has heard everything it holds back what the actor      *)
(* does, and awaits a snapshot only if the actor owes it one; a refresh of *)
(* the windows it owes waits only for as long as it holds anything back.   *)
QuarantineAgrees ==
    /\ OwedWhileBlocked
    /\ sent = <<>> =>
        /\ reactor.wake = "asleep" <=> "Sleep" \in lifecycle.on
        /\ reactor.session = "inactive" <=> "Session" \in lifecycle.on
        /\ reactor.wake = "awaiting" \/ reactor.session = "awaiting"
           => lifecycle.releases \/ lifecycle.on # {}

(* Displays that show a user space each, with macOS awake and unlocked.    *)
Steady ==
    /\ away = {} /\ Committable(native)
    /\ \A i \in DOMAIN native : native[i].space \notin Fullscreen \cup Login

(* Once macOS stays steady the reactor is let go and has its picture.      *)
Converges ==
    <>[]Steady => <>[](~Blocks(reactor) /\ ~churn.run.active /\ sent = <<>> /\ forwarded = native)

-----------------------------------------------------------------------------
(* A claim the code does not keep.                                         *)

(* A snapshot taken while the login window owned the displays never        *)
(* reaches the application.                                                *)
NoneWhileLocked == [][SnapshotSent => "Session" \notin lifecycle.on]_vars
=============================================================================
