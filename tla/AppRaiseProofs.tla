--------------------------- MODULE AppRaiseProofs ---------------------------
(***************************************************************************)
(* The application threads' safety properties, for every set of windows,   *)
(* applications and scenarios: together with the manager they keep the     *)
(* manager's contract, RAISING is held by who uses it, and raises happen   *)
(* in the order they were asked for.                                       *)
(***************************************************************************)
EXTENDS AppRaise, RaiseManagerProofs

-----------------------------------------------------------------------------
(* The asks of one sequence are of different windows, its focus batch, yet *)
(* to be asked for, included; and what is answered was asked for.          *)
AsksApart ==
    /\ Running => nextId = active.id + 1
    /\ \A m \in asked : m.id < nextId /\ m.app = AppOf[m.windows[1]]
    /\ \A m, n \in asked : m.id = n.id /\ m # n => Range(m.windows) \cap Range(n.windows) = {}
    /\ \A m, n \in asked : m.id = n.id /\ m.part = 0 /\ n.part = 0 => m = n
    /\ active.batch # <<>> =>
         \A m \in asked : m.id = active.id =>
            m.part # 0 /\ Range(m.windows) \cap Range(active.batch) = {}
    /\ \A p \in answered : \E m \in asked : m.id = p[2] /\ p[1] \in Range(m.windows)

(* The batches a request is sent in share no window, the focus batch       *)
(* included.                                                               *)
LEMMA BatchesApart ==
    ASSUME NEW r \in Requests
    PROVE  /\ \A i, j \in Sendable(r) :
                i # j => Range(r.batches[i]) \cap Range(r.batches[j]) = {}
           /\ FocusBatch(r) # <<>> =>
                \A i \in Sendable(r) : Range(r.batches[i]) \cap Range(FocusBatch(r)) = {}
<1>1. \A i, j \in DOMAIN r.batches : i # j => Range(r.batches[i]) \cap Range(r.batches[j]) = {}
  BY RequestsAssumption DEF RaiseRequest
<1>2. \A i \in Sendable(r) : i \in DOMAIN r.batches /\ i \notin Holding(r)
  BY DEF Sendable
<1>3. CASE Holding(r) # {}
  <2> DEFINE k == CHOOSE k \in Holding(r) : TRUE
  <2>1. k \in Holding(r) /\ k \in DOMAIN r.batches
    BY <1>3 DEF Holding
  <2>2. r.batches[k] \in Batch /\ r.focus \in Range(r.batches[k])
    BY <2>1, RequestParts
  <2>3. FocusBatch(r) = SwapLast(r.batches[k], r.focus)
    BY <1>3 DEF FocusBatch
  <2>4. Range(FocusBatch(r)) = Range(r.batches[k])
    BY <2>2, <2>3, SwapLastBatch
  <2> QED BY <1>1, <1>2, <2>1, <2>4
<1>4. CASE Holding(r) = {} /\ Focuses(r)
  <2>1. FocusBatch(r) = <<r.focus>>
    BY <1>4 DEF FocusBatch
  <2>2. Range(<<r.focus>>) = {r.focus}
    BY DEF Range
  <2>3. \A i \in Sendable(r) : r.focus \notin Range(r.batches[i])
    BY <1>2 DEF Holding
  <2> QED BY <1>1, <1>2, <2>1, <2>2, <2>3
<1>5. CASE Holding(r) = {} /\ ~Focuses(r)
  BY <1>1, <1>2, <1>5 DEF FocusBatch
<1> QED BY <1>3, <1>4, <1>5

LEMMA AsksApartStep == TypeOK /\ AsksApart /\ [Next]_vars => AsksApart'
<1> SUFFICES ASSUME TypeOK, AsksApart, [Next]_vars PROVE AsksApart'
  OBVIOUS
<1>0. \A m \in asked : m.id \in Nat \ {0} /\ m.windows \in Batch
  BY DEF TypeOK, AskRecord, SequenceId
<1>a. nextId \in Nat \ {0} /\ active.id \in Nat
  BY ActiveType DEF TypeOK, SequenceId
<1>1. CASE UNCHANGED <<asked, answered, nextId>>
           /\ (active' = NoSequence \/ (active'.id = active.id /\ active'.batch = active.batch))
  <2>1. NoSequence.id = 0 /\ NoSequence.batch = <<>>
    BY DEF NoSequence
  <2>2. CASE active' = NoSequence
    BY <1>1, <2>1, <2>2 DEF AsksApart, Running
  <2>3. CASE active'.id = active.id /\ active'.batch = active.batch
    BY <1>1, <2>3 DEF AsksApart, Running
  <2> QED BY <1>1, <2>2, <2>3
<1>2. CASE ReceiveRequest \/ ReceiveTimeout \/ ReceiveCompleted
  <2>1. UNCHANGED <<asked, answered, nextId>>
    BY <1>2 DEF ReceiveRequest, ReceiveTimeout, ReceiveCompleted, Receive
  <2>2. CASE ReceiveRequest
    <3>1. active' = NoSequence \/ active' = active
      BY <2>2 DEF ReceiveRequest
    <3> QED BY <1>1, <2>1, <3>1
  <2>3. CASE ReceiveCompleted
    <3>1. active'.id = active.id /\ active'.batch = active.batch
      BY <2>3, ActiveType DEF ReceiveCompleted, Sequence, NoSequence
    <3> QED BY <1>1, <2>1, <3>1
  <2>4. CASE ReceiveTimeout
    <3>1. Head(inbox).id = active.id => active \in Sequence
      BY <2>4, InboxHead, ActiveType DEF ReceiveTimeout, Receive, NoSequence, SequenceId
    <3> QED BY <1>1, <2>1, <2>4, <3>1, GivenUpType DEF ReceiveTimeout
  <2> QED BY <1>2, <2>2, <2>3, <2>4
<1>3. CASE TimerFires
  <2>1. active'.id = active.id /\ active'.batch = active.batch
    BY <1>3, ActiveType DEF TimerFires, Sequence
  <2> QED BY <1>1, <1>3, <2>1 DEF TimerFires
<1>4. CASE AskFocus
  <2>1. active \in Sequence /\ active.batch \in Batch /\ active.batch # <<>>
    BY <1>4, ActiveType DEF AskFocus, FocusDue
  <2>2. UNCHANGED <<answered, nextId>>
    BY <1>4 DEF AskFocus
  <2>3. CASE active' = NoSequence /\ asked' = asked
    BY <1>1, <2>2, <2>3
  <2>4. CASE /\ active' = [active EXCEPT !.pending = Range(active.batch), !.batch = <<>>]
             /\ asked' = asked \cup {Ask(active.id, active.gen, 0, active.batch)}
    <3> DEFINE f == Ask(active.id, active.gen, 0, active.batch)
    <3>1. active'.id = active.id /\ active'.batch = <<>>
      BY <2>1, <2>4 DEF Sequence
    <3>2. f.id = active.id /\ f.part = 0 /\ f.windows = active.batch
          /\ f.app = AppOf[f.windows[1]]
      BY DEF Ask
    <3>3. asked' = asked \cup {f}
      BY <2>4
    <3>4. Running /\ nextId = active.id + 1
      BY <1>4 DEF AskFocus, AsksApart
    <3>5. \A m \in asked : m.id = active.id =>
            m.part # 0 /\ Range(m.windows) \cap Range(active.batch) = {}
      BY <2>1 DEF AsksApart
    <3> HIDE DEF f
    <3>6. \A m \in asked' : m.id < nextId' /\ m.app = AppOf[m.windows[1]]
      BY <1>a, <2>2, <3>2, <3>3, <3>4 DEF AsksApart
    <3>7. \A m, n \in asked' : m.id = n.id /\ m # n => Range(m.windows) \cap Range(n.windows) = {}
      BY <3>2, <3>3, <3>5 DEF AsksApart
    <3>8. \A m, n \in asked' : m.id = n.id /\ m.part = 0 /\ n.part = 0 => m = n
      BY <3>2, <3>3, <3>5 DEF AsksApart
    <3>9. \A p \in answered' : \E m \in asked' : m.id = p[2] /\ p[1] \in Range(m.windows)
      BY <2>2, <3>3 DEF AsksApart
    <3> QED BY <2>2, <3>1, <3>4, <3>6, <3>7, <3>8, <3>9 DEF AsksApart, Running
  <2> QED BY <1>4, <2>3, <2>4 DEF AskFocus
<1>5. CASE StartNext
  <2> PICK q \in queued :
        /\ active' = Started(q.req)
        /\ asked' = asked \cup { Ask(nextId, 0, i, q.req.batches[i]) : i \in Sendable(q.req) }
    BY <1>5 DEF StartNext
  <2> DEFINE r == q.req
             new == { Ask(nextId, 0, i, r.batches[i]) : i \in Sendable(r) }
  <2>1. r \in Requests /\ nextId' = nextId + 1 /\ answered' = answered
    BY <1>5 DEF StartNext, TypeOK
  <2>2. active' = NoSequence \/ (active'.id = nextId /\ active'.batch = FocusBatch(r))
    BY DEF Started
  <2>3. \A m \in new : \E i \in Sendable(r) :
          m.id = nextId /\ m.part = i /\ i # 0 /\ m.windows = r.batches[i]
            /\ m = Ask(nextId, 0, i, r.batches[i]) /\ m.app = AppOf[m.windows[1]]
    BY <2>1, StartedType DEF Ask
  <2>4. \A m, n \in new : m # n => Range(m.windows) \cap Range(n.windows) = {}
    BY <2>1, <2>3, BatchesApart
  <2>5. FocusBatch(r) # <<>> =>
          \A m \in new : m.part # 0 /\ Range(m.windows) \cap Range(FocusBatch(r)) = {}
    BY <2>1, <2>3, BatchesApart
  <2>6. \A m \in new : m.id = nextId /\ m.part # 0 /\ m.app = AppOf[m.windows[1]]
    BY <2>3
  <2>7. asked' = asked \cup new
    OBVIOUS
  <2>8. \A m \in asked : m.id < nextId /\ m.id \in Nat /\ m.id # nextId
    BY <1>0, <1>a DEF AsksApart
  <2> HIDE DEF new
  <2>9. \A m \in asked' : m.id < nextId' /\ m.app = AppOf[m.windows[1]]
    BY <1>a, <2>1, <2>6, <2>7, <2>8 DEF AsksApart
  <2>10. \A m, n \in asked' : m.id = n.id /\ m # n => Range(m.windows) \cap Range(n.windows) = {}
    BY <2>4, <2>6, <2>7, <2>8 DEF AsksApart
  <2>11. \A m, n \in asked' : m.id = n.id /\ m.part = 0 /\ n.part = 0 => m = n
    BY <2>6, <2>7, <2>8 DEF AsksApart
  <2>12. active'.batch # <<>> =>
           \A m \in asked' : m.id = active'.id =>
              m.part # 0 /\ Range(m.windows) \cap Range(active'.batch) = {}
    BY <2>2, <2>5, <2>7, <2>8 DEF NoSequence
  <2>13. \A p \in answered' : \E m \in asked' : m.id = p[2] /\ p[1] \in Range(m.windows)
    BY <2>1, <2>7 DEF AsksApart
  <2>14. Running' => nextId' = active'.id + 1
    BY <2>1, <2>2 DEF Running, NoSequence
  <2> QED BY <2>9, <2>10, <2>11, <2>12, <2>13, <2>14 DEF AsksApart
<1>6. CASE Apps
  <2> PICK m \in asked : \E w \in Range(m.windows) : AppCompletes(m, w)
    BY <1>6 DEF Apps
  <2> PICK w \in Range(m.windows) : AppCompletes(m, w)
    OBVIOUS
  <2>1. answered' = answered \cup {<<w, m.id>>} /\ UNCHANGED <<asked, active, nextId>>
    BY DEF AppCompletes, managerVars
  <2>2. \A p \in answered' : \E n \in asked' : n.id = p[2] /\ p[1] \in Range(n.windows)
    BY <2>1 DEF AsksApart
  <2> QED BY <2>1, <2>2 DEF AsksApart, Running
<1>7. CASE (\E r \in Requests : DispatchRaise(r)) \/ Relay \/ EchoLapses \/ Finish \/ Settle
           \/ (\E a \in App : ThreadEnds(a)) \/ UNCHANGED vars
  BY <1>1, <1>7 DEF DispatchRaise, Relay, RelayRaise, TakeRaisesIdle, EchoLapses, Finish, Settle,
                    ThreadEnds, managerVars, vars
<1> QED
  BY <1>2, <1>3, <1>4, <1>5, <1>6, <1>7 DEF Next, Receives, Loops

(* A raise newly asked for has none of its windows answered.               *)
LEMMA NewAsksUnanswered ==
    ASSUME TypeOK, AsksApart, [Next]_vars
    PROVE  /\ asked \subseteq asked'
           /\ \A m \in asked' \ asked :
                /\ answered' = answered
                /\ \A w \in Range(m.windows) : <<w, m.id>> \notin answered
<1>0. \A p \in answered : p[2] \in Nat /\ p[2] < nextId
  BY DEF AsksApart, TypeOK, AskRecord, SequenceId
<1>1. CASE AskFocus
  <2>1. active.batch # <<>> /\ answered' = answered
        /\ asked' \in {asked, asked \cup {Ask(active.id, active.gen, 0, active.batch)}}
    BY <1>1 DEF AskFocus, FocusDue
  <2>2. \A m \in asked' \ asked : m.id = active.id /\ m.windows = active.batch
    BY <2>1 DEF Ask
  <2>3. \A w \in Range(active.batch) : <<w, active.id>> \notin answered
    BY <2>1 DEF AsksApart
  <2> QED BY <2>1, <2>2, <2>3
<1>2. CASE StartNext
  <2> PICK q \in queued :
        asked' = asked \cup { Ask(nextId, 0, i, q.req.batches[i]) : i \in Sendable(q.req) }
    BY <1>2 DEF StartNext
  <2>1. answered' = answered /\ nextId \in Nat
    BY <1>2 DEF StartNext, TypeOK, SequenceId
  <2>2. \A m \in asked' \ asked : m.id = nextId
    BY DEF Ask
  <2> QED BY <1>0, <2>1, <2>2
<1>3. CASE asked' = asked
  BY <1>3
<1> QED
  BY <1>1, <1>2, <1>3
     DEF Next, Relay, Receives, Loops, Apps, DispatchRaise, RelayRaise, TakeRaisesIdle, EchoLapses, ThreadEnds,
         ReceiveRequest, ReceiveCompleted, ReceiveTimeout, Receive, Finish, Settle, TimerFires,
         AppCompletes, managerVars, vars

-----------------------------------------------------------------------------
(* A thread's raise is one it was asked for and has taken up, its own, and *)
(* not answered from the window it stands at on; before the windows are    *)
(* ordered it stands at the first.  What no thread has taken is            *)
(* unanswered.                                                             *)
JobRecord ==
    [phase : {"locking", "waiting", "ordering"}, ask : AskRecord, at : Nat \ {0},
     raised : BOOLEAN]

Unanswered(m, i) == \A k \in i..Len(m.windows) : <<m.windows[k], m.id>> \notin answered

Carries(a, j) ==
    /\ j.ask \in taken /\ j.ask.app = a /\ a \notin ended
    /\ j.at <= Len(j.ask.windows)
    /\ j.phase # "ordering" => j.at = 1
    /\ Unanswered(j.ask, j.at)

Carrying ==
    /\ jobs \in [App -> JobRecord \cup {NoJob}]
    /\ taken \subseteq asked /\ begun \subseteq taken
    /\ scenario \in Scenarios
    /\ \A a \in App : jobs[a] # NoJob => Carries(a, jobs[a])
    /\ \A m \in asked \ taken : Unanswered(m, 1)

(* A raise's first window, and every one it comes to, is a window of it.   *)
LEMMA WindowAt ==
    ASSUME TypeOK, Carrying, NEW a \in App, jobs[a].phase # "idle"
    PROVE  LET j == jobs[a] IN
           /\ j \in JobRecord /\ Carries(a, j) /\ j.ask \in asked
           /\ j.at \in 1..Len(j.ask.windows) /\ Len(j.ask.windows) \in Nat \ {0}
           /\ j.ask.windows[j.at] \in Range(j.ask.windows)
           /\ <<j.ask.windows[j.at], j.ask.id>> \notin answered
<1> DEFINE j == jobs[a]
<1>1. j \in JobRecord
  BY DEF Carrying, NoJob
<1>2. j # NoJob
  BY DEF NoJob
<1>3. Carries(a, j) /\ j.ask \in asked
  BY <1>2 DEF Carrying, Carries
<1> HIDE DEF j
<1>4. j.ask.windows \in Batch /\ j.at \in Nat \ {0}
  BY <1>1 DEF JobRecord, AskRecord
<1>5. Len(j.ask.windows) \in Nat \ {0} /\ j.ask.windows \in Seq(Window)
  BY <1>4, BatchElements
<1>6. j.at \in 1..Len(j.ask.windows)
  BY <1>3, <1>4, <1>5 DEF Carries
<1>7. j.ask.windows[j.at] \in Range(j.ask.windows)
  BY <1>5, <1>6, RangeElements
<1>8. <<j.ask.windows[j.at], j.ask.id>> \notin answered
  BY <1>3, <1>5, <1>6 DEF Carries, Unanswered
<1> QED BY <1>1, <1>3, <1>5, <1>6, <1>7, <1>8 DEF j

(* One thread's raise changes, answering at most for the window it stands  *)
(* at: the others' are as they were.                                       *)
LEMMA JobChanges ==
    ASSUME TypeOK, AsksApart, Carrying,
           NEW a \in App, NEW j \in JobRecord \cup {NoJob}, jobs' = [jobs EXCEPT ![a] = j],
           UNCHANGED <<asked, scenario>>,
           taken \subseteq taken', taken' \subseteq asked, begun' \subseteq taken',
           ended' \ ended \subseteq {a},
           j # NoJob => Carries(a, j)',
           \A p \in answered' \ answered :
              /\ jobs[a].phase # "idle"
              /\ p = <<jobs[a].ask.windows[jobs[a].at], jobs[a].ask.id>>
    PROVE  Carrying'
<1>1. jobs' \in [App -> JobRecord \cup {NoJob}] /\ jobs'[a] = j
      /\ \A b \in App \ {a} : jobs'[b] = jobs[b]
  BY DEF Carrying
<1>2. ASSUME NEW n \in asked, n \notin taken \/ n.app # a,
             NEW k \in 1..Len(n.windows), <<n.windows[k], n.id>> \notin answered
      PROVE  <<n.windows[k], n.id>> \notin answered'
  <2> SUFFICES ASSUME <<n.windows[k], n.id>> \in answered' PROVE FALSE
    OBVIOUS
  <2> DEFINE m == jobs[a].ask
             w == m.windows[jobs[a].at]
  <2>1. jobs[a].phase # "idle" /\ <<n.windows[k], n.id>> = <<w, m.id>>
    BY <1>2
  <2>2. m \in asked /\ m \in taken /\ m.app = a /\ w \in Range(m.windows)
    BY <2>1, WindowAt DEF Carries
  <2>3. n.id = m.id /\ n.windows[k] = w /\ n # m
    BY <1>2, <2>1, <2>2
  <2>4. n.windows \in Seq(Window)
    BY BatchElements DEF TypeOK, AskRecord
  <2>5. n.windows[k] \in Range(n.windows)
    BY <2>4, RangeElements
  <2> QED BY <2>2, <2>3, <2>5 DEF AsksApart
<1>3. ASSUME NEW b \in App, jobs'[b] # NoJob
      PROVE  Carries(b, jobs[b])'
  <2>1. CASE b = a
    BY <1>1, <1>3, <2>1
  <2>2. CASE b # a
    <3> PICK i : i = jobs[b]
      OBVIOUS
    <3>1. i = jobs'[b] /\ i # NoJob /\ Carries(b, i)
      BY <1>1, <1>3, <2>2 DEF Carrying
    <3>2. i \in JobRecord
      BY <3>1 DEF Carrying
    <3>3. i.ask \in asked /\ i.ask.app # a /\ i.at \in Nat \ {0}
      BY <2>2, <3>1, <3>2 DEF Carries, Carrying, JobRecord
    <3>4. \A k \in i.at..Len(i.ask.windows) : <<i.ask.windows[k], i.ask.id>> \notin answered'
      BY <1>2, <3>1, <3>3, BatchElements DEF Carries, Unanswered, TypeOK, AskRecord
    <3>5. Carries(b, i)'
      BY <2>2, <3>1, <3>4 DEF Carries, Unanswered
    <3> QED BY <3>1, <3>5 DEF Carries, Unanswered
  <2> QED BY <2>1, <2>2
<1>4. \A m \in asked' \ taken' : Unanswered(m, 1)'
  BY <1>2 DEF Carrying, Unanswered
<1>5. taken' \subseteq asked' /\ scenario' \in Scenarios
  BY DEF Carrying
<1> QED BY <1>1, <1>3, <1>4, <1>5 DEF Carrying

-----------------------------------------------------------------------------
(* The threads and macOS take only steps the manager allows for: what a    *)
(* thread answers for was asked for, and not answered for before.          *)
LEMMA StepsAllowed ==
    TypeOK /\ AsksApart /\ Carrying /\ [AppNext]_appVars => [Next]_vars
<1> SUFFICES ASSUME TypeOK, AsksApart, Carrying, [AppNext]_appVars PROVE [Next]_vars
  OBVIOUS
<1>1. CASE UNCHANGED vars
  BY <1>1
<1>2. CASE ManagerIdle /\ Unreported
  BY <1>2 DEF ManagerIdle, Unreported, managerVars, vars
<1>3. CASE ManagerStep
  <2>1. CASE sent < MaxRequests /\ \E r \in scenario.requests[sent + 1] : DispatchRaise(r)
    <3>1. scenario.requests[sent + 1] \subseteq Requests
      <4>1. scenario.requests \in [1..MaxRequests -> SUBSET Requests]
        BY ScenariosAssumption DEF Carrying
      <4>2. sent + 1 \in 1..MaxRequests
        BY <2>1, MaxRequestsAssumption DEF TypeOK
      <4> QED BY <4>1, <4>2
    <3> QED BY <2>1, <3>1 DEF Next
  <2>2. CASE Relay \/ EchoLapses \/ Receives \/ Loops \/ TimerFires
    BY <2>2 DEF Next
  <2> QED BY <1>3, <2>1, <2>2 DEF ManagerStep
<1>4. ASSUME NEW a \in App, jobs[a].phase # "idle", ManagerIdle,
             Answer(jobs[a].ask, jobs[a].ask.windows[jobs[a].at])
      PROVE  Apps
  <2> DEFINE m == jobs[a].ask
             w == m.windows[jobs[a].at]
  <2>1. m \in asked /\ w \in Range(m.windows) /\ <<w, m.id>> \notin answered /\ m.app \notin ended
    BY <1>4, WindowAt DEF Carries
  <2>2. AppCompletes(m, w)
    BY <1>4, <2>1 DEF AppCompletes, Answer, ManagerIdle
  <2> QED BY <2>1, <2>2 DEF Apps
<1>5. ASSUME NEW a \in App, Elide(a) PROVE Apps
  <2>1. jobs[a].phase = "locking" /\ Answer(jobs[a].ask, jobs[a].ask.windows[1]) /\ ManagerIdle
    BY <1>5 DEF Elide
  <2>2. jobs[a].at = 1
    BY <2>1, WindowAt DEF Carries
  <2> QED BY <1>4, <2>1, <2>2
<1>6. ASSUME NEW a \in App, RaiseNext(a) PROVE Apps \/ (ManagerIdle /\ Unreported)
  BY <1>4, <1>6 DEF RaiseNext
<1>7. ASSUME NEW a \in App, Terminate(a) PROVE ThreadEnds(a)
  BY <1>7 DEF Terminate
<1>8. ASSUME NEW a \in App, ThreadStep(a) PROVE Apps \/ (ManagerIdle /\ Unreported)
  BY <1>5, <1>6, <1>8 DEF ThreadStep, TakeRaise, LockInVain, MakeKey, SeeFrontmost, CancelWait
<1>9. MacStep => (\E a \in App : ThreadEnds(a)) \/ (ManagerIdle /\ Unreported)
  BY <1>7 DEF MacStep, Activate, HearActivation, HearMainWindow, Close
<1> QED
  BY <1>1, <1>2, <1>3, <1>8, <1>9 DEF AppNext, Next, appVars

-----------------------------------------------------------------------------
(* Which raise a thread is left with by each of its steps.                 *)
LEMMA CarryingStep ==
    TypeOK /\ AsksApart /\ Carrying /\ [AppNext]_appVars => Carrying'
<1> SUFFICES ASSUME TypeOK, AsksApart, Carrying, [AppNext]_appVars PROVE Carrying'
  OBVIOUS
<1>1. CASE UNCHANGED <<jobs, taken, begun, scenario, asked, answered, ended>>
  BY <1>1 DEF Carrying, Carries, Unanswered
<1>2. CASE ManagerStep /\ UNCHANGED scenario
  <2>1. UNCHANGED <<jobs, taken, begun, scenario, answered, ended>>
    BY <1>2 DEF ManagerStep, Relay, Receives, Loops, DispatchRaise, RelayRaise, TakeRaisesIdle, EchoLapses,
          ReceiveRequest, ReceiveCompleted, ReceiveTimeout, Receive, AskFocus, Finish, StartNext,
          Settle, TimerFires, threadVars
  <2>2. [Next]_vars
    BY StepsAllowed
  <2>3. asked \subseteq asked' /\ \A m \in asked' \ asked :
          \A w \in Range(m.windows) : <<w, m.id>> \notin answered
    BY <2>2, NewAsksUnanswered
  <2>4. \A m \in asked' \ asked : m.windows \in Seq(Window)
    <3>1. TypeOK'
      BY <2>2, TypeStep
    <3> QED BY <3>1, BatchElements DEF TypeOK, AskRecord
  <2>5. \A m \in asked' \ asked : Unanswered(m, 1)'
    BY <2>1, <2>3, <2>4, RangeElements DEF Unanswered
  <2>6. \A m \in asked \ taken : Unanswered(m, 1)'
    BY <2>1 DEF Carrying, Unanswered
  <2>7. \A m \in asked' \ taken' : Unanswered(m, 1)'
    BY <2>1, <2>5, <2>6
  <2>8. \A a \in App : jobs'[a] # NoJob => Carries(a, jobs[a])'
    BY <2>1 DEF Carrying, Carries, Unanswered
  <2> QED BY <2>1, <2>3, <2>7, <2>8 DEF Carrying
<1>3. ASSUME NEW a \in App, ThreadStep(a) \/ HearActivation(a) \/ Terminate(a), UNCHANGED scenario
      PROVE  Carrying'
  <2>1. UNCHANGED <<asked, scenario>>
    BY <1>3 DEF ThreadStep, TakeRaise, LockInVain, Elide, MakeKey, SeeFrontmost, CancelWait,
          RaiseNext, HearActivation, Terminate, ThreadEnds, ManagerIdle, managerVars
  <2>2. taken \subseteq asked /\ begun \subseteq taken
    BY DEF Carrying
  <2>3. NoJob \in JobRecord \cup {NoJob} /\ NoJob.phase = "idle"
    BY DEF NoJob
  <2>4. jobs[a].phase # "idle" =>
          jobs[a] \in JobRecord /\ Carries(a, jobs[a]) /\ jobs[a].ask \in asked
    BY WindowAt
  <2>5. CASE TakeRaise(a)
    <3>0. PICK m \in asked \ taken :
          /\ m.app = a
          /\ taken' = taken \cup {m}
          /\ jobs' = IF IsCancelled(m) \/ m.windows[1] \in closed THEN jobs
                     ELSE [jobs EXCEPT ![a] = Job("locking", m, FALSE)]
      BY <2>5 DEF TakeRaise
    <3>1. UNCHANGED <<answered, ended, begun>> /\ a \notin ended
      BY <2>5 DEF TakeRaise, ManagerIdle, Unreported
    <3>2. jobs[a] = NoJob
      BY <2>5 DEF TakeRaise, Carrying, JobRecord
    <3>3. m \in AskRecord /\ Unanswered(m, 1) /\ 1 <= Len(m.windows)
          /\ m.app = a /\ taken' = taken \cup {m}
      BY <3>0, BatchElements DEF TypeOK, AskRecord, Carrying
    <3> PICK j : j = Job("locking", m, FALSE)
      OBVIOUS
    <3>4. j \in JobRecord /\ j.ask = m /\ j.at = 1
      BY <3>3 DEF Job, JobRecord
    <3>5. Carries(a, j)'
      <4>1. j.ask \in taken' /\ j.ask.app = a /\ a \notin ended'
        BY <3>1, <3>3, <3>4
      <4>2. j.at <= Len(j.ask.windows)
        BY <3>3, <3>4
      <4>3. \A k \in j.at..Len(j.ask.windows) : <<j.ask.windows[k], j.ask.id>> \notin answered'
        BY <3>1, <3>3, <3>4 DEF Unanswered
      <4> QED BY <3>4, <4>1, <4>2, <4>3 DEF Carries, Unanswered
    <3>6. CASE jobs' = [jobs EXCEPT ![a] = j]
      BY <2>1, <2>2, <3>1, <3>3, <3>4, <3>5, <3>6, JobChanges
    <3>7. CASE jobs' = jobs
      <4>1. jobs' = [jobs EXCEPT ![a] = NoJob]
        BY <3>2, <3>7 DEF Carrying
      <4> QED BY <2>1, <2>2, <2>3, <3>1, <3>3, <4>1, JobChanges
    <3> QED BY <3>0, <3>6, <3>7
  <2>6. CASE LockInVain(a) \/ CancelWait(a)
    <3>1. UNCHANGED <<answered, ended, taken, begun>> /\ jobs' = [jobs EXCEPT ![a] = NoJob]
      BY <2>6 DEF LockInVain, CancelWait, Drop, ManagerIdle, Unreported
    <3> QED BY <2>1, <2>2, <2>3, <3>1, JobChanges
  <2>7. CASE Terminate(a)
    <3>1. UNCHANGED <<answered, taken, begun>> /\ jobs' = [jobs EXCEPT ![a] = NoJob]
          /\ ended' = ended \cup {a}
      BY <2>7 DEF Terminate, Drop, ThreadEnds
    <3> QED BY <2>1, <2>2, <2>3, <3>1, JobChanges
  <2>8. CASE Elide(a)
    <3>1. jobs[a].phase = "locking" /\ jobs' = [jobs EXCEPT ![a] = NoJob]
          /\ UNCHANGED <<ended, taken>> /\ begun' = begun \cup {jobs[a].ask}
          /\ answered' = answered \cup {<<jobs[a].ask.windows[1], jobs[a].ask.id>>}
      BY <2>8 DEF Elide, Drop, Answer, ManagerIdle
    <3>2. jobs[a].at = 1 /\ jobs[a].ask \in taken
      BY <2>4, <3>1 DEF Carries
    <3> QED BY <2>1, <2>2, <2>3, <3>1, <3>2, JobChanges
  <2>9. CASE MakeKey(a)
    <3> PICK m : m = jobs[a].ask
      OBVIOUS
    <3>1. jobs[a].phase = "locking" /\ UNCHANGED <<answered, ended, taken>> /\ begun' = begun \cup {m}
          /\ \/ jobs' = [jobs EXCEPT ![a] = Job("waiting", m, TRUE)]
             \/ jobs' = [jobs EXCEPT ![a] = Job("ordering", m, FALSE)]
      BY <2>9 DEF MakeKey, ManagerIdle, Unreported
    <3>2. m \in taken /\ m \in AskRecord /\ m.app = a /\ a \notin ended /\ Unanswered(m, 1)
          /\ Len(m.windows) \in Nat \ {0} /\ jobs[a].at = 1
      <4>1. jobs[a].at = 1
        BY <2>4, <3>1 DEF Carries
      <4> QED BY <2>4, <3>1, <4>1, WindowAt DEF Carries, JobRecord
    <3> PICK j : /\ j \in {Job("waiting", m, TRUE), Job("ordering", m, FALSE)}
                 /\ jobs' = [jobs EXCEPT ![a] = j]
      BY <3>1
    <3>3. j \in JobRecord /\ j.ask = m /\ j.at = 1
      <4>1. CASE j = Job("waiting", m, TRUE)
        BY <3>2, <4>1 DEF Job, JobRecord
      <4>2. CASE j = Job("ordering", m, FALSE)
        BY <3>2, <4>2 DEF Job, JobRecord
      <4> QED BY <4>1, <4>2
    <3>4. Carries(a, j)'
      BY <3>1, <3>2, <3>3 DEF Carries, Unanswered
    <3> QED BY <2>1, <2>2, <3>1, <3>2, <3>3, <3>4, JobChanges
  <2>10. CASE SeeFrontmost(a) \/ HearActivation(a)
    <3>1. UNCHANGED <<answered, ended, taken, begun>>
      BY <2>10 DEF SeeFrontmost, HearActivation, ManagerIdle, Unreported
    <3>2. CASE jobs' = jobs
      BY <1>1, <2>1, <3>1, <3>2
    <3>3. CASE jobs[a].phase = "waiting" /\ jobs' = Activated(a)
      <4> PICK j : j = [jobs[a] EXCEPT !.phase = "ordering"]
        OBVIOUS
      <4>1. jobs[a] \in JobRecord /\ Carries(a, jobs[a])
        BY <2>4, <3>3
      <4>2. j \in JobRecord /\ j.ask = jobs[a].ask /\ j.at = jobs[a].at
        BY <4>1 DEF JobRecord
      <4>3. jobs' = [jobs EXCEPT ![a] = j]
        BY <3>3 DEF Activated, Carrying
      <4>4. Carries(a, j)'
        BY <3>1, <4>1, <4>2 DEF Carries, Unanswered, JobRecord
      <4> QED BY <2>1, <2>2, <3>1, <4>2, <4>3, <4>4, JobChanges
    <3> QED BY <2>10, <3>2, <3>3 DEF SeeFrontmost, HearActivation
  <2>11. CASE RaiseNext(a)
    <3> PICK i : i = jobs[a]
      OBVIOUS
    <3> PICK w : w = i.ask.windows[i.at]
      OBVIOUS
    <3>1. i.phase = "ordering" /\ UNCHANGED <<ended, taken, begun>>
          /\ \/ jobs' = [jobs EXCEPT ![a] = NoJob] /\ answered' = answered
             \/ /\ answered' = answered \cup {<<w, i.ask.id>>}
                /\ \/ jobs' = [jobs EXCEPT ![a] = NoJob]
                   \/ ~IsLast(i) /\ jobs' = [jobs EXCEPT ![a].at = @ + 1]
      BY <2>11 DEF RaiseNext, Drop, Answer, ManagerIdle, Unreported
    <3>2. CASE jobs' = [jobs EXCEPT ![a] = NoJob]
      BY <2>1, <2>2, <2>3, <3>1, <3>2, JobChanges
    <3>3. CASE ~IsLast(i) /\ jobs' = [jobs EXCEPT ![a].at = @ + 1]
               /\ answered' = answered \cup {<<w, i.ask.id>>}
      <4> PICK j : j = [i EXCEPT !.at = i.at + 1]
        OBVIOUS
      <4>1. i \in JobRecord /\ Carries(a, i) /\ i.at \in 1..Len(i.ask.windows)
            /\ Len(i.ask.windows) \in Nat \ {0} /\ i.ask.windows \in Batch
        BY <2>4, <3>1, WindowAt DEF JobRecord, AskRecord
      <4>2. j \in JobRecord /\ j.ask = i.ask /\ j.at = i.at + 1 /\ j.phase = "ordering"
        BY <3>1, <4>1 DEF JobRecord
      <4>3. jobs' = [jobs EXCEPT ![a] = j]
        BY <3>3 DEF Carrying
      <4>4. j.at <= Len(j.ask.windows)
        BY <3>3, <4>1, <4>2 DEF IsLast
      <4>5. \A k \in j.at..Len(j.ask.windows) : j.ask.windows[k] # w
        BY <4>1, <4>2, BatchElements DEF Batch, IsInjective
      <4>6. \A k \in j.at..Len(j.ask.windows) : <<j.ask.windows[k], j.ask.id>> \notin answered'
        BY <3>3, <4>1, <4>2, <4>5 DEF Carries, Unanswered
      <4>7. Carries(a, j)'
        BY <3>1, <4>1, <4>2, <4>4, <4>6 DEF Carries, Unanswered
      <4> QED BY <2>1, <2>2, <3>1, <3>3, <4>2, <4>3, <4>7, JobChanges
    <3> QED BY <3>1, <3>2, <3>3
  <2> QED BY <1>3, <2>5, <2>6, <2>7, <2>8, <2>9, <2>10, <2>11 DEF ThreadStep
<1>4. CASE (Activate \/ (\E a \in App : HearMainWindow(a)) \/ (\E w \in Window : Close(w)))
           /\ UNCHANGED scenario
  BY <1>1, <1>4 DEF Activate, HearMainWindow, Close, ManagerIdle, Unreported, threadVars, managerVars
<1>5. CASE UNCHANGED appVars
  BY <1>1, <1>5 DEF appVars, threadVars, vars, managerVars
<1> QED
  BY <1>2, <1>3, <1>4, <1>5 DEF AppNext, MacStep

-----------------------------------------------------------------------------
(* RAISING: a thread takes it only from nobody and, on every way out of a  *)
(* raise, gives back none but its own.                                     *)
InRaise(a) == jobs[a].phase \in {"waiting", "ordering"}

LEMMA LockHeldStep ==
    TypeOK /\ AsksApart /\ Carrying /\ LockHeld /\ [AppNext]_appVars => LockHeld'
<1> SUFFICES ASSUME TypeOK, AsksApart, Carrying, LockHeld, [AppNext]_appVars PROVE LockHeld'
  OBVIOUS
<1>0. /\ jobs \in [App -> JobRecord \cup {NoJob}]
      /\ \A b \in App : InRaise(b) <=> raising = b
  BY DEF Carrying, LockHeld, InRaise
<1>a. SUFFICES \A b \in App : InRaise(b)' <=> raising' = b
  BY DEF LockHeld, InRaise
<1>1. CASE UNCHANGED <<jobs, raising>>
  BY <1>0, <1>1 DEF InRaise
<1>2. ASSUME NEW a \in App, NEW j, jobs' = [jobs EXCEPT ![a] = j],
             \/ raising' = raising /\ (j.phase \in {"waiting", "ordering"} <=> InRaise(a))
             \/ raising = NoApp /\ raising' = a /\ j.phase \in {"waiting", "ordering"}
             \/ Release(a) /\ j = NoJob
      PROVE  \A b \in App : InRaise(b)' <=> raising' = b
  <2>1. jobs'[a] = j /\ \A b \in App \ {a} : jobs'[b] = jobs[b]
    BY <1>0, <1>2
  <2>2. CASE raising' = raising /\ (j.phase \in {"waiting", "ordering"} <=> InRaise(a))
    BY <1>0, <2>1, <2>2 DEF InRaise
  <2>3. CASE raising = NoApp /\ raising' = a /\ j.phase \in {"waiting", "ordering"}
    BY <1>0, <2>1, <2>3, NoAppAssumption DEF InRaise
  <2>4. CASE Release(a) /\ j = NoJob
    <3>1. raising' = IF raising = a THEN NoApp ELSE raising
      BY <2>4 DEF Release
    <3>2. ~InRaise(a)'
      BY <2>1, <2>4 DEF InRaise, NoJob
    <3> QED BY <1>0, <2>1, <3>1, <3>2, NoAppAssumption DEF InRaise
  <2> QED BY <1>2, <2>2, <2>3, <2>4
<1>3. ASSUME NEW a \in App, ThreadStep(a) \/ HearActivation(a) \/ Terminate(a)
      PROVE  \A b \in App : InRaise(b)' <=> raising' = b
  <2>1. CASE TakeRaise(a)
    <3>1. jobs[a].phase = "idle" /\ raising' = raising
          /\ (jobs' = jobs \/ \E m : jobs' = [jobs EXCEPT ![a] = Job("locking", m, FALSE)])
      BY <2>1 DEF TakeRaise
    <3>2. CASE jobs' = jobs
      BY <1>1, <3>1, <3>2
    <3>3. CASE \E m : jobs' = [jobs EXCEPT ![a] = Job("locking", m, FALSE)]
      <4> PICK m : jobs' = [jobs EXCEPT ![a] = Job("locking", m, FALSE)]
        BY <3>3
      <4>1. Job("locking", m, FALSE).phase = "locking"
        BY DEF Job
      <4>2. ~InRaise(a)
        BY <3>1 DEF InRaise
      <4> QED BY <1>2, <3>1, <4>1, <4>2
    <3> QED BY <3>1, <3>2, <3>3
  <2>2. CASE LockInVain(a) \/ Elide(a)
    <3>1. jobs[a].phase = "locking" /\ raising' = raising /\ jobs' = [jobs EXCEPT ![a] = NoJob]
      BY <2>2 DEF LockInVain, Elide, Drop
    <3>2. ~InRaise(a) /\ NoJob.phase = "idle"
      BY <3>1 DEF InRaise, NoJob
    <3> QED BY <1>2, <3>1, <3>2
  <2>3. CASE MakeKey(a)
    <3> PICK m : m = jobs[a].ask
      OBVIOUS
    <3>1. raising = NoApp /\ raising' = a
          /\ \/ jobs' = [jobs EXCEPT ![a] = Job("waiting", m, TRUE)]
             \/ jobs' = [jobs EXCEPT ![a] = Job("ordering", m, FALSE)]
      BY <2>3 DEF MakeKey
    <3>2. Job("waiting", m, TRUE).phase = "waiting" /\ Job("ordering", m, FALSE).phase = "ordering"
      BY DEF Job
    <3> QED BY <1>2, <3>1, <3>2
  <2>4. CASE SeeFrontmost(a) \/ HearActivation(a)
    <3>1. raising' = raising /\ (jobs' = jobs \/ (jobs[a].phase = "waiting" /\ jobs' = Activated(a)))
      BY <2>4 DEF SeeFrontmost, HearActivation
    <3>2. CASE jobs' = jobs
      BY <1>1, <3>1, <3>2
    <3>3. CASE jobs[a].phase = "waiting" /\ jobs' = Activated(a)
      <4> PICK j : j = [jobs[a] EXCEPT !.phase = "ordering"]
        OBVIOUS
      <4>1. jobs[a] \in JobRecord
        BY <3>3, WindowAt
      <4>2. j.phase = "ordering"
        BY <4>1 DEF JobRecord
      <4>3. jobs' = [jobs EXCEPT ![a] = j]
        BY <1>0, <3>3 DEF Activated
      <4>4. InRaise(a)
        BY <3>3 DEF InRaise
      <4> QED BY <1>2, <3>1, <4>2, <4>3, <4>4
    <3> QED BY <3>1, <3>2, <3>3
  <2>5. CASE CancelWait(a) \/ Terminate(a)
    <3>1. jobs' = [jobs EXCEPT ![a] = NoJob] /\ Release(a)
      BY <2>5 DEF CancelWait, Terminate, Drop
    <3> QED BY <1>2, <3>1
  <2>6. CASE RaiseNext(a)
    <3>1. jobs[a].phase = "ordering"
          /\ \/ jobs' = [jobs EXCEPT ![a] = NoJob] /\ Release(a)
             \/ raising' = raising /\ jobs' = [jobs EXCEPT ![a].at = @ + 1]
      BY <2>6 DEF RaiseNext, Drop
    <3>2. CASE jobs' = [jobs EXCEPT ![a] = NoJob] /\ Release(a)
      BY <1>2, <3>2
    <3>3. CASE raising' = raising /\ jobs' = [jobs EXCEPT ![a].at = @ + 1]
      <4> PICK j : j = [jobs[a] EXCEPT !.at = @ + 1]
        OBVIOUS
      <4>1. jobs[a] \in JobRecord
        BY <3>1, WindowAt
      <4>2. j.phase = "ordering"
        BY <3>1, <4>1 DEF JobRecord
      <4>3. jobs' = [jobs EXCEPT ![a] = j]
        BY <1>0, <3>3
      <4>4. InRaise(a)
        BY <3>1 DEF InRaise
      <4> QED BY <1>2, <3>3, <4>2, <4>3, <4>4
    <3> QED BY <3>1, <3>2, <3>3
  <2> QED BY <1>3, <2>1, <2>2, <2>3, <2>4, <2>5, <2>6 DEF ThreadStep
<1>4. CASE ManagerStep \/ Activate \/ (\E a \in App : HearMainWindow(a)) \/ (\E w \in Window : Close(w))
           \/ UNCHANGED appVars
  BY <1>1, <1>4 DEF ManagerStep, Activate, HearMainWindow, Close, threadVars, appVars
<1> QED
  BY <1>3, <1>4 DEF AppNext, MacStep

-----------------------------------------------------------------------------
(* A raise given up for a newer one is cancelled before the newer is asked *)
(* for, and the lock is where that is looked at: so a window is first      *)
(* touched only for the newest sequence, and for its focus batch only once *)
(* nothing else of it can be raised.                                       *)
LEMMA RaisesInOrderStep ==
    TypeOK /\ AsksApart /\ Carrying /\ LockHeld /\ NoOrphanRaise /\ FocusLast
      /\ RaisesInOrder /\ [AppNext]_appVars => RaisesInOrder'
<1> SUFFICES ASSUME TypeOK, AsksApart, Carrying, LockHeld, NoOrphanRaise, FocusLast,
                    RaisesInOrder, [AppNext]_appVars,
                    NEW b \in App, InRaise(b)', NEW m \in begun'
             PROVE  LET f == jobs'[b].ask IN
                    m.id <= f.id /\ (m.id = f.id /\ m.part = 0 => f = m)
  BY DEF RaisesInOrder, InRaise
<1>0. jobs \in [App -> JobRecord \cup {NoJob}]
  BY DEF Carrying
<1>1. CASE begun' = begun /\ InRaise(b) /\ jobs'[b].ask = jobs[b].ask
  BY <1>1 DEF RaisesInOrder, InRaise
<1>2. ASSUME NEW a \in App, jobs' = [jobs EXCEPT ![a] = NoJob]
      PROVE  jobs'[b] = jobs[b] /\ InRaise(b)
  <2>1. b # a
    BY <1>0, <1>2 DEF InRaise, NoJob
  <2> QED BY <1>0, <1>2, <2>1 DEF InRaise
<1>3. ASSUME NEW a \in App, raising = NoApp
      PROVE  ~InRaise(a)
  BY <1>3, NoAppAssumption DEF LockHeld, InRaise
<1>4. ASSUME NEW a \in App, MakeKey(a)
      PROVE  LET f == jobs'[b].ask IN
             m.id <= f.id /\ (m.id = f.id /\ m.part = 0 => f = m)
  <2> PICK f : f = jobs[a].ask
    OBVIOUS
  <2>1. jobs[a].phase = "locking" /\ raising = NoApp /\ ~IsCancelled(f) /\ begun' = begun \cup {f}
        /\ \/ jobs' = [jobs EXCEPT ![a] = Job("waiting", f, TRUE)]
           \/ jobs' = [jobs EXCEPT ![a] = Job("ordering", f, FALSE)]
    BY <1>4 DEF MakeKey, GivesUp
  <2>2. b = a
    <3> SUFFICES ASSUME b # a PROVE FALSE
      OBVIOUS
    <3>1. jobs'[b] = jobs[b]
      BY <1>0, <2>1
    <3> QED BY <1>3, <2>1, <3>1 DEF InRaise
  <2>3. jobs'[b].ask = f
    BY <1>0, <2>1, <2>2 DEF Job
  <2>4. Live(f) /\ f \in asked
    <3>1. /\ f \in asked /\ f.windows[jobs[a].at] \in Range(f.windows)
          /\ <<f.windows[jobs[a].at], f.id>> \notin answered
      BY <2>1, WindowAt
    <3> QED BY <2>1, <3>1 DEF Live, IsCancelled
  <2>5. f.id = active.id /\ f.id \in Nat \ {0}
    BY <2>4 DEF NoOrphanRaise, TypeOK, AskRecord, SequenceId
  <2>6. nextId = f.id + 1
    BY <2>5 DEF AsksApart, Running
  <2>7. CASE m \in begun
    <3>1. m \in asked /\ m.id \in Nat /\ m.id < nextId
      BY <2>7 DEF Carrying, AsksApart, TypeOK, AskRecord, SequenceId
    <3>2. m.id <= f.id
      BY <2>5, <2>6, <3>1
    <3>3. m.id = f.id /\ m.part = 0 => f = m
      BY <2>4, <3>1 DEF FocusLast, AsksApart
    <3> QED BY <2>3, <3>2, <3>3
  <2>8. CASE m = f
    BY <2>3, <2>5, <2>8
  <2> QED BY <2>1, <2>7, <2>8
<1>5. ASSUME NEW a \in App, ThreadStep(a) \/ HearActivation(a) \/ Terminate(a), ~MakeKey(a)
      PROVE  begun' = begun /\ InRaise(b) /\ jobs'[b].ask = jobs[b].ask
  <2>1. CASE TakeRaise(a)
    <3>1. jobs[a].phase = "idle" /\ begun' = begun
          /\ (jobs' = jobs \/ \E n : jobs' = [jobs EXCEPT ![a] = Job("locking", n, FALSE)])
      BY <2>1 DEF TakeRaise
    <3>2. CASE \E n : jobs' = [jobs EXCEPT ![a] = Job("locking", n, FALSE)]
      <4> PICK n : jobs' = [jobs EXCEPT ![a] = Job("locking", n, FALSE)]
        BY <3>2
      <4>1. b # a
        BY <1>0 DEF InRaise, Job
      <4> QED BY <1>0, <3>1, <4>1 DEF InRaise
    <3> QED BY <3>1, <3>2 DEF InRaise
  <2>2. CASE LockInVain(a) \/ CancelWait(a) \/ Terminate(a)
    <3>1. begun' = begun /\ jobs' = [jobs EXCEPT ![a] = NoJob]
      BY <2>2 DEF LockInVain, CancelWait, Terminate, Drop
    <3> QED BY <1>2, <3>1
  <2>3. CASE Elide(a)
    <3>1. raising = NoApp /\ jobs' = [jobs EXCEPT ![a] = NoJob]
      BY <2>3 DEF Elide, Drop
    <3> QED BY <1>2, <1>3, <3>1
  <2>4. CASE SeeFrontmost(a) \/ HearActivation(a)
    <3>1. begun' = begun /\ (jobs' = jobs \/ (jobs[a].phase = "waiting" /\ jobs' = Activated(a)))
      BY <2>4 DEF SeeFrontmost, HearActivation
    <3>2. CASE jobs[a].phase = "waiting" /\ jobs' = Activated(a)
      <4>1. jobs'[a] = [jobs[a] EXCEPT !.phase = "ordering"]
            /\ \A c \in App \ {a} : jobs'[c] = jobs[c]
        BY <1>0, <3>2 DEF Activated
      <4>2. jobs[a] \in JobRecord
        BY <3>2, WindowAt
      <4>3. jobs'[a].ask = jobs[a].ask /\ InRaise(a)
        BY <3>2, <4>1, <4>2 DEF JobRecord, InRaise
      <4> QED BY <3>1, <4>1, <4>3 DEF InRaise
    <3> QED BY <3>1, <3>2 DEF InRaise
  <2>5. CASE RaiseNext(a)
    <3>1. jobs[a].phase = "ordering" /\ begun' = begun
          /\ \/ jobs' = [jobs EXCEPT ![a] = NoJob]
             \/ jobs' = [jobs EXCEPT ![a].at = @ + 1]
      BY <2>5 DEF RaiseNext, Drop
    <3>2. CASE jobs' = [jobs EXCEPT ![a] = NoJob]
      BY <1>2, <3>1, <3>2
    <3>3. CASE jobs' = [jobs EXCEPT ![a].at = @ + 1]
      <4>1. jobs'[a] = [jobs[a] EXCEPT !.at = @ + 1]
            /\ \A c \in App \ {a} : jobs'[c] = jobs[c]
        BY <1>0, <3>3
      <4>2. jobs[a] \in JobRecord
        BY <3>1, WindowAt
      <4>3. jobs'[a].ask = jobs[a].ask /\ InRaise(a)
        BY <3>1, <4>1, <4>2 DEF JobRecord, InRaise
      <4> QED BY <3>1, <4>1, <4>3 DEF InRaise
    <3> QED BY <3>1, <3>2, <3>3
  <2> QED BY <1>5, <2>1, <2>2, <2>3, <2>4, <2>5 DEF ThreadStep
<1>6. CASE ManagerStep \/ Activate \/ (\E a \in App : HearMainWindow(a)) \/ (\E w \in Window : Close(w))
           \/ UNCHANGED appVars
  <2>1. UNCHANGED <<jobs, begun>>
    BY <1>6 DEF ManagerStep, Activate, HearMainWindow, Close, threadVars, appVars
  <2> QED BY <1>1, <2>1 DEF InRaise
<1> QED
  BY <1>1, <1>4, <1>5, <1>6 DEF AppNext, MacStep

-----------------------------------------------------------------------------
LEMMA AppInitHolds ==
    AppInit => Init /\ TypeOK /\ AsksApart /\ Carrying /\ LockHeld /\ RaisesInOrder
<1> SUFFICES ASSUME AppInit PROVE Init /\ TypeOK /\ AsksApart /\ Carrying /\ LockHeld /\ RaisesInOrder
  OBVIOUS
<1>1. Init /\ TypeOK
  BY TypeInit DEF AppInit
<1>2. AsksApart
  BY <1>1 DEF Init, AsksApart, Running, NoSequence
<1>3. jobs = [a \in App |-> NoJob] /\ raising = NoApp /\ taken = {} /\ begun = {}
      /\ scenario \in Scenarios /\ asked = {}
  BY <1>1 DEF AppInit, Init
<1>4. Carrying
  BY <1>3 DEF Carrying
<1>5. LockHeld
  BY <1>3, NoAppAssumption DEF LockHeld, NoJob
<1>6. RaisesInOrder
  BY <1>3 DEF RaisesInOrder
<1> QED BY <1>1, <1>2, <1>4, <1>5, <1>6

(* The invariant the rest follow from.                                     *)
LEMMA ThreadsCoherent == AppSpec => [](TypeOK /\ AsksApart /\ Carrying)
<1>1. TypeOK /\ AsksApart /\ Carrying /\ [AppNext]_appVars => (TypeOK /\ AsksApart /\ Carrying)'
  BY StepsAllowed, TypeStep, AsksApartStep, CarryingStep
<1> QED BY <1>1, AppInitHolds, PTL DEF AppSpec

(* The threads and macOS keep the raise manager's contract: whatever they  *)
(* do is a behaviour of the manager's specification, so that all that is   *)
(* proved of the manager holds with the real threads.                      *)
THEOREM ManagerImplemented == AppSpec => ImplementsManager
<1>1. TypeOK /\ AsksApart /\ Carrying /\ [AppNext]_appVars => [Next]_vars
  BY StepsAllowed
<1>2. AppInit => Init
  BY DEF AppInit
<1>3. AppSpec => Spec
  BY <1>1, <1>2, ThreadsCoherent, PTL DEF AppSpec, Spec
<1> QED BY <1>3 DEF ImplementsManager

(* RAISING is held exactly by the thread in the middle of a raise: neither *)
(* a cancelled wait, nor a window that is gone, nor an application that    *)
(* quits leaves it locked.                                                 *)
THEOREM LockIsHeld == AppSpec => []LockHeld
<1> QED BY AppInitHolds, ThreadsCoherent, LockHeldStep, PTL DEF AppSpec

(* Across all applications raises happen in the order the manager asked:   *)
(* none of a later sequence comes before one still under way, and none     *)
(* given up comes after the one it was given up for.                       *)
THEOREM RaisesOrdered == AppSpec => []RaisesInOrder
<1>1. AppSpec => Spec
  BY ManagerImplemented DEF ImplementsManager
<1>2. AppSpec => []NoOrphanRaise /\ []FocusLast
  BY <1>1, NoOrphan, FocusComesLast
<1> QED
  BY <1>2, AppInitHolds, ThreadsCoherent, LockIsHeld, RaisesInOrderStep, PTL DEF AppSpec
=============================================================================
