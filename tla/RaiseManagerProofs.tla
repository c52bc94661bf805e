------------------------- MODULE RaiseManagerProofs -------------------------
(***************************************************************************)
(* The raise manager's safety properties, for every set of windows,        *)
(* applications and requests and any number of requests sent.              *)
(***************************************************************************)
EXTENDS RaiseManager, TLAPS

(* Range of a sequence holds its elements, and all of them.                *)
LEMMA RangeElements ==
    ASSUME NEW S, NEW s \in Seq(S)
    PROVE  /\ Range(s) \subseteq S
           /\ \A i \in 1..Len(s) : s[i] \in Range(s)
           /\ \A x \in Range(s) : \E i \in 1..Len(s) : s[i] = x
BY DEF Range

(* A batch's windows, and its last, are windows of one application.        *)
LEMMA BatchElements ==
    ASSUME NEW b \in Batch
    PROVE  /\ b \in Seq(Window) /\ Len(b) \in Nat \ {0}
           /\ Range(b) \subseteq Window /\ b[1] \in Range(b)
           /\ AppOf[b[1]] \in App
<1>1. b \in Seq(Window) /\ b # <<>>
  BY DEF Batch
<1>2. Len(b) \in Nat \ {0}
  BY <1>1
<1>3. Range(b) \subseteq Window /\ b[1] \in Range(b)
  BY <1>1, <1>2, RangeElements
<1> QED
  BY <1>1, <1>2, <1>3, AppOfAssumption

(* Moving a window of a batch last leaves a batch of the same windows.     *)
LEMMA SwapLastBatch ==
    ASSUME NEW b \in Batch, NEW w \in Range(b)
    PROVE  SwapLast(b, w) \in Batch /\ Range(SwapLast(b, w)) = Range(b)
<1> DEFINE i == CHOOSE k \in DOMAIN b : b[k] = w
           n == Len(b)
           c == [b EXCEPT ![i] = b[n], ![n] = w]
<1>1. b \in Seq(Window) /\ n \in Nat \ {0} /\ DOMAIN b = 1..n
  BY BatchElements
<1>2. i \in 1..n /\ b[i] = w
  <2>1. \E k \in DOMAIN b : b[k] = w
    BY <1>1 DEF Range
  <2> QED BY <2>1, <1>1
<1>3. c \in Seq(Window) /\ Len(c) = n /\ DOMAIN c = 1..n
  BY <1>1, <1>2
<1>4. \A k \in 1..n : c[k] = IF k = n THEN w ELSE IF k = i THEN b[n] ELSE b[k]
  BY <1>1, <1>2
<1>9. SwapLast(b, w) = c
  BY DEF SwapLast
<1> HIDE DEF i, c, n
<1>5. Range(c) = Range(b)
  <2>1. \A k \in 1..n : c[k] \in Range(b)
    BY <1>1, <1>2, <1>4 DEF Range
  <2>2. \A k \in 1..n : b[k] \in Range(c)
    <3> TAKE k \in 1..n
    <3>1. CASE k = i
      BY <3>1, <1>1, <1>2, <1>3, <1>4 DEF Range
    <3>2. CASE k = n
      BY <3>2, <1>1, <1>2, <1>3, <1>4 DEF Range
    <3>3. CASE k # i /\ k # n
      BY <3>3, <1>1, <1>2, <1>3, <1>4 DEF Range
    <3> QED BY <3>1, <3>2, <3>3
  <2> QED BY <2>1, <2>2, <1>1, <1>3 DEF Range
<1>6. IsInjective(c)
  <2>1. \A j, k \in 1..n : b[j] = b[k] => j = k
    BY <1>1 DEF Batch, IsInjective
  <2>2. \A j, k \in 1..n : c[j] = c[k] => j = k
    BY <2>1, <1>1, <1>2, <1>4
  <2> QED BY <2>2, <1>3 DEF IsInjective
<1>7. \A k \in 1..n : AppOf[c[k]] = AppOf[c[1]]
  BY <1>1, <1>2, <1>4 DEF Batch
<1>8. c \in Batch
  BY <1>3, <1>6, <1>7, <1>1 DEF Batch
<1> QED BY <1>5, <1>8, <1>9

(* What a request is made of.                                              *)
LEMMA RequestParts ==
    ASSUME NEW r \in Requests
    PROVE  /\ r.batches \in Seq(Batch) /\ r.handles \subseteq App
           /\ r.focus \in Window \cup {NoWindow}
           /\ \A i \in DOMAIN r.batches : i \in Nat \ {0} /\ r.batches[i] \in Batch
           /\ BatchWindows(r) \subseteq Window
           /\ \A i \in DOMAIN r.batches : Range(r.batches[i]) \subseteq BatchWindows(r)
           /\ Holding(r) \subseteq DOMAIN r.batches
           /\ \A i \in Holding(r) : r.focus \in Window /\ r.focus \in Range(r.batches[i])
<1>1. r \in RaiseRequest
  BY RequestsAssumption
<1>2. r.batches \in Seq(Batch) /\ r.handles \subseteq App /\ r.focus \in Window \cup {NoWindow}
  BY <1>1 DEF RaiseRequest
<1>3. \A i \in DOMAIN r.batches : i \in Nat \ {0} /\ r.batches[i] \in Batch
  BY <1>2
<1>4. \A i \in DOMAIN r.batches : Range(r.batches[i]) \subseteq Window
  BY <1>3, BatchElements
<1>5. Holding(r) \subseteq DOMAIN r.batches
  BY DEF Holding
<1>6. \A i \in Holding(r) : r.focus \in Range(r.batches[i])
  BY DEF Holding
<1> QED
  BY <1>2, <1>3, <1>4, <1>5, <1>6 DEF BatchWindows

(* The focus batch is a batch of windows the request names, or none.       *)
LEMMA FocusBatchOf ==
    ASSUME NEW r \in Requests
    PROVE  /\ FocusBatch(r) \in Batch \cup {<<>>}
           /\ FocusBatch(r) # <<>> =>
                Range(FocusBatch(r)) \subseteq BatchWindows(r) \cup ({r.focus} \ {NoWindow})
           /\ FocusBatch(r) # <<>> => Focuses(r)
           /\ Focuses(r) => FocusBatch(r) # <<>>
<1>1. CASE Holding(r) # {}
  <2> DEFINE i == CHOOSE k \in Holding(r) : TRUE
  <2>1. i \in Holding(r)
    BY <1>1
  <2>2. r.batches[i] \in Batch /\ r.focus \in Range(r.batches[i]) /\ r.focus \in Window
        /\ Range(r.batches[i]) \subseteq BatchWindows(r)
    BY <2>1, RequestParts
  <2>3. FocusBatch(r) = SwapLast(r.batches[i], r.focus)
    BY <1>1 DEF FocusBatch
  <2>4. SwapLast(r.batches[i], r.focus) \in Batch
        /\ Range(SwapLast(r.batches[i], r.focus)) = Range(r.batches[i])
    BY <2>2, SwapLastBatch
  <2>5. <<>> \notin Batch
    BY DEF Batch
  <2> QED BY <2>2, <2>3, <2>4, <2>5, NoWindowAssumption DEF Focuses
<1>2. CASE Holding(r) = {} /\ Focuses(r)
  <2>1. r.focus \in Window
    BY <1>2, RequestParts DEF Focuses
  <2>2. FocusBatch(r) = <<r.focus>>
    BY <1>2 DEF FocusBatch
  <2>3. <<r.focus>> \in Batch
    BY <2>1 DEF Batch, IsInjective
  <2>4. Range(<<r.focus>>) = {r.focus}
    BY <2>1 DEF Range
  <2> QED BY <1>2, <2>1, <2>2, <2>3, <2>4, NoWindowAssumption
<1>3. CASE Holding(r) = {} /\ ~Focuses(r)
  BY <1>3 DEF FocusBatch
<1> QED BY <1>1, <1>2, <1>3

-----------------------------------------------------------------------------
(* Types.                                                                  *)

(* What the head of the manager's channel carries, by its type.            *)
LEMMA InboxHead ==
    ASSUME TypeOK, inbox # <<>>
    PROVE  /\ Tail(inbox) \in Seq(RequestMsgs \cup RaiseMsgs)
           /\ Head(inbox) \in RequestMsgs \cup RaiseMsgs
           /\ Head(inbox).type = "request" => Head(inbox).n \in Nat /\ Head(inbox).req \in Requests
           /\ Head(inbox).type = "completed" =>
                Head(inbox).window \in Window /\ Head(inbox).id \in SequenceId
           /\ Head(inbox).type = "timeout" => Head(inbox).id \in SequenceId
<1>1. inbox \in Seq(RequestMsgs \cup RaiseMsgs) /\ inbox # <<>>
  BY DEF TypeOK
<1>2. Head(inbox) \in RequestMsgs \cup RaiseMsgs /\ Tail(inbox) \in Seq(RequestMsgs \cup RaiseMsgs)
  BY <1>1
<1> QED BY <1>2 DEF RequestMsgs, RaiseMsgs

LEMMA ReactorHead ==
    ASSUME TypeOK, reactor # <<>>
    PROVE  /\ Tail(reactor) \in Seq(RaiseMsgs \cup IdleMsgs)
           /\ Head(reactor) \in RaiseMsgs \cup IdleMsgs
           /\ Head(reactor).type = "idle" => Head(reactor).n \in Nat
           /\ Head(reactor).type # "idle" => Head(reactor) \in RaiseMsgs
<1>1. reactor \in Seq(RaiseMsgs \cup IdleMsgs) /\ reactor # <<>>
  BY DEF TypeOK
<1>2. Head(reactor) \in RaiseMsgs \cup IdleMsgs /\ Tail(reactor) \in Seq(RaiseMsgs \cup IdleMsgs)
  BY <1>1
<1> QED BY <1>2 DEF IdleMsgs, RaiseMsgs

(* A running sequence is a Sequence, and NoSequence is none.               *)
LEMMA ActiveType ==
    ASSUME TypeOK
    PROVE  /\ Running <=> active \in Sequence
           /\ ~Running <=> active = NoSequence
           /\ active.focus \in Window \cup {NoWindow} /\ active.pending \subseteq Window
           /\ active.gen \in Nat /\ active.batch \in Batch \cup {<<>>}
           /\ active.handles \subseteq App /\ active.id \in Nat
BY DEF TypeOK, Sequence, NoSequence, Running, SequenceId

(* What a request that starts becomes.                                     *)
LEMMA StartedType ==
    ASSUME TypeOK, NEW r \in Requests
    PROVE  /\ Started(r) \in Sequence \cup {NoSequence}
           /\ \A i \in Sendable(r) : i \in Nat \ {0} /\ r.batches[i] \in Batch
           /\ \A i \in Sendable(r) : Ask(nextId, 0, i, r.batches[i]) \in AskRecord
<1>1. \A i \in Sendable(r) : i \in Nat \ {0} /\ r.batches[i] \in Batch
  BY RequestParts DEF Sendable
<1>2. \A i \in Sendable(r) : Range(r.batches[i]) \subseteq Window
  BY <1>1, BatchElements
<1>3. FocusBatch(r) \in Batch \cup {<<>>}
  BY FocusBatchOf
<1>4. nextId \in SequenceId
  BY DEF TypeOK
<1>5. \A i \in Sendable(r) : Ask(nextId, 0, i, r.batches[i]) \in AskRecord
  BY <1>1, <1>4, BatchElements DEF Ask, AskRecord
<1>6. Started(r) \in Sequence \cup {NoSequence}
  BY <1>2, <1>3, <1>4, RequestParts DEF Started, Sequence
<1> QED BY <1>1, <1>5, <1>6

(* A sequence given up keeps its place, under a new token.                 *)
LEMMA GivenUpType ==
    ASSUME NEW s \in Sequence
    PROVE  /\ GivenUp(s) \in Sequence
           /\ GivenUp(s).id = s.id /\ GivenUp(s).gen = s.gen + 1
           /\ GivenUp(s).focus = s.focus /\ GivenUp(s).pending = {}
           /\ GivenUp(s).batch = s.batch
<1> DEFINE p == [s EXCEPT !.pending = {}]
           g == [p EXCEPT !.gen = p.gen + 1]
           t == [g EXCEPT !.timedOut = FALSE]
<1>1. p \in Sequence /\ p.id = s.id /\ p.gen = s.gen /\ p.focus = s.focus
      /\ p.pending = {} /\ p.batch = s.batch
  BY DEF Sequence
<1> HIDE DEF p
<1>2. g \in Sequence /\ g.id = p.id /\ g.gen = p.gen + 1 /\ g.focus = p.focus
      /\ g.pending = p.pending /\ g.batch = p.batch
  BY <1>1 DEF Sequence
<1> HIDE DEF g
<1>3. t \in Sequence /\ t.id = g.id /\ t.gen = g.gen /\ t.focus = g.focus
      /\ t.pending = g.pending /\ t.batch = g.batch
  BY <1>2 DEF Sequence
<1>4. GivenUp(s) = t
  BY DEF GivenUp, p, g, Sequence
<1> QED BY <1>1, <1>2, <1>3, <1>4

LEMMA TypeInit == Init => TypeOK
<1> SUFFICES ASSUME Init PROVE TypeOK
  OBVIOUS
<1>1. sent \in 0..MaxRequests /\ seen \in Nat /\ nextId \in SequenceId
  BY MaxRequestsAssumption DEF Init, SequenceId
<1>2. echo \in [windows : SUBSET Window, target : Window \cup {NoWindow},
               idle : BOOLEAN, believed : BOOLEAN]
  BY DEF Init
<1>3. inbox \in Seq(RequestMsgs \cup RaiseMsgs) /\ reactor \in Seq(RaiseMsgs \cup IdleMsgs)
  BY DEF Init
<1> QED BY <1>1, <1>2, <1>3 DEF Init, TypeOK

LEMMA TypeStep == TypeOK /\ [Next]_vars => TypeOK'
<1> SUFFICES ASSUME TypeOK, [Next]_vars PROVE TypeOK'
  OBVIOUS
<1>1. CASE \E r \in Requests : DispatchRaise(r)
  <2> PICK r \in Requests : DispatchRaise(r)
    BY <1>1
  <2>1. BatchWindows(r) \subseteq Window /\ r.focus \in Window \cup {NoWindow}
    BY RequestParts
  <2>2. RequestMsg(sent + 1, r) \in RequestMsgs /\ sent' \in 0..MaxRequests
    BY MaxRequestsAssumption DEF RequestMsg, RequestMsgs, TypeOK, DispatchRaise
  <2>3. echo' \in [windows : SUBSET Window, target : Window \cup {NoWindow},
                   idle : BOOLEAN, believed : BOOLEAN]
    BY <2>1 DEF DispatchRaise, Expect, TypeOK
  <2>4. inbox' \in Seq(RequestMsgs \cup RaiseMsgs)
    BY <2>2 DEF DispatchRaise, TypeOK
  <2> QED BY <2>2, <2>3, <2>4 DEF DispatchRaise, TypeOK, managerVars
<1>2. CASE RelayRaise
  <2>1. Head(reactor) \in RaiseMsgs /\ reactor' \in Seq(RaiseMsgs \cup IdleMsgs)
    BY <1>2, ReactorHead DEF RelayRaise
  <2>2. inbox' \in Seq(RequestMsgs \cup RaiseMsgs)
    BY <1>2, <2>1 DEF RelayRaise, TypeOK
  <2> QED BY <1>2, <2>1, <2>2 DEF RelayRaise, TypeOK, managerVars
<1>3. CASE TakeRaisesIdle
  BY <1>3, ReactorHead DEF TakeRaisesIdle, TypeOK, managerVars, EndsEcho
<1>4. CASE EchoLapses
  BY <1>4 DEF EchoLapses, TypeOK, managerVars
<1>5. CASE ReceiveRequest
  <2>1. inbox' \in Seq(RequestMsgs \cup RaiseMsgs) /\ Head(inbox).n \in Nat
        /\ Head(inbox).req \in Requests
    BY <1>5, InboxHead DEF ReceiveRequest, Overtaken, Receive
  <2>2. queued' \subseteq [n : Nat, req : Requests]
    BY <1>5, <2>1 DEF ReceiveRequest, Overtaken, Kept, TypeOK
  <2>3. active.focus # NoWindow => active \in Sequence
    BY DEF TypeOK, NoSequence
  <2>4. active' \in Sequence \cup {NoSequence} /\ cancelled' \subseteq SequenceId \X Nat
    BY <1>5, <2>3 DEF ReceiveRequest, Overtaken, TypeOK, Revoked, Token, Sequence
  <2> QED BY <1>5, <2>1, <2>2, <2>4 DEF ReceiveRequest, Overtaken, Receive, TypeOK
<1>6. CASE ReceiveCompleted
  <2>1. inbox' \in Seq(RequestMsgs \cup RaiseMsgs) /\ Head(inbox).id \in SequenceId
    BY <1>6, InboxHead DEF ReceiveCompleted, Receive
  <2>2. CASE Head(inbox).id = active.id
    <3>1. active \in Sequence
      BY <2>1, <2>2 DEF TypeOK, NoSequence, SequenceId
    <3>2. active' = [active EXCEPT !.pending = @ \ {Head(inbox).window}]
      BY <1>6, <2>2 DEF ReceiveCompleted
    <3>3. active' \in Sequence
      BY <3>1, <3>2 DEF Sequence
    <3> QED BY <1>6, <2>1, <3>3 DEF ReceiveCompleted, Receive, TypeOK
  <2>3. CASE Head(inbox).id # active.id
    BY <1>6, <2>1, <2>3 DEF ReceiveCompleted, Receive, TypeOK
  <2> QED BY <2>2, <2>3
<1>7. CASE ReceiveTimeout
  <2>1. inbox' \in Seq(RequestMsgs \cup RaiseMsgs) /\ Head(inbox).id \in SequenceId
    BY <1>7, InboxHead DEF ReceiveTimeout, Receive
  <2>2. Head(inbox).id = active.id => active \in Sequence
    BY <2>1 DEF TypeOK, NoSequence, SequenceId
  <2>3. active' \in Sequence \cup {NoSequence}
    BY <1>7, <2>2, GivenUpType DEF ReceiveTimeout, TypeOK
  <2>4. Head(inbox).id = active.id => Token(active) \in SequenceId \X Nat
    BY <2>2 DEF Token, Sequence
  <2>5. cancelled' \subseteq SequenceId \X Nat
    BY <1>7, <2>4 DEF ReceiveTimeout, Revoked, TypeOK
  <2> QED BY <1>7, <2>1, <2>3, <2>5 DEF ReceiveTimeout, Receive, TypeOK
<1>8. CASE AskFocus
  <2>1. active \in Sequence /\ active.batch \in Batch
    BY <1>8, ActiveType DEF AskFocus, FocusDue
  <2>2. Range(active.batch) \subseteq Window /\ AppOf[active.batch[1]] \in App
    BY <2>1, BatchElements
  <2>3. active' \in Sequence \cup {NoSequence}
    BY <1>8, <2>1, <2>2 DEF AskFocus, Sequence
  <2>4. Ask(active.id, active.gen, 0, active.batch) \in AskRecord
    BY <2>1, <2>2 DEF Ask, AskRecord, Sequence
  <2> QED BY <1>8, <2>3, <2>4 DEF AskFocus, TypeOK
<1>9. CASE Finish
  BY <1>9 DEF Finish, TypeOK
<1>10. CASE StartNext
  <2> PICK q \in queued :
        /\ queued' = queued \ {q}
        /\ active' = Started(q.req)
        /\ asked' = asked \cup { Ask(nextId, 0, i, q.req.batches[i]) : i \in Sendable(q.req) }
    BY <1>10 DEF StartNext
  <2>1. q.req \in Requests
    BY DEF TypeOK
  <2>2. active' \in Sequence \cup {NoSequence} /\ asked' \subseteq AskRecord
    BY <2>1, StartedType DEF TypeOK
  <2>3. nextId' \in SequenceId
    BY <1>10 DEF StartNext, TypeOK, SequenceId
  <2> QED BY <1>10, <2>2, <2>3 DEF StartNext, TypeOK
<1>11. CASE Settle
  <2>1. IdleMsg(seen) \in IdleMsgs
    BY DEF TypeOK, IdleMsg, IdleMsgs
  <2>2. reactor' \in Seq(RaiseMsgs \cup IdleMsgs)
    BY <1>11, <2>1 DEF Settle, TypeOK
  <2>3. wasBusy' \in BOOLEAN
    BY <1>11 DEF Settle, IsBusy
  <2> QED BY <1>11, <2>2, <2>3 DEF Settle, TypeOK
<1>12. CASE TimerFires
  <2>1. active \in Sequence
    BY <1>12, ActiveType DEF TimerFires
  <2>2. TimeoutMsg(active.id, active.batch = <<>>) \in RaiseMsgs
    BY <2>1 DEF TimeoutMsg, RaiseMsgs, Sequence
  <2>3. active' \in Sequence
    BY <1>12, <2>1 DEF TimerFires, Sequence
  <2>4. reactor' \in Seq(RaiseMsgs \cup IdleMsgs)
    BY <1>12, <2>2 DEF TimerFires, TypeOK
  <2> QED BY <1>12, <2>3, <2>4 DEF TimerFires, TypeOK
<1>13. CASE Apps
  <2> PICK m \in asked : \E w \in Range(m.windows) : AppCompletes(m, w)
    BY <1>13 DEF Apps
  <2> PICK w \in Range(m.windows) : AppCompletes(m, w)
    OBVIOUS
  <2>1. w \in Window /\ m.id \in SequenceId
    BY BatchElements DEF TypeOK, AskRecord
  <2>2. CompletedMsg(w, m.id) \in RaiseMsgs
    BY <2>1 DEF CompletedMsg, RaiseMsgs
  <2>3. reactor' \in Seq(RaiseMsgs \cup IdleMsgs) /\ answered' \subseteq Window \X SequenceId
    BY <2>1, <2>2 DEF AppCompletes, TypeOK
  <2> QED BY <2>3 DEF AppCompletes, TypeOK, managerVars
<1>14. CASE \E a \in App : ThreadEnds(a)
  BY <1>14 DEF ThreadEnds, TypeOK, managerVars
<1>15. CASE UNCHANGED vars
  BY <1>15 DEF vars, managerVars, TypeOK
<1> QED
  BY <1>1, <1>2, <1>3, <1>4, <1>5, <1>6, <1>7, <1>8, <1>9, <1>10, <1>11, <1>12, <1>13, <1>14, <1>15
     DEF Next, Relay, Receives, Loops

(* The state stays well formed, whatever the requests and the answers.     *)
THEOREM TypeCorrect == Spec => []TypeOK
BY TypeInit, TypeStep, PTL DEF Spec

-----------------------------------------------------------------------------
(* The strengthening.  Tokens: a cancelled token is of a sequence already  *)
(* started, and not the one the running sequence holds.                    *)
Tokens ==
    /\ Running => active.id < nextId
    /\ \A t \in cancelled :
         t[1] < nextId /\ (t[1] = active.id => t[2] < active.gen)

LEMMA TokensStep == TypeOK /\ Tokens /\ [Next]_vars => Tokens'
<1> SUFFICES ASSUME TypeOK, Tokens, [Next]_vars PROVE Tokens'
  OBVIOUS
<1> USE DEF SequenceId
<1>1. CASE UNCHANGED <<active, nextId, cancelled>>
  BY <1>1 DEF Tokens, Running
<1>2. CASE ReceiveRequest
  <2>1. CASE active' = NoSequence /\ cancelled' = Revoked /\ active.focus # NoWindow
    <3>1. Running /\ active.id < nextId /\ active.id \in Nat
      BY <2>1, ActiveType DEF NoSequence, Tokens
    <3>2. nextId' = nextId /\ active'.id = 0
      BY <1>2, <2>1 DEF ReceiveRequest, Overtaken, Receive, NoSequence
    <3>3. \A t \in cancelled' : t[1] < nextId' /\ t[1] # 0
      BY <2>1, <3>1, <3>2 DEF Revoked, Token, Tokens, TypeOK, Running
    <3> QED BY <3>2, <3>3 DEF Tokens, Running
  <2>2. CASE UNCHANGED <<active, cancelled>>
    BY <1>2, <2>2, <1>1 DEF ReceiveRequest, Overtaken, Receive
  <2> QED BY <1>2, <2>1, <2>2 DEF ReceiveRequest, Overtaken
<1>3. CASE ReceiveCompleted
  <2>1. active'.id = active.id /\ active'.gen = active.gen
    BY <1>3, ActiveType DEF ReceiveCompleted, Sequence, NoSequence
  <2> QED BY <1>3, <2>1 DEF ReceiveCompleted, Receive, Tokens, Running
<1>4. CASE ReceiveTimeout
  <2>1. CASE Head(inbox).id = active.id
    <3>1. active \in Sequence
      BY <1>4, <2>1, InboxHead, ActiveType DEF ReceiveTimeout, Receive, NoSequence
    <3>2. active' = GivenUp(active) /\ cancelled' = Revoked /\ nextId' = nextId
      BY <1>4, <2>1 DEF ReceiveTimeout, Receive
    <3>3. active'.id = active.id /\ active'.gen = active.gen + 1
      BY <3>1, <3>2 DEF GivenUp, Sequence
    <3>4. active.id < nextId /\ active.gen \in Nat
      BY <3>1, ActiveType DEF Tokens
    <3>5. \A t \in cancelled : t[2] \in Nat
      BY DEF TypeOK
    <3> QED BY <3>2, <3>3, <3>4, <3>5 DEF Tokens, Running, Revoked, Token
  <2>2. CASE Head(inbox).id # active.id
    BY <1>4, <2>2, <1>1 DEF ReceiveTimeout, Receive
  <2> QED BY <2>1, <2>2
<1>5. CASE AskFocus \/ Finish
  <2>1. active' = NoSequence \/ (active'.id = active.id /\ active'.gen = active.gen)
    BY <1>5, ActiveType DEF AskFocus, Finish, Sequence, NoSequence
  <2>2. \A t \in cancelled : t[1] # 0
    BY DEF TypeOK
  <2> QED BY <1>5, <2>1, <2>2 DEF AskFocus, Finish, Tokens, Running, NoSequence
<1>6. CASE StartNext
  <2> PICK q \in queued : active' = Started(q.req)
    BY <1>6 DEF StartNext
  <2>1. active' = NoSequence \/ active'.id = nextId
    BY DEF Started
  <2>2. nextId' = nextId + 1 /\ cancelled' = cancelled /\ nextId \in Nat
    BY <1>6 DEF StartNext, TypeOK
  <2>3. \A t \in cancelled : t[1] # 0 /\ t[1] < nextId /\ t[1] \in Nat
    BY DEF TypeOK, Tokens
  <2> QED BY <2>1, <2>2, <2>3 DEF Tokens, Running, NoSequence
<1>7. CASE TimerFires
  <2>1. active'.id = active.id /\ active'.gen = active.gen
    BY <1>7, ActiveType DEF TimerFires, Sequence
  <2> QED BY <1>7, <2>1 DEF TimerFires, Tokens, Running
<1>8. CASE Apps
  BY <1>8, <1>1 DEF Apps, AppCompletes, managerVars
<1> QED
  BY <1>1, <1>2, <1>3, <1>4, <1>5, <1>6, <1>7, <1>8
     DEF Next, Relay, Receives, Loops, DispatchRaise, RelayRaise, TakeRaisesIdle, EchoLapses, ThreadEnds,
         Settle, managerVars, vars

(* A running sequence's next raise is never rejected as cancelled.         *)
THEOREM TokenLive == Spec => []LiveToken
<1>1. Init => Tokens
  BY DEF Init, Tokens, Running, NoSequence
<1>2. TypeOK /\ Tokens => LiveToken
  BY ActiveType DEF Tokens, LiveToken, Token, Running, TypeOK
<1> QED BY <1>1, <1>2, TokensStep, TypeCorrect, PTL DEF Spec

-----------------------------------------------------------------------------
(* Of the requests alive one at most focuses: inductive as it stands.      *)
LEMMA OneFocusStep == TypeOK /\ OneFocusAlive /\ [Next]_vars => OneFocusAlive'
<1> SUFFICES ASSUME TypeOK, OneFocusAlive, [Next]_vars PROVE OneFocusAlive'
  OBVIOUS
<1>1. CASE queued' = queued /\ (active'.focus = active.focus \/ active'.focus = NoWindow)
  BY <1>1 DEF OneFocusAlive
<1>2. CASE ReceiveRequest
  <2> DEFINE r == Head(inbox).req
             e == [n |-> Head(inbox).n, req |-> r]
  <2>1. queued' = Kept(r) \cup {e} /\ e.req = r
    BY <1>2 DEF ReceiveRequest, Overtaken
  <2>2. CASE Focuses(r)
    <3>1. \A q \in queued' : Focuses(q.req) => q = e
      BY <2>1, <2>2 DEF Kept
    <3>2. active'.focus = NoWindow
      BY <1>2, <2>2 DEF ReceiveRequest, Overtaken, NoSequence
    <3> QED BY <3>1, <3>2 DEF OneFocusAlive
  <2>3. CASE ~Focuses(r)
    <3>1. active' = active
      BY <1>2, <2>3 DEF ReceiveRequest, Overtaken
    <3>2. \A q \in queued' : Focuses(q.req) => q \in queued
      BY <2>1, <2>3 DEF Kept
    <3> QED BY <3>1, <3>2 DEF OneFocusAlive
  <2> QED BY <2>2, <2>3
<1>3. CASE StartNext
  <2> PICK q \in queued : queued' = queued \ {q} /\ active' = Started(q.req)
    BY <1>3 DEF StartNext
  <2>1. active'.focus = q.req.focus \/ active'.focus = NoWindow
    BY DEF Started, NoSequence
  <2> QED BY <2>1 DEF OneFocusAlive, Focuses
<1>4. CASE ReceiveCompleted \/ ReceiveTimeout \/ AskFocus \/ Finish \/ TimerFires
  <2>1. active'.focus = active.focus \/ active'.focus = NoWindow
    <3>1. CASE ReceiveCompleted
      BY <3>1, ActiveType DEF ReceiveCompleted, Sequence, NoSequence
    <3>2. CASE TimerFires
      BY <3>2, ActiveType DEF TimerFires, Sequence
    <3>3. CASE AskFocus
      <4>1. active \in Sequence
        BY <3>3, ActiveType DEF AskFocus
      <4>2. active' = NoSequence
              \/ active' = [active EXCEPT !.pending = Range(active.batch), !.batch = <<>>]
        BY <3>3 DEF AskFocus
      <4>3. NoSequence.focus = NoWindow
        BY DEF NoSequence
      <4> QED BY <4>1, <4>2, <4>3 DEF Sequence
    <3>5. CASE Finish
      BY <3>5 DEF Finish, NoSequence
    <3>4. CASE ReceiveTimeout
      <4>1. Head(inbox).id = active.id => active \in Sequence
        BY <3>4, InboxHead, ActiveType DEF ReceiveTimeout, Receive, NoSequence, SequenceId
      <4> QED BY <3>4, <4>1, GivenUpType DEF ReceiveTimeout
    <3> QED BY <1>4, <3>1, <3>2, <3>3, <3>4, <3>5
  <2> QED BY <1>1, <1>4, <2>1
       DEF ReceiveCompleted, ReceiveTimeout, AskFocus, Finish, TimerFires
<1>5. CASE Apps
  BY <1>5, <1>1 DEF Apps, AppCompletes, managerVars
<1> QED
  BY <1>1, <1>2, <1>3, <1>4, <1>5
     DEF Next, Relay, Receives, Loops, DispatchRaise, RelayRaise, TakeRaisesIdle, EchoLapses, ThreadEnds,
         Settle, managerVars, vars

(* Presses made while a raise runs never leave an older focus waiting.     *)
THEOREM OneFocus == Spec => []OneFocusAlive
<1>1. Init => OneFocusAlive
  BY DEF Init, OneFocusAlive
<1> QED BY <1>1, OneFocusStep, TypeCorrect, PTL DEF Spec

-----------------------------------------------------------------------------
(* Requests are numbered as they are sent and received in that order; an   *)
(* idle report names how many had been received, and none was left then.   *)
Numbered ==
    /\ seen <= sent
    /\ \A i \in 1..Len(inbox) : inbox[i].type = "request" =>
         seen < inbox[i].n /\ inbox[i].n <= sent
    /\ \A i, j \in 1..Len(inbox) :
         i < j /\ inbox[i].type = "request" /\ inbox[j].type = "request"
           => inbox[i].n < inbox[j].n

IdleReports ==
    /\ \A i \in 1..Len(reactor) : reactor[i].type = "idle" =>
         reactor[i].n <= seen /\ (reactor[i].n = seen => ~IsBusy)
    /\ EchoIdleSound

LEMMA TailElements ==
    ASSUME NEW S, NEW s \in Seq(S), s # <<>>
    PROVE  /\ Tail(s) \in Seq(S) /\ Len(Tail(s)) = Len(s) - 1 /\ Len(s) \in Nat \ {0}
           /\ \A i \in 1..Len(Tail(s)) : i + 1 \in 1..Len(s) /\ Tail(s)[i] = s[i + 1]
           /\ Head(s) = s[1] /\ 1 \in 1..Len(s)
OBVIOUS

LEMMA AppendElements ==
    ASSUME NEW S, NEW s \in Seq(S), NEW e \in S
    PROVE  /\ Append(s, e) \in Seq(S) /\ Len(Append(s, e)) = Len(s) + 1 /\ Len(s) \in Nat
           /\ \A i \in 1..Len(s) : Append(s, e)[i] = s[i]
           /\ Append(s, e)[Len(s) + 1] = e
OBVIOUS

LEMMA NumberedStep == TypeOK /\ Numbered /\ [Next]_vars => Numbered'
<1> SUFFICES ASSUME TypeOK, Numbered, [Next]_vars PROVE Numbered'
  OBVIOUS
<1> DEFINE Msgs == RequestMsgs \cup RaiseMsgs
<1>0. inbox \in Seq(Msgs) /\ seen \in Nat /\ sent \in Nat /\ Len(inbox) \in Nat
      /\ (\A i \in 1..Len(inbox) : inbox[i] \in Msgs)
      /\ (\A m \in Msgs : m.type = "request" => m.n \in Nat)
  BY DEF TypeOK, RequestMsgs, RaiseMsgs
<1> HIDE DEF Msgs
<1>1. CASE UNCHANGED <<inbox, seen, sent>>
  BY <1>1 DEF Numbered
<1>2. CASE \E r \in Requests : DispatchRaise(r)
  <2> PICK r \in Requests : DispatchRaise(r)
    BY <1>2
  <2> DEFINE e == RequestMsg(sent + 1, r)
  <2>1. e \in Msgs /\ e.type = "request" /\ e.n = sent + 1
    BY <1>0 DEF RequestMsg, RequestMsgs, Msgs
  <2>2. inbox' = Append(inbox, e) /\ seen' = seen /\ sent' = sent + 1
    BY DEF DispatchRaise, managerVars
  <2> HIDE DEF e
  <2>3. /\ Len(inbox') = Len(inbox) + 1 /\ inbox'[Len(inbox) + 1] = e
        /\ \A i \in 1..Len(inbox) : inbox'[i] = inbox[i]
    BY <1>0, <2>1, <2>2, AppendElements
  <2> QED BY <1>0, <2>1, <2>2, <2>3 DEF Numbered
<1>3. CASE RelayRaise
  <2> DEFINE e == Head(reactor)
  <2>1. e \in Msgs /\ e.type # "request"
    BY <1>3, ReactorHead DEF RelayRaise, Msgs, RaiseMsgs
  <2>2. inbox' = Append(inbox, e) /\ seen' = seen /\ sent' = sent
    BY <1>3 DEF RelayRaise, managerVars
  <2> HIDE DEF e
  <2>3. /\ Len(inbox') = Len(inbox) + 1 /\ inbox'[Len(inbox) + 1] = e
        /\ \A i \in 1..Len(inbox) : inbox'[i] = inbox[i]
    BY <1>0, <2>1, <2>2, AppendElements
  <2> QED BY <1>0, <2>1, <2>2, <2>3 DEF Numbered
<1>4. CASE Receives
  <2>1. inbox # <<>> /\ inbox' = Tail(inbox) /\ sent' = sent
    BY <1>4 DEF Receives, ReceiveRequest, Overtaken, ReceiveCompleted, ReceiveTimeout, Receive
  <2>2. /\ Len(inbox') = Len(inbox) - 1 /\ Head(inbox) = inbox[1] /\ 1 \in 1..Len(inbox)
        /\ \A i \in 1..Len(inbox') : i + 1 \in 1..Len(inbox) /\ inbox'[i] = inbox[i + 1]
    BY <1>0, <2>1, TailElements
  <2>3. CASE ReceiveRequest
    <3>1. seen' = seen + 1 /\ inbox[1].type = "request"
      BY <2>2, <2>3 DEF ReceiveRequest, Overtaken, Receive
    <3>2. seen < inbox[1].n /\ inbox[1].n <= sent /\ inbox[1].n \in Nat
      BY <1>0, <2>2, <3>1 DEF Numbered
    <3>3. \A i \in 1..Len(inbox') : inbox'[i].type = "request" => inbox[1].n < inbox'[i].n
      BY <1>0, <2>2, <3>1 DEF Numbered
    <3>4. \A i \in 1..Len(inbox') : inbox'[i].type = "request" =>
            inbox'[i].n <= sent /\ inbox'[i].n \in Nat
      BY <1>0, <2>2 DEF Numbered
    <3>5. \A i, j \in 1..Len(inbox') :
            i < j /\ inbox'[i].type = "request" /\ inbox'[j].type = "request"
              => inbox'[i].n < inbox'[j].n
      <4> TAKE i, j \in 1..Len(inbox')
      <4>1. i \in Nat /\ j \in Nat /\ i + 1 \in 1..Len(inbox) /\ j + 1 \in 1..Len(inbox)
            /\ inbox'[i] = inbox[i + 1] /\ inbox'[j] = inbox[j + 1]
        BY <1>0, <2>2
      <4>2. i < j => i + 1 < j + 1
        BY <4>1
      <4> QED BY <4>1, <4>2 DEF Numbered
    <3> QED BY <1>0, <2>1, <3>1, <3>2, <3>3, <3>4, <3>5 DEF Numbered
  <2>4. CASE seen' = seen
    BY <1>0, <2>1, <2>2, <2>4 DEF Numbered
  <2> QED BY <1>4, <2>3, <2>4 DEF Receives, ReceiveCompleted, ReceiveTimeout
<1>5. CASE Apps
  BY <1>5, <1>1 DEF Apps, AppCompletes, managerVars
<1> QED
  BY <1>1, <1>2, <1>3, <1>4, <1>5
     DEF Next, Relay, Loops, TakeRaisesIdle, EchoLapses, ThreadEnds, AskFocus, Finish, StartNext, Settle,
         TimerFires, managerVars, vars

(* Only a request makes an idle manager busy.                              *)
LEMMA StaysIdle ==
    ASSUME TypeOK, [Next]_vars, ~ReceiveRequest, ~IsBusy
    PROVE  ~IsBusy'
<1>1. active = NoSequence /\ queued = {}
  BY ActiveType DEF IsBusy
<1>2. CASE UNCHANGED <<active, queued>>
  BY <1>1, <1>2 DEF IsBusy, Running, NoSequence
<1>3. CASE ReceiveCompleted
  <2>1. Head(inbox).id # active.id
    BY <1>1, <1>3, InboxHead DEF ReceiveCompleted, Receive, NoSequence, SequenceId
  <2> QED BY <1>2, <1>3, <2>1 DEF ReceiveCompleted
<1>4. CASE ReceiveTimeout
  <2>1. Head(inbox).id # active.id
    BY <1>1, <1>4, InboxHead DEF ReceiveTimeout, Receive, NoSequence, SequenceId
  <2> QED BY <1>2, <1>4, <2>1 DEF ReceiveTimeout
<1>5. CASE Apps
  BY <1>5, <1>2 DEF Apps, AppCompletes, managerVars
<1> QED
  BY <1>1, <1>2, <1>3, <1>4, <1>5
     DEF Next, Relay, Receives, Loops, DispatchRaise, RelayRaise, TakeRaisesIdle, EchoLapses, ThreadEnds,
         AskFocus, Finish, StartNext, Settle, TimerFires, managerVars, vars, IsBusy

LEMMA IdleReportsStep == TypeOK /\ Numbered /\ IdleReports /\ [Next]_vars => IdleReports'
<1> SUFFICES ASSUME TypeOK, Numbered, IdleReports, [Next]_vars PROVE IdleReports'
  OBVIOUS
<1> DEFINE Msgs == RaiseMsgs \cup IdleMsgs
<1>0. reactor \in Seq(Msgs) /\ seen \in Nat /\ sent \in Nat /\ Len(reactor) \in Nat
      /\ (\A i \in 1..Len(reactor) : reactor[i] \in Msgs)
      /\ (\A m \in Msgs : m.type = "idle" => m.n \in Nat)
  BY DEF TypeOK, RaiseMsgs, IdleMsgs
<1> HIDE DEF Msgs
<1>1. CASE UNCHANGED <<reactor, seen, sent>> /\ echo'.idle = echo.idle /\ (~IsBusy => ~IsBusy')
  BY <1>1 DEF IdleReports, EchoIdleSound
<1>2. CASE \E r \in Requests : DispatchRaise(r)
  <2>1. echo'.idle = FALSE /\ UNCHANGED <<reactor, seen, active, queued>>
    BY <1>2 DEF DispatchRaise, Expect, managerVars
  <2> QED BY <2>1 DEF IdleReports, EchoIdleSound, IsBusy, Running
<1>3. CASE Relay
  <2>1. reactor # <<>> /\ reactor' = Tail(reactor)
        /\ UNCHANGED <<seen, sent, active, queued>>
    BY <1>3 DEF Relay, RelayRaise, TakeRaisesIdle, managerVars
  <2>2. /\ Len(reactor') = Len(reactor) - 1 /\ Head(reactor) = reactor[1] /\ 1 \in 1..Len(reactor)
        /\ \A i \in 1..Len(reactor') : i + 1 \in 1..Len(reactor) /\ reactor'[i] = reactor[i + 1]
    BY <1>0, <2>1, TailElements
  <2>3. echo'.idle => echo.idle \/ (Head(reactor).type = "idle" /\ Head(reactor).n >= sent)
    BY <1>3 DEF Relay, RelayRaise, TakeRaisesIdle, EndsEcho, TypeOK
  <2>4. Head(reactor).type = "idle" /\ Head(reactor).n >= sent => seen = sent /\ ~IsBusy
    BY <1>0, <2>2 DEF IdleReports, Numbered
  <2> QED BY <2>1, <2>2, <2>3, <2>4 DEF IdleReports, EchoIdleSound, IsBusy, Running
<1>4. CASE ReceiveRequest
  <2>1. seen' = seen + 1 /\ UNCHANGED <<reactor, echo, sent>> /\ inbox # <<>>
        /\ Head(inbox).type = "request"
    BY <1>4 DEF ReceiveRequest, Overtaken, Receive
  <2>2. seen < sent
    <3>1. Head(inbox) = inbox[1] /\ 1 \in 1..Len(inbox)
      BY <2>1, TailElements DEF TypeOK
    <3> QED BY <1>0, <2>1, <3>1, InboxHead DEF Numbered
  <2>3. ~echo.idle
    BY <1>0, <2>2 DEF IdleReports, EchoIdleSound
  <2>4. \A i \in 1..Len(reactor) : reactor[i].type = "idle" => reactor[i].n < seen'
    BY <1>0, <2>1 DEF IdleReports
  <2> QED BY <1>0, <2>1, <2>3, <2>4 DEF IdleReports, EchoIdleSound
<1>5. CASE Settle
  <2>1. UNCHANGED <<seen, sent, echo, active, queued>>
    BY <1>5 DEF Settle
  <2>2. CASE reactor' = reactor
    BY <2>1, <2>2 DEF IdleReports, EchoIdleSound, IsBusy, Running
  <2>3. CASE reactor' = Append(reactor, IdleMsg(seen)) /\ ~IsBusy
    <3>1. IdleMsg(seen) \in Msgs /\ IdleMsg(seen).n = seen
      BY <1>0 DEF IdleMsg, IdleMsgs, Msgs
    <3>2. /\ Len(reactor') = Len(reactor) + 1 /\ reactor'[Len(reactor) + 1] = IdleMsg(seen)
          /\ \A i \in 1..Len(reactor) : reactor'[i] = reactor[i]
      BY <1>0, <2>3, <3>1, AppendElements
    <3> QED BY <1>0, <2>1, <2>3, <3>1, <3>2 DEF IdleReports, EchoIdleSound, IsBusy, Running
  <2> QED BY <1>5, <2>2, <2>3 DEF Settle
<1>6. CASE TimerFires \/ Apps
  <2>1. UNCHANGED <<seen, sent, echo>>
    BY <1>6 DEF TimerFires, Apps, AppCompletes, managerVars
  <2>2. \E e \in RaiseMsgs : reactor' = Append(reactor, e)
    <3>1. CASE TimerFires
      <4>1. TimeoutMsg(active.id, active.batch = <<>>) \in RaiseMsgs
        BY <3>1, ActiveType DEF TimerFires, TimeoutMsg, RaiseMsgs, Sequence
      <4> QED BY <3>1, <4>1 DEF TimerFires
    <3>2. CASE Apps
      <4> PICK m \in asked : \E w \in Range(m.windows) : AppCompletes(m, w)
        BY <3>2 DEF Apps
      <4> PICK w \in Range(m.windows) : AppCompletes(m, w)
        OBVIOUS
      <4>1. CompletedMsg(w, m.id) \in RaiseMsgs
        BY BatchElements DEF CompletedMsg, RaiseMsgs, TypeOK, AskRecord
      <4> QED BY <4>1 DEF AppCompletes
    <3> QED BY <1>6, <3>1, <3>2
  <2> PICK e \in RaiseMsgs : reactor' = Append(reactor, e)
    BY <2>2
  <2>3. e \in Msgs /\ e.type # "idle"
    BY DEF Msgs, RaiseMsgs
  <2>4. /\ Len(reactor') = Len(reactor) + 1 /\ reactor'[Len(reactor) + 1] = e
        /\ \A i \in 1..Len(reactor) : reactor'[i] = reactor[i]
    BY <1>0, <2>3, AppendElements
  <2>5. ~IsBusy => ~IsBusy'
    <3>1. CASE TimerFires
      BY <3>1 DEF TimerFires, IsBusy
    <3>2. CASE Apps
      BY <3>2 DEF Apps, AppCompletes, managerVars, IsBusy, Running
    <3> QED BY <1>6, <3>1, <3>2
  <2> QED BY <1>0, <2>1, <2>3, <2>4, <2>5 DEF IdleReports, EchoIdleSound
<1>7. CASE ReceiveCompleted \/ ReceiveTimeout \/ AskFocus \/ Finish \/ StartNext
           \/ EchoLapses \/ (\E a \in App : ThreadEnds(a)) \/ UNCHANGED vars
  <2>1. UNCHANGED <<reactor, seen, sent>> /\ echo'.idle = echo.idle
    BY <1>7 DEF ReceiveCompleted, ReceiveTimeout, Receive, AskFocus, Finish, StartNext,
                EchoLapses, ThreadEnds, managerVars, vars, TypeOK
  <2>2. ~ReceiveRequest
    BY <1>0, <2>1 DEF ReceiveRequest, Overtaken
  <2>3. ~IsBusy => ~IsBusy'
    BY <2>2, StaysIdle
  <2> QED BY <1>1, <2>1, <2>3
<1> QED
  BY <1>2, <1>3, <1>4, <1>5, <1>6, <1>7 DEF Next, Receives, Loops

(* The echo of rini's own raises is never taken to be over early.          *)
THEOREM EchoIdle == Spec => []EchoIdleSound
<1>1. Init => Numbered /\ IdleReports
  BY DEF Init, Numbered, IdleReports, EchoIdleSound
<1>2. IdleReports => EchoIdleSound
  BY DEF IdleReports
<1> QED BY <1>1, <1>2, NumberedStep, IdleReportsStep, TypeCorrect, PTL DEF Spec

-----------------------------------------------------------------------------
(* A completion on its way names a window already answered for.            *)
Reported ==
    /\ \A i \in 1..Len(inbox) : inbox[i].type = "completed" =>
         <<inbox[i].window, inbox[i].id>> \in answered
    /\ \A i \in 1..Len(reactor) : reactor[i].type = "completed" =>
         <<reactor[i].window, reactor[i].id>> \in answered

LEMMA ReportedStep == TypeOK /\ Reported /\ [Next]_vars => Reported'
<1> SUFFICES ASSUME TypeOK, Reported, [Next]_vars PROVE Reported'
  OBVIOUS
<1> DEFINE In == RequestMsgs \cup RaiseMsgs
           Out == RaiseMsgs \cup IdleMsgs
           InOK == \A i \in 1..Len(inbox) : inbox[i].type = "completed" =>
                     <<inbox[i].window, inbox[i].id>> \in answered
           OutOK == \A i \in 1..Len(reactor) : reactor[i].type = "completed" =>
                     <<reactor[i].window, reactor[i].id>> \in answered
<1>0. inbox \in Seq(In) /\ reactor \in Seq(Out) /\ Len(inbox) \in Nat /\ Len(reactor) \in Nat
      /\ InOK /\ OutOK
  BY DEF TypeOK, Reported
<1>a. SUFFICES InOK' /\ OutOK'
  BY DEF Reported
<1> HIDE DEF In, Out
<1>1. answered \subseteq answered'
  BY DEF Next, Relay, Receives, Loops, Apps, DispatchRaise, RelayRaise, TakeRaisesIdle, EchoLapses, ThreadEnds,
         ReceiveRequest, Overtaken, ReceiveCompleted, ReceiveTimeout, Receive, AskFocus, Finish, StartNext,
         Settle, TimerFires, AppCompletes, managerVars, vars
<1>2. CASE inbox' = inbox /\ reactor' = reactor
  BY <1>0, <1>1, <1>2
<1>3. CASE \E r \in Requests : DispatchRaise(r)
  <2> PICK r \in Requests : DispatchRaise(r)
    BY <1>3
  <2> DEFINE e == RequestMsg(sent + 1, r)
  <2>1. e \in In /\ e.type # "completed"
    BY DEF RequestMsg, RequestMsgs, In, TypeOK
  <2>2. inbox' = Append(inbox, e) /\ reactor' = reactor
    BY DEF DispatchRaise
  <2> HIDE DEF e
  <2>3. /\ Len(inbox') = Len(inbox) + 1 /\ inbox'[Len(inbox) + 1] = e
        /\ \A i \in 1..Len(inbox) : inbox'[i] = inbox[i]
    BY <1>0, <2>1, <2>2, AppendElements
  <2> QED BY <1>0, <1>1, <2>1, <2>2, <2>3
<1>4. CASE Relay
  <2> DEFINE e == Head(reactor)
  <2>1. reactor # <<>> /\ reactor' = Tail(reactor) /\ answered' = answered
    BY <1>4 DEF Relay, RelayRaise, TakeRaisesIdle
  <2>2. /\ Len(reactor') = Len(reactor) - 1 /\ e = reactor[1] /\ 1 \in 1..Len(reactor)
        /\ \A i \in 1..Len(reactor') : i + 1 \in 1..Len(reactor) /\ reactor'[i] = reactor[i + 1]
    BY <1>0, <2>1, TailElements
  <2>3. OutOK'
    BY <1>0, <2>1, <2>2
  <2>4. CASE inbox' = inbox
    BY <1>0, <2>1, <2>3, <2>4
  <2>5. CASE RelayRaise
    <3>1. e \in In /\ inbox' = Append(inbox, e)
      BY <2>1, <2>5, ReactorHead DEF RelayRaise, In, RaiseMsgs, IdleMsgs
    <3>2. e.type = "completed" => <<e.window, e.id>> \in answered'
      BY <1>0, <2>1, <2>2
    <3> HIDE DEF e
    <3>3. /\ Len(inbox') = Len(inbox) + 1 /\ inbox'[Len(inbox) + 1] = e
          /\ \A i \in 1..Len(inbox) : inbox'[i] = inbox[i]
      BY <1>0, <3>1, AppendElements
    <3>4. \A i \in 1..Len(inbox') : i \in 1..Len(inbox) \/ i = Len(inbox) + 1
      BY <1>0, <3>3
    <3>5. InOK'
      <4> TAKE i \in 1..Len(inbox')
      <4>1. CASE i \in 1..Len(inbox)
        BY <4>1, <1>0, <2>1, <3>3
      <4>2. CASE i = Len(inbox) + 1
        BY <4>2, <3>2, <3>3
      <4> QED BY <4>1, <4>2, <3>4
    <3> QED BY <2>3, <3>5
  <2> QED BY <1>4, <2>4, <2>5 DEF Relay, TakeRaisesIdle
<1>5. CASE Receives
  <2>1. inbox # <<>> /\ inbox' = Tail(inbox) /\ reactor' = reactor /\ answered' = answered
    BY <1>5 DEF Receives, ReceiveRequest, Overtaken, ReceiveCompleted, ReceiveTimeout, Receive
  <2>2. /\ Len(inbox') = Len(inbox) - 1 /\ 1 \in 1..Len(inbox)
        /\ \A i \in 1..Len(inbox') : i + 1 \in 1..Len(inbox) /\ inbox'[i] = inbox[i + 1]
    BY <1>0, <2>1, TailElements
  <2> QED BY <1>0, <2>1, <2>2
<1>6. CASE inbox' = inbox /\ \E e \in Out : reactor' = Append(reactor, e)
             /\ (e.type = "completed" => <<e.window, e.id>> \in answered')
  <2> PICK e \in Out : reactor' = Append(reactor, e)
             /\ (e.type = "completed" => <<e.window, e.id>> \in answered')
    BY <1>6
  <2>1. /\ Len(reactor') = Len(reactor) + 1 /\ reactor'[Len(reactor) + 1] = e
        /\ \A i \in 1..Len(reactor) : reactor'[i] = reactor[i]
    BY <1>0, AppendElements
  <2>2. \A i \in 1..Len(reactor') : i \in 1..Len(reactor) \/ i = Len(reactor) + 1
    BY <1>0, <2>1
  <2>3. OutOK'
    <3> TAKE i \in 1..Len(reactor')
    <3>1. CASE i \in 1..Len(reactor)
      BY <3>1, <1>0, <1>1, <2>1
    <3>2. CASE i = Len(reactor) + 1
      BY <3>2, <2>1
    <3> QED BY <3>1, <3>2, <2>2
  <2> QED BY <1>0, <1>1, <1>6, <2>3
<1>7. CASE Settle
  <2>1. IdleMsg(seen) \in Out /\ IdleMsg(seen).type # "completed"
    BY DEF IdleMsg, IdleMsgs, Out, TypeOK
  <2> QED BY <1>2, <1>6, <1>7, <2>1 DEF Settle
<1>8. CASE TimerFires
  <2>1. TimeoutMsg(active.id, active.batch = <<>>) \in Out
        /\ TimeoutMsg(active.id, active.batch = <<>>).type # "completed"
    BY <1>8, ActiveType DEF TimerFires, TimeoutMsg, RaiseMsgs, Sequence, Out
  <2> QED BY <1>6, <1>8, <2>1 DEF TimerFires
<1>9. CASE Apps
  <2> PICK m \in asked : \E w \in Range(m.windows) : AppCompletes(m, w)
    BY <1>9 DEF Apps
  <2> PICK w \in Range(m.windows) : AppCompletes(m, w)
    OBVIOUS
  <2>1. CompletedMsg(w, m.id) \in Out
    BY BatchElements DEF CompletedMsg, RaiseMsgs, TypeOK, AskRecord, Out
  <2>2. <<CompletedMsg(w, m.id).window, CompletedMsg(w, m.id).id>> \in answered'
    BY DEF AppCompletes, CompletedMsg
  <2> QED BY <1>6, <2>1, <2>2 DEF AppCompletes
<1> QED
  BY <1>2, <1>3, <1>4, <1>5, <1>6, <1>7, <1>8, <1>9
     DEF Next, Loops, EchoLapses, ThreadEnds, AskFocus, Finish, StartNext, vars

-----------------------------------------------------------------------------
(* What the manager knows of a raise it asked for: of the running sequence *)
(* under the token it holds, each window is pending or answered for; under *)
(* an earlier token, it is cancelled; of another sequence, it is not live. *)
Known(m) ==
    /\ m.id < nextId
    /\ m.id = active.id => m.gen <= active.gen
    /\ m.id = active.id /\ m.gen < active.gen => <<m.id, m.gen>> \in cancelled
    /\ m.id = active.id /\ m.gen = active.gen =>
         \A w \in Range(m.windows) : w \in active.pending \/ <<w, m.id>> \in answered
    /\ m.id # active.id => ~Live(m)

AllKnown == \A m \in asked : Known(m)

(* With nothing pending, no raise of the running sequence is live.         *)
LEMMA NothingPending ==
    ASSUME TypeOK, AllKnown, active.pending = {}, NEW m \in asked
    PROVE  ~Live(m)
<1>1. m.gen \in Nat /\ active.gen \in Nat
  BY ActiveType DEF TypeOK, AskRecord
<1>2. Known(m)
  BY DEF AllKnown
<1>3. CASE m.id # active.id
  BY <1>2, <1>3 DEF Known
<1>4. CASE m.id = active.id /\ m.gen < active.gen
  BY <1>2, <1>4 DEF Known, Live
<1>5. CASE m.id = active.id /\ m.gen = active.gen
  <2>1. \A w \in Range(m.windows) : <<w, m.id>> \in answered
    BY <1>2, <1>5 DEF Known
  <2> QED BY <2>1 DEF Live
<1> QED BY <1>1, <1>2, <1>3, <1>4, <1>5 DEF Known

(* A raise no longer live stays so.                                        *)
LEMMA NeverLiveAgain ==
    ASSUME [Next]_vars, NEW m, ~Live(m)
    PROVE  ~Live(m)'
<1>1. cancelled \subseteq cancelled' /\ answered \subseteq answered'
  BY DEF Next, Relay, Receives, Loops, Apps, DispatchRaise, RelayRaise, TakeRaisesIdle, EchoLapses, ThreadEnds,
         ReceiveRequest, Overtaken, ReceiveCompleted, ReceiveTimeout, Receive, AskFocus, Finish, StartNext,
         Settle, TimerFires, AppCompletes, managerVars, vars, Revoked
<1> QED BY <1>1 DEF Live

(* The raises a starting sequence asks for are its own, of batches it      *)
(* waits for; a request that asks for none starts nothing it waits for.    *)
LEMMA StartedAsks ==
    ASSUME TypeOK, NEW r \in Requests, NEW i \in Sendable(r)
    PROVE  /\ Started(r).id = nextId /\ Started(r).gen = 0
           /\ Range(r.batches[i]) \subseteq Started(r).pending
<1> DEFINE pending == UNION { Range(r.batches[k]) : k \in Sendable(r) }
<1>1. r.batches[i] \in Batch
  BY StartedType
<1>2. r.batches[i][1] \in Range(r.batches[i])
  BY <1>1, BatchElements
<1>3. Range(r.batches[i]) \subseteq pending /\ pending # {}
  BY <1>2
<1> HIDE DEF pending
<1>4. Started(r) = [id |-> nextId, focus |-> r.focus, pending |-> pending,
                    batch |-> FocusBatch(r), handles |-> r.handles, gen |-> 0,
                    timedOut |-> FALSE]
  BY <1>3 DEF Started, pending
<1> QED BY <1>3, <1>4

LEMMA AllKnownStep == TypeOK /\ Tokens /\ Reported /\ AllKnown /\ [Next]_vars => AllKnown'
<1> SUFFICES ASSUME TypeOK, Tokens, Reported, AllKnown, [Next]_vars,
                    NEW m \in asked'
             PROVE  Known(m)'
  BY DEF AllKnown
<1>0. \A a \in asked : a.id \in Nat \ {0} /\ a.gen \in Nat /\ (~Live(a) => ~Live(a)')
  BY NeverLiveAgain DEF TypeOK, AskRecord, SequenceId
<1>a. active.gen \in Nat /\ active.id \in Nat /\ nextId \in Nat \ {0}
  BY ActiveType DEF TypeOK, SequenceId
<1>1. CASE m \in asked /\ UNCHANGED <<nextId, cancelled>> /\ answered \subseteq answered'
           /\ active'.id = active.id /\ active'.gen = active.gen
           /\ \A w \in active.pending : w \in active'.pending \/ <<w, active.id>> \in answered'
  BY <1>0, <1>1 DEF AllKnown, Known
<1>2. CASE m \in asked /\ nextId' \in Nat /\ nextId <= nextId' /\ ~Live(m)
           /\ active' = NoSequence
  BY <1>0, <1>a, <1>2 DEF AllKnown, Known, NoSequence
<1>3. CASE ReceiveRequest
  <2>1. m \in asked /\ nextId' = nextId /\ answered' = answered
    BY <1>3 DEF ReceiveRequest, Overtaken, Receive
  <2>2. CASE active' = NoSequence /\ cancelled' = Revoked
    <3>1. ~Live(m)'
      <4>1. Known(m) /\ m.gen \in Nat
        BY <1>0, <2>1 DEF AllKnown
      <4>2. CASE m.id # active.id
        BY <1>0, <2>1, <4>1, <4>2 DEF Known
      <4>3. CASE m.id = active.id
        <5>1. <<m.id, m.gen>> \in cancelled'
          BY <1>a, <2>2, <4>1, <4>3 DEF Known, Revoked, Token
        <5> QED BY <5>1 DEF Live
      <4> QED BY <4>2, <4>3
    <3> QED BY <1>0, <1>a, <2>1, <2>2, <3>1 DEF AllKnown, Known, NoSequence
  <2>3. CASE UNCHANGED <<active, cancelled>>
    BY <1>1, <2>1, <2>3
  <2> QED BY <1>3, <2>2, <2>3 DEF ReceiveRequest, Overtaken
<1>4. CASE ReceiveCompleted
  <2> DEFINE w == Head(inbox).window
  <2>1. m \in asked /\ UNCHANGED <<nextId, cancelled, answered>>
    BY <1>4 DEF ReceiveCompleted, Receive
  <2>2. <<w, Head(inbox).id>> \in answered
    <3>1. inbox # <<>> /\ Head(inbox).type = "completed"
      BY <1>4 DEF ReceiveCompleted, Receive
    <3>2. Head(inbox) = inbox[1] /\ 1 \in 1..Len(inbox)
      BY <3>1, TailElements DEF TypeOK
    <3> QED BY <3>1, <3>2 DEF Reported
  <2>3. CASE Head(inbox).id = active.id
    <3>1. active \in Sequence
      BY <1>4, <2>3, InboxHead, ActiveType DEF ReceiveCompleted, Receive, NoSequence, SequenceId
    <3>2. active' = [active EXCEPT !.pending = @ \ {w}]
      BY <1>4, <2>3 DEF ReceiveCompleted
    <3>3. active'.id = active.id /\ active'.gen = active.gen
          /\ active'.pending = active.pending \ {w}
      BY <3>1, <3>2 DEF Sequence
    <3> QED BY <1>1, <2>1, <2>2, <2>3, <3>3
  <2>4. CASE Head(inbox).id # active.id
    BY <1>1, <1>4, <2>1, <2>4 DEF ReceiveCompleted
  <2> QED BY <2>3, <2>4
<1>5. CASE ReceiveTimeout
  <2>1. m \in asked /\ UNCHANGED <<nextId, answered>>
    BY <1>5 DEF ReceiveTimeout, Receive
  <2>2. CASE Head(inbox).id = active.id
    <3>1. active \in Sequence
      BY <1>5, <2>2, InboxHead, ActiveType DEF ReceiveTimeout, Receive, NoSequence, SequenceId
    <3>2. active' = GivenUp(active) /\ cancelled' = Revoked
      BY <1>5, <2>2 DEF ReceiveTimeout
    <3>3. active'.id = active.id /\ active'.gen = active.gen + 1
      BY <3>1, <3>2, GivenUpType
    <3>4. m.id = active.id => m.gen <= active.gen /\ <<m.id, m.gen>> \in cancelled'
      BY <1>0, <1>a, <2>1, <3>2 DEF AllKnown, Known, Revoked, Token
    <3> QED BY <1>0, <1>a, <2>1, <3>3, <3>4 DEF AllKnown, Known
  <2>3. CASE Head(inbox).id # active.id
    BY <1>1, <1>5, <2>1, <2>3 DEF ReceiveTimeout
  <2> QED BY <2>2, <2>3
<1>6. CASE AskFocus
  <2>1. active \in Sequence /\ active.pending = {} /\ active.id < nextId
    BY <1>6, ActiveType DEF AskFocus, FocusDue, Tokens
  <2>2. UNCHANGED <<nextId, cancelled, answered>>
    BY <1>6 DEF AskFocus
  <2>3. CASE active' = NoSequence /\ asked' = asked
    BY <1>2, <1>a, <2>1, <2>2, <2>3, NothingPending
  <2>4. CASE /\ active' = [active EXCEPT !.pending = Range(active.batch), !.batch = <<>>]
             /\ asked' = asked \cup {Ask(active.id, active.gen, 0, active.batch)}
    <3>1. active'.id = active.id /\ active'.gen = active.gen
          /\ active'.pending = Range(active.batch)
      BY <2>1, <2>4 DEF Sequence
    <3>2. CASE m \in asked
      BY <1>1, <2>1, <2>2, <3>1, <3>2
    <3>3. CASE m = Ask(active.id, active.gen, 0, active.batch)
      <4>1. m.id = active.id /\ m.gen = active.gen /\ m.windows = active.batch
        BY <3>3 DEF Ask
      <4> QED BY <1>a, <2>1, <2>2, <3>1, <4>1 DEF Known
    <3> QED BY <2>4, <3>2, <3>3
  <2> QED BY <1>6, <2>3, <2>4 DEF AskFocus
<1>7. CASE Finish
  BY <1>2, <1>7, <1>a, NothingPending DEF Finish
<1>8. CASE StartNext
  <2> PICK q \in queued :
        /\ active' = Started(q.req)
        /\ asked' = asked \cup { Ask(nextId, 0, i, q.req.batches[i]) : i \in Sendable(q.req) }
    BY <1>8 DEF StartNext
  <2>1. q.req \in Requests
    BY DEF TypeOK
  <2>2. nextId' = nextId + 1 /\ UNCHANGED <<cancelled, answered>> /\ active = NoSequence
    BY <1>8, ActiveType DEF StartNext
  <2>3. active' = NoSequence \/ active'.id = nextId
    BY DEF Started
  <2>4. CASE m \in asked
    <3>1. ~Live(m) /\ m.id < nextId /\ m.id # 0
      BY <1>0, <2>2, <2>4 DEF AllKnown, Known, NoSequence
    <3> QED BY <1>0, <1>a, <2>2, <2>3, <2>4, <3>1 DEF Known, NoSequence
  <2>5. CASE m \notin asked
    <3> PICK i \in Sendable(q.req) : m = Ask(nextId, 0, i, q.req.batches[i])
      BY <2>5
    <3>1. m.id = nextId /\ m.gen = 0 /\ m.windows = q.req.batches[i]
      BY DEF Ask
    <3>2. active'.id = nextId /\ active'.gen = 0 /\ Range(m.windows) \subseteq active'.pending
      BY <2>1, <3>1, StartedAsks
    <3> QED BY <1>a, <2>2, <3>1, <3>2 DEF Known
  <2> QED BY <2>4, <2>5
<1>9. CASE TimerFires
  <2>1. active'.id = active.id /\ active'.gen = active.gen /\ active'.pending = active.pending
    BY <1>9, ActiveType DEF TimerFires, Sequence
  <2> QED BY <1>1, <1>9, <2>1 DEF TimerFires
<1>10. CASE Apps
  <2>1. answered \subseteq answered' /\ UNCHANGED <<active, nextId, cancelled, asked>>
    BY <1>10 DEF Apps, AppCompletes, managerVars
  <2> QED BY <1>1, <2>1
<1>11. CASE (\E r \in Requests : DispatchRaise(r)) \/ Relay \/ EchoLapses \/ Settle
            \/ (\E a \in App : ThreadEnds(a)) \/ UNCHANGED vars
  <2>1. UNCHANGED <<active, nextId, cancelled, asked, answered>>
    BY <1>11 DEF DispatchRaise, Relay, RelayRaise, TakeRaisesIdle, EchoLapses, ThreadEnds, Settle,
                 managerVars, vars
  <2> QED BY <1>1, <2>1
<1> QED
  BY <1>3, <1>4, <1>5, <1>6, <1>7, <1>8, <1>9, <1>10, <1>11 DEF Next, Receives, Loops

(* Every raise that may still be carried out is the running sequence's: a  *)
(* sequence leaves none behind, however it ends.                           *)
THEOREM NoOrphan == Spec => []NoOrphanRaise
<1>1. Init => Tokens /\ Reported /\ AllKnown
  BY DEF Init, Tokens, Reported, AllKnown, Running, NoSequence
<1>2. AllKnown => NoOrphanRaise
  BY DEF AllKnown, Known, NoOrphanRaise
<1> QED BY <1>1, <1>2, TokensStep, ReportedStep, AllKnownStep, TypeCorrect, PTL DEF Spec

-----------------------------------------------------------------------------
(* The focus window is raised last: inductive, given what is known of the  *)
(* raises asked for.                                                       *)
LEMMA FocusLastStep ==
    TypeOK /\ Tokens /\ AllKnown /\ FocusLast /\ [Next]_vars => FocusLast'
<1> SUFFICES ASSUME TypeOK, Tokens, AllKnown, FocusLast, [Next]_vars,
                    NEW f \in asked', NEW m \in asked',
                    f.part = 0, m.part # 0, m.id = f.id
             PROVE  ~Live(m)'
  BY DEF FocusLast, Live
<1>1. CASE f \in asked /\ m \in asked
  <2>1. ~Live(m)
    BY <1>1 DEF FocusLast
  <2> QED BY <2>1, NeverLiveAgain
<1>2. CASE AskFocus
  <2> DEFINE a == Ask(active.id, active.gen, 0, active.batch)
  <2>1. asked' = asked \cup {a} \/ asked' = asked
    BY <1>2 DEF AskFocus
  <2>2. a.part = 0
    BY DEF Ask
  <2>3. m \in asked
    BY <2>1, <2>2
  <2>4. ~Live(m)
    BY <1>2, <2>3, NothingPending DEF AskFocus, FocusDue
  <2> QED BY <2>4, NeverLiveAgain
<1>3. CASE StartNext
  <2> PICK q \in queued :
        asked' = asked \cup { Ask(nextId, 0, i, q.req.batches[i]) : i \in Sendable(q.req) }
    BY <1>3 DEF StartNext
  <2>1. \A i \in Sendable(q.req) : i # 0
    BY StartedType DEF TypeOK
  <2>2. f \in asked
    BY <2>1 DEF Ask
  <2>3. f.id < nextId /\ f.id \in Nat /\ nextId \in Nat
    BY <2>2 DEF AllKnown, Known, TypeOK, AskRecord, SequenceId
  <2>4. m \in asked
    BY <2>3 DEF Ask
  <2> QED BY <1>1, <2>2, <2>4
<1>4. CASE asked' = asked
  BY <1>1, <1>4
<1> QED
  BY <1>2, <1>3, <1>4
     DEF Next, Relay, Receives, Loops, Apps, DispatchRaise, RelayRaise, TakeRaisesIdle, EchoLapses, ThreadEnds,
         ReceiveRequest, Overtaken, ReceiveCompleted, ReceiveTimeout, Receive, Finish, Settle, TimerFires,
         AppCompletes, managerVars, vars

(* The window to be focused comes last, so the raises before it cannot put *)
(* another window above it.                                                *)
THEOREM FocusComesLast == Spec => []FocusLast
<1>1. Init => Tokens /\ Reported /\ AllKnown /\ FocusLast
  BY DEF Init, Tokens, Reported, AllKnown, FocusLast, Running, NoSequence
<1> QED
  BY <1>1, FocusLastStep, TokensStep, ReportedStep, AllKnownStep, TypeCorrect, PTL DEF Spec

-----------------------------------------------------------------------------
(* The windows of every request on its way, waiting or running are covered *)
(* by the echo, and it is believed.                                        *)
Covered(W) == echo.believed /\ W \subseteq echo.windows \cup {echo.target}

Coverage ==
    /\ \A i \in 1..Len(inbox) : inbox[i].type = "request" => Covered(Windows(inbox[i].req))
    /\ \A q \in queued : Covered(Windows(q.req))
    /\ active.batch # <<>> => Covered(Range(active.batch))
    /\ EchoCovers

LEMMA WindowsOf ==
    ASSUME NEW r \in Requests
    PROVE  Windows(r) \subseteq Window
BY RequestParts DEF Windows

(* A newer request keeps what was covered, and covers its own windows.     *)
LEMMA ExpectCovers ==
    ASSUME TypeOK, NEW r \in Requests, DispatchRaise(r)
    PROVE  /\ Covered(Windows(r))'
           /\ \A W \in SUBSET Window : Covered(W) => Covered(W)'
<1>1. echo' = Expect(r)
  BY DEF DispatchRaise
<1>2. echo'.believed /\ echo'.target = r.focus
  BY <1>1 DEF Expect
<1>3. echo'.windows = ((IF echo.believed THEN echo.windows ELSE {})
                        \cup BatchWindows(r) \cup ({echo.target} \ {NoWindow})) \ {r.focus}
  BY <1>1 DEF Expect
<1>4. Covered(Windows(r))'
  BY <1>2, <1>3 DEF Covered, Windows
<1>5. \A W \in SUBSET Window : Covered(W) => Covered(W)'
  BY <1>2, <1>3, NoWindowAssumption DEF Covered
<1> QED BY <1>4, <1>5

LEMMA CoverageStep ==
    TypeOK /\ Numbered /\ IdleReports /\ AllKnown /\ Coverage /\ [Next]_vars => Coverage'
<1> SUFFICES ASSUME TypeOK, Numbered, IdleReports, AllKnown, Coverage, [Next]_vars
             PROVE  Coverage'
  OBVIOUS
<1> DEFINE In == RequestMsgs \cup RaiseMsgs
           InboxCovered ==
             \A i \in 1..Len(inbox) : inbox[i].type = "request" => Covered(Windows(inbox[i].req))
           QueueCovered == \A q \in queued : Covered(Windows(q.req))
           BatchCovered == active.batch # <<>> => Covered(Range(active.batch))
<1>0. inbox \in Seq(In) /\ Len(inbox) \in Nat /\ InboxCovered /\ QueueCovered /\ BatchCovered
      /\ EchoCovers
  BY DEF TypeOK, Coverage
<1>a. SUFFICES InboxCovered' /\ QueueCovered' /\ BatchCovered' /\ EchoCovers'
  BY DEF Coverage
<1>b. \A m \in asked : Range(m.windows) \subseteq Window /\ (~Live(m) => ~Live(m)')
  BY BatchElements, NeverLiveAgain DEF TypeOK, AskRecord
<1>c. \A m \in In : m.type = "request" => m.req \in Requests
  BY DEF RequestMsgs, RaiseMsgs
<1>d. active.batch # <<>> => Range(active.batch) \subseteq Window
  BY ActiveType, BatchElements
<1> HIDE DEF In
<1>1. CASE \E r \in Requests : DispatchRaise(r)
  <2> PICK r \in Requests : DispatchRaise(r)
    BY <1>1
  <2> DEFINE e == RequestMsg(sent + 1, r)
  <2>1. Covered(Windows(r))' /\ \A W \in SUBSET Window : Covered(W) => Covered(W)'
    BY ExpectCovers
  <2>2. e \in In /\ e.req = r
    BY DEF RequestMsg, RequestMsgs, In, TypeOK
  <2>3. inbox' = Append(inbox, e) /\ UNCHANGED <<active, queued, asked, cancelled, answered>>
    BY DEF DispatchRaise, managerVars
  <2> HIDE DEF e
  <2>4. /\ Len(inbox') = Len(inbox) + 1 /\ inbox'[Len(inbox) + 1] = e
        /\ \A i \in 1..Len(inbox) : inbox'[i] = inbox[i]
    BY <1>0, <2>2, <2>3, AppendElements
  <2>5. InboxCovered'
    <3> SUFFICES ASSUME NEW i \in 1..Len(inbox'), inbox'[i].type = "request"
                 PROVE  Covered(Windows(inbox[i].req))'
      OBVIOUS
    <3>1. CASE i \in 1..Len(inbox)
      <4>1. inbox'[i] = inbox[i] /\ Covered(Windows(inbox[i].req)) /\ inbox[i].req \in Requests
        BY <1>0, <1>c, <2>4, <3>1
      <4>2. \A W \in SUBSET Window : Covered(W) => Covered(W)'
        BY <2>1
      <4>3. Windows(inbox[i].req)' = Windows(inbox[i].req)
        BY <4>1 DEF Windows, BatchWindows, Range
      <4>4. Windows(inbox[i].req) \subseteq Window
        BY <4>1, WindowsOf
      <4> QED BY <4>1, <4>2, <4>3, <4>4 DEF Covered
    <3>2. CASE i = Len(inbox) + 1
      <4>1. inbox'[i].req = r
        BY <2>2, <2>4, <3>2
      <4> QED BY <2>1, <4>1
    <3> QED BY <1>0, <2>4, <3>1, <3>2
  <2>6. QueueCovered'
    BY <1>0, <2>1, <2>3, WindowsOf DEF TypeOK, Windows, BatchWindows
  <2>7. BatchCovered'
    BY <1>0, <1>d, <2>1, <2>3
  <2>8. EchoCovers'
    BY <1>0, <1>b, <2>1, <2>3 DEF EchoCovers, Covered, Live
  <2> QED BY <2>5, <2>6, <2>7, <2>8
<1>2. CASE EchoLapses
  <2>1. UNCHANGED <<inbox, active, queued, asked, cancelled, answered, seen, sent>>
    BY <1>2 DEF EchoLapses, ThreadEnds, managerVars
  <2>2. ~IsBusy /\ \A i \in 1..Len(inbox) : inbox[i].type # "request"
    <3>1. CASE echo.idle
      <4>1. ~IsBusy /\ seen = sent /\ seen \in Nat /\ sent \in Nat
        BY <3>1 DEF IdleReports, EchoIdleSound, TypeOK
      <4>2. \A m \in In : m.type = "request" => m.n \in Nat
        BY DEF In, RequestMsgs, RaiseMsgs
      <4> QED BY <1>0, <4>1, <4>2 DEF Numbered
    <3>2. CASE inbox = <<>> /\ ~IsBusy
      BY <3>2
    <3> QED BY <1>2, <3>1, <3>2 DEF EchoLapses
  <2>3. active = NoSequence /\ queued = {}
    BY <2>2, ActiveType DEF IsBusy
  <2>4. \A m \in asked : ~Live(m)
    BY <2>3 DEF AllKnown, Known, NoSequence, TypeOK, AskRecord, SequenceId
  <2>5. EchoCovers'
    BY <1>b, <2>1, <2>4 DEF EchoCovers
  <2> QED BY <2>1, <2>2, <2>3, <2>5 DEF NoSequence
<1>3. CASE RelayRaise
  <2> DEFINE e == Head(reactor)
  <2>1. e \in In /\ e.type # "request"
    BY <1>3, ReactorHead DEF RelayRaise, In, RaiseMsgs
  <2>2. inbox' = Append(inbox, e) /\ UNCHANGED <<echo, active, queued, asked, cancelled, answered>>
    BY <1>3 DEF RelayRaise, managerVars
  <2> HIDE DEF e
  <2>3. /\ Len(inbox') = Len(inbox) + 1 /\ inbox'[Len(inbox) + 1] = e
        /\ \A i \in 1..Len(inbox) : inbox'[i] = inbox[i]
    BY <1>0, <2>1, <2>2, AppendElements
  <2>4. InboxCovered'
    BY <1>0, <2>1, <2>2, <2>3 DEF Covered
  <2> QED BY <1>0, <2>2, <2>4 DEF EchoCovers, Covered, Live
<1>4. CASE UNCHANGED <<inbox, queued>> /\ UNCHANGED <<echo.windows, echo.target, echo.believed>>
           /\ (active'.batch = <<>> \/ active'.batch = active.batch)
           /\ \A m \in asked' : m \in asked \/ Covered(Range(m.windows))
  <2>1. EchoCovers'
    <3> SUFFICES ASSUME NEW m \in asked', Live(m)'
                 PROVE  Covered(Range(m.windows))'
      BY DEF EchoCovers, Covered
    <3>1. m \in asked => Live(m)
      BY <1>b
    <3> QED BY <1>0, <1>4, <3>1 DEF EchoCovers, Covered
  <2> QED BY <1>0, <1>4, <2>1 DEF Covered
<1>5. CASE Receives
  <2>1. inbox # <<>> /\ inbox' = Tail(inbox) /\ UNCHANGED <<echo, asked>>
    BY <1>5 DEF Receives, ReceiveRequest, Overtaken, ReceiveCompleted, ReceiveTimeout, Receive
  <2>2. /\ Len(inbox') = Len(inbox) - 1 /\ 1 \in 1..Len(inbox) /\ Head(inbox) = inbox[1]
        /\ \A i \in 1..Len(inbox') : i + 1 \in 1..Len(inbox) /\ inbox'[i] = inbox[i + 1]
    BY <1>0, <2>1, TailElements
  <2>3. InboxCovered'
    BY <1>0, <2>1, <2>2 DEF Covered
  <2>4. QueueCovered'
    <3>1. CASE ReceiveRequest
      <4>1. queued' \subseteq queued \cup {[n |-> Head(inbox).n, req |-> Head(inbox).req]}
        BY <3>1 DEF ReceiveRequest, Overtaken, Kept
      <4>2. Covered(Windows(Head(inbox).req))
        BY <1>0, <2>2, <3>1 DEF ReceiveRequest, Overtaken, Receive
      <4> QED BY <1>0, <2>1, <4>1, <4>2 DEF Covered
    <3>2. CASE queued' = queued
      BY <1>0, <2>1, <3>2 DEF Covered
    <3> QED BY <1>5, <3>1, <3>2 DEF Receives, ReceiveCompleted, ReceiveTimeout
  <2>5. active'.batch = <<>> \/ active'.batch = active.batch
    <3>1. CASE ReceiveRequest
      BY <3>1 DEF ReceiveRequest, Overtaken, NoSequence
    <3>2. CASE ReceiveCompleted
      BY <3>2, ActiveType DEF ReceiveCompleted, Sequence, NoSequence
    <3>3. CASE ReceiveTimeout
      <4>1. Head(inbox).id = active.id => active \in Sequence
        BY <3>3, InboxHead, ActiveType DEF ReceiveTimeout, Receive, NoSequence, SequenceId
      <4> QED BY <3>3, <4>1, GivenUpType DEF ReceiveTimeout
    <3> QED BY <1>5, <3>1, <3>2, <3>3 DEF Receives
  <2>6. EchoCovers'
    BY <1>0, <1>b, <2>1 DEF EchoCovers
  <2> QED BY <1>0, <2>1, <2>3, <2>4, <2>5, <2>6 DEF Covered
<1>6. CASE StartNext
  <2> PICK q \in queued :
        /\ queued' = queued \ {q}
        /\ active' = Started(q.req)
        /\ asked' = asked \cup { Ask(nextId, 0, i, q.req.batches[i]) : i \in Sendable(q.req) }
    BY <1>6 DEF StartNext
  <2>1. UNCHANGED <<inbox, echo, cancelled, answered>> /\ q.req \in Requests
        /\ Covered(Windows(q.req))
    BY <1>0, <1>6 DEF StartNext, TypeOK
  <2>2. InboxCovered' /\ QueueCovered'
    BY <1>0, <2>1 DEF Covered
  <2>3. active'.batch = <<>> \/ active'.batch = FocusBatch(q.req)
    BY DEF Started, NoSequence
  <2>4. FocusBatch(q.req) # <<>> => Range(FocusBatch(q.req)) \subseteq Windows(q.req)
    BY <2>1, FocusBatchOf DEF Windows
  <2>5. BatchCovered'
    BY <2>1, <2>3, <2>4 DEF Covered
  <2>6. \A i \in Sendable(q.req) : Range(q.req.batches[i]) \subseteq Windows(q.req)
    BY <2>1, RequestParts DEF Sendable, Windows
  <2>7. EchoCovers'
    <3> SUFFICES ASSUME NEW m \in asked', Live(m)'
                 PROVE  Covered(Range(m.windows))'
      BY DEF EchoCovers, Covered
    <3>1. CASE m \in asked
      BY <1>0, <1>b, <2>1, <3>1 DEF EchoCovers, Covered
    <3>2. CASE m \notin asked
      <4> PICK i \in Sendable(q.req) : m = Ask(nextId, 0, i, q.req.batches[i])
        BY <3>2
      <4>1. m.windows = q.req.batches[i]
        BY DEF Ask
      <4> QED BY <2>1, <2>6, <4>1 DEF Covered
    <3> QED BY <3>1, <3>2
  <2> QED BY <2>2, <2>5, <2>7
<1>7. CASE AskFocus
  <2>1. UNCHANGED <<inbox, queued, echo>>
    BY <1>7 DEF AskFocus
  <2>2. active'.batch = <<>>
    <3>1. active \in Sequence
      BY <1>7, ActiveType DEF AskFocus
    <3>2. \/ active' = NoSequence
          \/ active' = [active EXCEPT !.pending = Range(active.batch), !.batch = <<>>]
      BY <1>7 DEF AskFocus
    <3>3. NoSequence.batch = <<>>
      BY DEF NoSequence
    <3> QED BY <3>1, <3>2, <3>3 DEF Sequence
  <2>3. \A m \in asked' : m \in asked \/ m.windows = active.batch
    BY <1>7 DEF AskFocus, Ask
  <2>4. Covered(Range(active.batch))
    BY <1>0, <1>7 DEF AskFocus, FocusDue
  <2> QED BY <1>4, <2>1, <2>2, <2>3, <2>4
<1>8. CASE TimerFires
  <2>1. active'.batch = active.batch
    BY <1>8, ActiveType DEF TimerFires, Sequence
  <2> QED BY <1>4, <1>8, <2>1 DEF TimerFires
<1>9. CASE TakeRaisesIdle
  <2>1. UNCHANGED <<echo.windows, echo.target, echo.believed>>
    BY <1>9 DEF TakeRaisesIdle, TypeOK
  <2> QED BY <1>4, <1>9, <2>1 DEF TakeRaisesIdle, managerVars
<1>10. CASE Finish \/ Settle \/ Apps \/ (\E a \in App : ThreadEnds(a)) \/ UNCHANGED vars
  <2>1. UNCHANGED <<inbox, queued, echo, asked>>
    BY <1>10 DEF Finish, Settle, Apps, AppCompletes, ThreadEnds, managerVars, vars
  <2>2. active'.batch = <<>> \/ active'.batch = active.batch
    <3>1. active' = NoSequence \/ active' = active
      BY <1>10 DEF Finish, Settle, Apps, AppCompletes, ThreadEnds, managerVars, vars
    <3>2. NoSequence.batch = <<>>
      BY DEF NoSequence
    <3> QED BY <3>1, <3>2
  <2> QED BY <1>4, <2>1, <2>2
<1> QED
  BY <1>1, <1>2, <1>3, <1>5, <1>6, <1>7, <1>8, <1>9, <1>10 DEF Next, Relay, Loops

(* While a raise can still be carried out, the focus reports it causes are *)
(* taken for echoes and do not move the user's focus.                      *)
THEOREM EchoIsCovered == Spec => []EchoCovers
<1>1. Init => Tokens /\ Reported /\ AllKnown /\ Numbered /\ IdleReports /\ Coverage
  BY DEF Init, Tokens, Reported, AllKnown, Numbered, IdleReports, EchoIdleSound, Coverage,
         EchoCovers, Running, NoSequence
<1>2. Coverage => EchoCovers
  BY DEF Coverage
<1> QED
  BY <1>1, <1>2, CoverageStep, NumberedStep, IdleReportsStep, TokensStep, ReportedStep,
     AllKnownStep, TypeCorrect, PTL DEF Spec
(* The echo ends no sooner than the raises it stands for, and covers every *)
(* window they may still focus (Focus::take_raised and the manager's idle  *)
(* reports).                                                               *)
THEOREM EchoIsSound == Spec => []EchoSound
<1>1. EchoIdleSound /\ EchoCovers => EchoSound
  BY DEF EchoSound
<1> QED BY <1>1, EchoIdle, EchoIsCovered, PTL
=============================================================================
