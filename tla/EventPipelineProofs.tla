------------------------ MODULE EventPipelineProofs ------------------------
(***************************************************************************)
(* Proofs about EventPipeline for any number of sessions, threads and      *)
(* events and any capacity of the channel: types; ResolvedOnce; InOrder;   *)
(* that it implements EventDelivery; when the worker waits for a session   *)
(* that is going to be filled (WaitsForFill); how it can stop moving, when *)
(* it never does, and that its own steps come to an end.                   *)
(***************************************************************************)
EXTENDS EventPipeline, Integers, SequenceTheorems, FiniteSetTheorems, TLAPS

(* The steps that leave the Go side of the pipeline alone. *)
LoopStep ==
  \/ StartCoroutine \/ ResumeCoroutine \/ RunResolve
  \/ \E s \in Session : \/ LoginReturns(s) \/ FillContacts(s)
                        \/ FetchReturns(s) \/ FillBookmarks(s)
                        \/ Login(s) \/ Refresh(s) \/ Logout(s)

(* The thread p has raised an event and goes to send it. *)
PropagateStep ==
  /\ \E p \in Producer, kind \in Kind : Propagate(p, kind)
  /\ UNCHANGED <<callChan, handled, worker>>

LEMMA SessionOfType == \A p \in Producer : SessionOf(p) \in Session
BY PipelineAssumption DEF Producer, SessionOf

(* Every step is one of five kinds. *)
LEMMA StepKinds ==
  ASSUME [Next]_vars
  PROVE  \/ PropagateStep
         \/ \E p \in Producer : Send(p)
         \/ Take
         \/ Finish
         \/ UNCHANGED goVars
<1> USE DEF goVars
<1>1. ASSUME NEW g \in Goroutine, NEW kind \in Raisable, HandleEvent(g, kind)
      PROVE  PropagateStep
  BY <1>1, PipelineAssumption DEF HandleEvent, PropagateStep, Producer
<1>2. ASSUME NEW s \in Session, FetchDispatch(s)
      PROVE  PropagateStep
  BY <1>2 DEF FetchDispatch, PropagateStep, Producer, Kind
<1>3. ASSUME LoopStep
      PROVE  UNCHANGED goVars
  BY <1>3 DEF LoopStep, StartCoroutine, ResumeCoroutine, RunResolve, LoginReturns,
              FillContacts, FetchReturns, FillBookmarks, Login, Refresh, Logout
<1>4. ASSUME UNCHANGED vars
      PROVE  UNCHANGED goVars
  BY <1>4 DEF vars
<1> QED BY <1>1, <1>2, <1>3, <1>4 DEF Next, Progress, Environment, LoopStep
-----------------------------------------------------------------------------
(* What the Go side of the pipeline looks like, as far as types go. *)
GoTypeOK ==
  /\ callChan \in Seq(Event)
  /\ sending \in [Producer -> Event \cup {None}]
  /\ raised \in [Producer -> Nat]
  /\ handled \in [Producer -> Nat]
  /\ worker \in Event \cup {None}

LEMMA HeadTail ==
  ASSUME NEW S, NEW q \in Seq(S), q # <<>>
  PROVE  /\ Head(q) \in S /\ Head(q) = q[1]
         /\ Tail(q) \in Seq(S) /\ Len(Tail(q)) = Len(q) - 1
         /\ 1 \in DOMAIN q
         /\ DOMAIN Tail(q) = 1..(Len(q) - 1)
         /\ \A i \in DOMAIN Tail(q) : Tail(q)[i] = q[i + 1] /\ i + 1 \in DOMAIN q
OBVIOUS

LEMMA AppendFacts ==
  ASSUME NEW S, NEW q \in Seq(S), NEW e \in S
  PROVE  /\ Append(q, e) \in Seq(S)
         /\ DOMAIN q = 1..Len(q) /\ Len(q) \in Nat
         /\ DOMAIN Append(q, e) = 1..(Len(q) + 1)
         /\ Append(q, e)[Len(q) + 1] = e
         /\ \A i \in DOMAIN q : Append(q, e)[i] = q[i]
OBVIOUS

LEMMA EventFields ==
  ASSUME NEW e \in Event
  PROVE  e.from \in Producer /\ e.n \in Nat /\ e.kind \in Kind /\ e # None
BY PipelineAssumption DEF Event

LEMMA SentType ==
  ASSUME GoTypeOK, NEW p \in Producer
  PROVE  Sent[p] \in Int
BY DEF GoTypeOK, Sent

(* Raising an event changes neither what is sent nor what is queued. *)
LEMMA PropagateKeepsOrder ==
  ASSUME GoTypeOK, InOrder, PropagateStep
  PROVE  GoTypeOK' /\ InOrder'
<1>1. PICK p \in Producer, kind \in Kind : Propagate(p, kind)
  BY DEF PropagateStep
<1> DEFINE e == [from |-> p, n |-> raised[p] + 1, kind |-> kind]
<1>2. /\ sending[p] = None
      /\ raised' = [raised EXCEPT ![p] = raised[p] + 1]
      /\ sending' = [sending EXCEPT ![p] = e]
      /\ UNCHANGED <<callChan, handled, worker>>
  BY <1>1 DEF PropagateStep, Propagate
<1>3. e \in Event /\ e.from = p /\ e.n = raised[p] + 1 /\ e # None
  BY PipelineAssumption DEF GoTypeOK, Event
<1> HIDE DEF e
<1>4. GoTypeOK'
  BY <1>2, <1>3 DEF GoTypeOK
<1>5. Sent' = Sent
  BY <1>2, <1>3 DEF GoTypeOK, Sent
<1>6. HandledSent' /\ SendingLast'
  BY <1>2, <1>3, <1>5 DEF GoTypeOK, InOrder, HandledSent, SendingLast
<1>7. WorkerHasNext' /\ ChannelBehindWorker' /\ ChannelSorted' /\ NothingLost'
  <2>1. WorkerHasNext'
    BY <1>2, <1>5, EventFields DEF GoTypeOK, InOrder, WorkerHasNext
  <2>2. ChannelBehindWorker'
    <3> SUFFICES ASSUME NEW i \in DOMAIN callChan
                 PROVE  LET c == callChan[i] IN
                        /\ c.n > handled[c.from]
                        /\ c.n <= Sent'[c.from]
                        /\ worker # None /\ worker.from = c.from => c.n > worker.n
      BY <1>2 DEF ChannelBehindWorker
    <3>1. callChan[i] \in Event
      BY DEF GoTypeOK
    <3> QED BY <3>1, <1>5, EventFields DEF InOrder, ChannelBehindWorker
  <2>3. ChannelSorted'
    BY <1>2 DEF InOrder, ChannelSorted
  <2>4. NothingLost'
    BY <1>2, <1>5 DEF InOrder, NothingLost
  <2> QED BY <2>1, <2>2, <2>3, <2>4
<1> QED BY <1>4, <1>6, <1>7 DEF InOrder

(* The event sent is the latest of its thread and goes to the end. *)
LEMMA SendKeepsOrder ==
  ASSUME GoTypeOK, InOrder, NEW p \in Producer, Send(p)
  PROVE  GoTypeOK' /\ InOrder'
<1> DEFINE e == sending[p]
           L == Len(callChan)
<1>1. /\ e # None
      /\ callChan' = Append(callChan, e)
      /\ sending' = [sending EXCEPT ![p] = None]
      /\ UNCHANGED <<raised, handled, worker>>
  BY DEF Send
<1>2. e \in Event /\ e.from = p /\ e.n = raised[p] /\ callChan \in Seq(Event)
  BY <1>1 DEF GoTypeOK, InOrder, SendingLast
<1>3. GoTypeOK'
  BY <1>1, <1>2, AppendFacts DEF GoTypeOK
<1>4. /\ L \in Nat /\ DOMAIN callChan = 1..L
      /\ DOMAIN callChan' = 1..(L + 1)
      /\ callChan'[L + 1] = e
      /\ \A i \in 1..L : callChan'[i] = callChan[i]
  BY <1>1, <1>2, AppendFacts
<1>5. /\ Sent[p] = raised[p] - 1 /\ Sent'[p] = raised[p]
      /\ \A q \in Producer \ {p} : Sent'[q] = Sent[q]
  BY <1>1 DEF GoTypeOK, Sent
<1>6. \A q \in Producer : Sent[q] \in Int /\ raised[q] \in Nat /\ handled[q] \in Nat
  BY SentType DEF GoTypeOK
<1>7. \A q \in Producer : Sent[q] <= Sent'[q]
  BY <1>5, <1>6
<1>8. \A i \in 1..L : callChan[i] \in Event
  BY <1>4 DEF GoTypeOK
<1> HIDE DEF e, L
<1>a. HandledSent' /\ SendingLast'
  <2>1. HandledSent'
    BY <1>1, <1>5, <1>6 DEF InOrder, HandledSent
  <2>2. \A q \in Producer : sending'[q] # None => sending'[q] = sending[q]
    BY <1>1 DEF GoTypeOK
  <2>3. SendingLast'
    BY <1>1, <2>2 DEF InOrder, SendingLast
  <2> QED BY <2>1, <2>3
<1>b. WorkerHasNext'
  <2> SUFFICES ASSUME worker # None
               PROVE  worker.n = handled[worker.from] + 1 /\ worker.n <= Sent'[worker.from]
    BY <1>1 DEF WorkerHasNext
  <2>1. worker.from \in Producer /\ worker.n \in Nat
    BY EventFields DEF GoTypeOK
  <2>2. worker.n = handled[worker.from] + 1 /\ worker.n <= Sent[worker.from]
    BY DEF InOrder, WorkerHasNext
  <2>3. Sent'[worker.from] \in Int
    BY <2>1, <1>5, <1>6
  <2> QED BY <2>1, <2>2, <2>3, <1>6, <1>7
<1>c. ChannelBehindWorker'
  <2> SUFFICES ASSUME NEW i \in DOMAIN callChan'
               PROVE  LET c == callChan'[i] IN
                      /\ c.n > handled[c.from]
                      /\ c.n <= Sent'[c.from]
                      /\ worker # None /\ worker.from = c.from => c.n > worker.n
    BY <1>1 DEF ChannelBehindWorker
  <2>1. CASE i \in 1..L
    <3>1. callChan'[i] = callChan[i] /\ i \in DOMAIN callChan
      BY <2>1, <1>4
    <3>2. callChan[i] \in Event
      BY <2>1, <1>8
    <3>3. Sent[callChan[i].from] <= Sent'[callChan[i].from]
      BY <3>2, <1>7, EventFields
    <3>4. Sent[callChan[i].from] \in Int /\ Sent'[callChan[i].from] \in Int /\ callChan[i].n \in Nat
      BY <3>2, <1>3, <1>6, <1>5, EventFields
    <3> QED BY <3>1, <3>3, <3>4 DEF InOrder, ChannelBehindWorker
  <2>2. CASE i = L + 1
    <3>1. callChan'[i] = e
      BY <2>2, <1>4
    <3>2. handled[p] <= Sent[p]
      BY DEF InOrder, HandledSent
    <3>3. worker # None /\ worker.from = p => worker.n <= Sent[p] /\ worker.n \in Nat
      BY EventFields DEF GoTypeOK, InOrder, WorkerHasNext
    <3> QED BY <3>1, <3>2, <3>3, <1>2, <1>5, <1>6
  <2> QED BY <2>1, <2>2, <1>4
<1>d. ChannelSorted'
  <2> SUFFICES ASSUME NEW i \in 1..(L + 1), NEW j \in 1..(L + 1), i < j,
                      callChan'[i].from = callChan'[j].from
               PROVE  callChan'[i].n < callChan'[j].n
    BY <1>4 DEF ChannelSorted
  <2>1. CASE j \in 1..L
    BY <2>1, <1>4 DEF InOrder, ChannelSorted
  <2>2. CASE j = L + 1
    <3>1. i \in 1..L /\ callChan'[i] = callChan[i] /\ callChan'[j] = e
      BY <2>2, <1>4
    <3>2. callChan[i].from = p /\ callChan[i].n \in Nat
      BY <3>1, <1>2, <1>8, EventFields
    <3>3. callChan[i].n <= Sent[p]
      BY <3>1, <3>2, <1>4 DEF InOrder, ChannelBehindWorker
    <3> QED BY <3>1, <3>2, <3>3, <1>2, <1>5, <1>6
  <2> QED BY <2>1, <2>2, <1>4
<1>e. NothingLost'
  <2> SUFFICES ASSUME NEW q \in Producer, NEW n \in (handled[q] + 1)..Sent'[q]
               PROVE  \/ worker # None /\ worker.from = q /\ worker.n = n
                      \/ \E i \in DOMAIN callChan' : callChan'[i].from = q /\ callChan'[i].n = n
    BY <1>1 DEF NothingLost
  <2>1. CASE n \in (handled[q] + 1)..Sent[q]
    <3>1. CASE worker # None /\ worker.from = q /\ worker.n = n
      BY <3>1
    <3>2. CASE \E i \in DOMAIN callChan : callChan[i].from = q /\ callChan[i].n = n
      BY <3>2, <1>4
    <3> QED BY <2>1, <3>1, <3>2 DEF InOrder, NothingLost
  <2>2. CASE n \notin (handled[q] + 1)..Sent[q]
    <3>1. q = p /\ n = raised[p]
      BY <2>2, <1>5, <1>6
    <3> QED BY <3>1, <1>2, <1>4
  <2> QED BY <2>1, <2>2
<1> QED BY <1>3, <1>a, <1>b, <1>c, <1>d, <1>e DEF InOrder

(* The head of the channel is the next event of its thread: an earlier one *)
(* would be in the channel too, and could be neither behind nor before it. *)
LEMMA TakeKeepsOrder ==
  ASSUME GoTypeOK, InOrder, Take
  PROVE  GoTypeOK' /\ InOrder'
<1> DEFINE e == Head(callChan)
           L == Len(callChan)
<1>1. /\ worker = None /\ callChan # <<>>
      /\ worker' = e
      /\ callChan' = Tail(callChan)
      /\ UNCHANGED <<sending, raised, handled>>
  BY DEF Take
<1>2. callChan \in Seq(Event)
  BY DEF GoTypeOK
<1>3. /\ e \in Event /\ e = callChan[1]
      /\ callChan' \in Seq(Event)
      /\ DOMAIN callChan = 1..L /\ L \in Nat /\ L >= 1
      /\ DOMAIN callChan' = 1..(L - 1)
      /\ \A i \in 1..(L - 1) : callChan'[i] = callChan[i + 1]
  BY <1>1, <1>2, HeadTail
<1>4. e.from \in Producer /\ e.n \in Nat /\ e # None
  BY <1>3, EventFields
<1>5. Sent' = Sent
  BY <1>1 DEF Sent
<1>6. \A q \in Producer : Sent[q] \in Int /\ raised[q] \in Nat /\ handled[q] \in Nat
  BY SentType DEF GoTypeOK
<1>7. \A i \in 1..L : callChan[i] \in Event /\ callChan[i].from \in Producer /\ callChan[i].n \in Nat
  BY <1>2, <1>3, EventFields
<1> HIDE DEF e, L
<1>a. GoTypeOK'
  BY <1>1, <1>3 DEF GoTypeOK
<1>b. HandledSent' /\ SendingLast'
  BY <1>1, <1>5 DEF InOrder, HandledSent, SendingLast
<1>c. e.n = handled[e.from] + 1 /\ e.n <= Sent[e.from]
  <2>1. e.n > handled[e.from] /\ e.n <= Sent[e.from]
    BY <1>3 DEF InOrder, ChannelBehindWorker
  <2>2. handled[e.from] + 1 \in (handled[e.from] + 1)..Sent[e.from]
    BY <2>1, <1>4, <1>6
  <2>3. PICK i \in 1..L : callChan[i].from = e.from /\ callChan[i].n = handled[e.from] + 1
    <3>1. \/ worker # None /\ worker.from = e.from /\ worker.n = handled[e.from] + 1
          \/ \E i \in DOMAIN callChan : /\ callChan[i].from = e.from
                                      /\ callChan[i].n = handled[e.from] + 1
      BY <2>2, <1>4, Zenon DEF InOrder, NothingLost
    <3> QED BY <3>1, <1>1, <1>3
  <2>4. i > 1 => e.n < callChan[i].n
    <3>1. 1 \in DOMAIN callChan /\ i \in DOMAIN callChan /\ callChan[1] = e
      BY <1>3
    <3>2. 1 < i /\ callChan[1].from = callChan[i].from => callChan[1].n < callChan[i].n
      BY <3>1, Zenon DEF InOrder, ChannelSorted
    <3> QED BY <2>3, <3>1, <3>2
  <2> QED BY <2>1, <2>3, <2>4, <1>3, <1>4, <1>6
<1>d. WorkerHasNext'
  BY <1>1, <1>5, <1>c DEF WorkerHasNext
<1>e. ChannelBehindWorker'
  <2> SUFFICES ASSUME NEW i \in 1..(L - 1)
               PROVE  LET c == callChan[i + 1] IN
                      /\ c.n > handled[c.from]
                      /\ c.n <= Sent[c.from]
                      /\ e.from = c.from => c.n > e.n
    BY <1>1, <1>3, <1>5 DEF ChannelBehindWorker
  <2>1. i + 1 \in 1..L /\ 1 \in 1..L /\ 1 < i + 1
    BY <1>3
  <2>2. e.from = callChan[i + 1].from => callChan[i + 1].n > e.n
    BY <2>1, <1>3, <1>4, <1>7 DEF InOrder, ChannelSorted
  <2> QED BY <2>1, <2>2, <1>3 DEF InOrder, ChannelBehindWorker
<1>f. ChannelSorted'
  <2> SUFFICES ASSUME NEW i \in 1..(L - 1), NEW j \in 1..(L - 1), i < j,
                      callChan[i + 1].from = callChan[j + 1].from
               PROVE  callChan[i + 1].n < callChan[j + 1].n
    BY <1>3 DEF ChannelSorted
  <2>1. i + 1 \in 1..L /\ j + 1 \in 1..L /\ i + 1 < j + 1
    BY <1>3
  <2> QED BY <2>1, <1>3 DEF InOrder, ChannelSorted
<1>g. NothingLost'
  <2> SUFFICES ASSUME NEW q \in Producer, NEW n \in (handled[q] + 1)..Sent[q]
               PROVE  \/ worker' # None /\ worker'.from = q /\ worker'.n = n
                      \/ \E i \in DOMAIN callChan' : callChan'[i].from = q /\ callChan'[i].n = n
    BY <1>1, <1>5 DEF NothingLost
  <2>1. PICK i \in 1..L : callChan[i].from = q /\ callChan[i].n = n
    BY <1>1, <1>3 DEF InOrder, NothingLost
  <2>2. CASE i = 1
    BY <2>1, <2>2, <1>1, <1>3, <1>4
  <2>3. CASE i # 1
    <3>1. i - 1 \in 1..(L - 1) /\ (i - 1) + 1 = i
      BY <2>3, <1>3
    <3> QED BY <3>1, <2>1, <1>3
  <2> QED BY <2>2, <2>3
<1> QED BY <1>a, <1>b, <1>d, <1>e, <1>f, <1>g DEF InOrder

(* The event handled was the next one of its thread. *)
LEMMA FinishKeepsOrder ==
  ASSUME GoTypeOK, InOrder, worker # None, Finish
  PROVE  GoTypeOK' /\ InOrder'
<1> DEFINE p == worker.from
<1>1. /\ handled' = [handled EXCEPT ![p] = worker.n]
      /\ worker' = None
      /\ UNCHANGED <<callChan, sending, raised>>
  BY DEF Finish
<1>2. p \in Producer /\ worker.n \in Nat /\ worker.n = handled[p] + 1 /\ worker.n <= Sent[p]
  BY EventFields DEF GoTypeOK, InOrder, WorkerHasNext
<1>3. Sent' = Sent
  BY <1>1 DEF Sent
<1>4. /\ handled \in [Producer -> Nat]
      /\ handled'[p] = worker.n
      /\ \A q \in Producer \ {p} : handled'[q] = handled[q]
  BY <1>1, <1>2 DEF GoTypeOK
<1>5. \A i \in DOMAIN callChan :
        callChan[i].from \in Producer /\ callChan[i].n \in Nat
  BY EventFields DEF GoTypeOK
<1>a. GoTypeOK'
  BY <1>1, <1>2 DEF GoTypeOK
<1>b. HandledSent' /\ SendingLast'
  <2>1. \A q \in Producer : Sent[q] \in Int /\ handled[q] <= Sent[q]
    BY SentType DEF InOrder, HandledSent
  <2>2. HandledSent'
    BY <2>1, <1>2, <1>3, <1>4 DEF HandledSent
  <2>3. SendingLast'
    BY <1>1 DEF InOrder, SendingLast
  <2> QED BY <2>2, <2>3
<1>c. WorkerHasNext' /\ ChannelSorted'
  BY <1>1 DEF InOrder, WorkerHasNext, ChannelSorted
<1>d. ChannelBehindWorker'
  <2> SUFFICES ASSUME NEW i \in DOMAIN callChan
               PROVE  LET c == callChan[i] IN
                      c.n > handled'[c.from] /\ c.n <= Sent[c.from]
    BY <1>1, <1>3 DEF ChannelBehindWorker
  <2>1. callChan[i].n > handled[callChan[i].from] /\ callChan[i].n <= Sent[callChan[i].from]
    BY DEF InOrder, ChannelBehindWorker
  <2>2. callChan[i].from = p => callChan[i].n > worker.n
    BY DEF InOrder, ChannelBehindWorker
  <2> QED BY <2>1, <2>2, <1>4, <1>5
<1>e. NothingLost'
  <2> SUFFICES ASSUME NEW q \in Producer, NEW n \in (handled'[q] + 1)..Sent[q]
               PROVE  \E i \in DOMAIN callChan : callChan[i].from = q /\ callChan[i].n = n
    BY <1>1, <1>3 DEF NothingLost
  <2>1. Sent[q] \in Int
    BY SentType
  <2>2. n \in (handled[q] + 1)..Sent[q] /\ ~ (q = p /\ n = worker.n)
    BY <2>1, <1>2, <1>4
  <2> QED BY <2>2 DEF InOrder, NothingLost
<1> QED BY <1>a, <1>b, <1>c, <1>d, <1>e DEF InOrder
-----------------------------------------------------------------------------
(* The Python side: types, what the loop has to run, and __connected.      *)
LoopInv == TypeOK /\ LoopShape /\ ResolvedOnce

LEMMA LoopItems ==
  /\ RunEvent \in LoopItem
  /\ \A s \in Session, o \in {"result", "error"} :
       /\ Resolve(s, o) \in LoopItem /\ Resolve(s, o) # RunEvent
       /\ Resolve(s, o).session = s
  /\ \A r \in LoopItem : r # RunEvent =>
       r.session \in Session /\ r.outcome \in {"result", "error"}
BY DEF LoopItem, RunEvent, Resolve

(* Steps that do not touch what LoopShape and ResolvedOnce are about. *)
LEMMA LoopFrame ==
  ASSUME LoopShape, ResolvedOnce, UNCHANGED <<coro, loopQ, worker, future>>
  PROVE  LoopShape' /\ ResolvedOnce'
BY DEF LoopShape, ResolvedOnce

LEMMA PropagateType ==
  ASSUME TypeOK, NEW p \in Producer, NEW kind \in Kind, Propagate(p, kind)
  PROVE  /\ raised' \in [Producer -> Nat]
         /\ sending' \in [Producer -> Event \cup {None}]
<1>1. [from |-> p, n |-> raised[p] + 1, kind |-> kind] \in Event
  BY DEF TypeOK, Event
<1> QED BY <1>1 DEF TypeOK, Propagate

LEMMA HandleEventLoop ==
  ASSUME LoopInv, NEW g \in Goroutine, NEW kind \in Raisable, HandleEvent(g, kind)
  PROVE  LoopInv'
<1>1. g \in Producer /\ kind \in Kind /\ Owner[g] \in Session
  BY PipelineAssumption DEF Producer
<1>2. Propagate(g, kind)
  BY DEF HandleEvent
<1>3. client' \in [Session -> {"none", "up", "down"}]
  <2>1. \/ client' = [client EXCEPT ![Owner[g]] = "down"]
        \/ client' = [client EXCEPT ![Owner[g]] = "none"]
        \/ client' = client
    BY Zenon DEF HandleEvent
  <2> QED BY <2>1, <1>1 DEF LoopInv, TypeOK
<1>4. UNCHANGED <<callChan, handled, worker, coro, loopQ, loop, login, logged, future, ready, announced>>
  BY DEF HandleEvent, pyVars
<1> QED BY <1>1, <1>2, <1>3, <1>4, PropagateType, LoopFrame DEF LoopInv, TypeOK

LEMMA FetchDispatchLoop ==
  ASSUME LoopInv, NEW s \in Session, FetchDispatch(s)
  PROVE  LoopInv'
<1>1. s \in Producer /\ "message" \in Kind /\ Propagate(s, "message")
  BY DEF Producer, Kind, FetchDispatch
<1>2. UNCHANGED <<callChan, handled, worker, coro, loopQ, loop, login, logged, future, ready, client, announced>>
  BY DEF FetchDispatch, pyVars, envVars
<1> QED BY <1>1, <1>2, PropagateType, LoopFrame DEF LoopInv, TypeOK

LEMMA SendLoop ==
  ASSUME LoopInv, NEW p \in Producer, Send(p)
  PROVE  LoopInv'
<1>1. UNCHANGED <<raised, handled, worker, coro, loopQ, loop, login, logged, future, ready, client>>
  BY DEF Send, pyVars
<1>2. sending' \in [Producer -> Event \cup {None}] /\ sending[p] \in Event
  BY DEF LoopInv, TypeOK, Send
<1>3. callChan' \in Seq(Event) /\ Len(callChan') <= Capacity
  BY <1>2, PipelineAssumption DEF LoopInv, TypeOK, Send
<1>4. announced' \in [Session -> BOOLEAN]
  BY DEF LoopInv, TypeOK, Send
<1> QED BY <1>1, <1>2, <1>3, <1>4, LoopFrame DEF LoopInv, TypeOK

LEMMA TakeLoop ==
  ASSUME LoopInv, Take
  PROVE  LoopInv'
<1>1. UNCHANGED <<sending, raised, handled, loop, login, logged, future, ready, client, announced>>
  BY DEF Take, envVars
<1>2. worker' \in Event /\ callChan' \in Seq(Event) /\ Len(callChan') <= Capacity
  BY HeadTail, PipelineAssumption DEF LoopInv, TypeOK, Take
<1>3. worker' # None
  BY <1>2, EventFields
<1>4. /\ loopQ \in Seq(LoopItem)
      /\ loopQ' = Append(loopQ, RunEvent) /\ coro' = "scheduled"
  BY DEF LoopInv, TypeOK, Take
<1>5. coro = "none"
  BY DEF Take, LoopInv, LoopShape
<1>6. \A i \in 1..Len(loopQ) : loopQ[i] # RunEvent /\ i = 1
  BY <1>4, <1>5 DEF LoopInv, LoopShape
<1>7. /\ loopQ' \in Seq(LoopItem) /\ Len(loopQ') = Len(loopQ) + 1
      /\ Len(loopQ) \in Nat
      /\ DOMAIN loopQ' = 1..(Len(loopQ) + 1)
      /\ loopQ'[Len(loopQ) + 1] = RunEvent
      /\ \A i \in 1..Len(loopQ) : loopQ'[i] = loopQ[i]
  BY <1>4, AppendFacts, LoopItems
<1>8. LoopShape'
  BY <1>3, <1>4, <1>6, <1>7 DEF LoopShape
<1>9. ResolvedOnce'
  BY <1>1, <1>6, <1>7 DEF LoopInv, ResolvedOnce
<1> QED BY <1>1, <1>2, <1>4, <1>7, <1>8, <1>9 DEF LoopInv, TypeOK

LEMMA FinishLoop ==
  ASSUME LoopInv, Finish
  PROVE  LoopInv'
<1>1. /\ UNCHANGED <<callChan, sending, raised, loopQ, loop, login, logged, future, ready, client, announced>>
      /\ coro = "done" /\ coro' = "none" /\ worker' = None
      /\ handled' = [handled EXCEPT ![worker.from] = worker.n]
  BY DEF Finish, envVars
<1>2. worker \in Event
  BY <1>1 DEF LoopInv, TypeOK, LoopShape
<1>3. handled' \in [Producer -> Nat]
  BY <1>1, <1>2, EventFields DEF LoopInv, TypeOK
<1>4. LoopShape' /\ ResolvedOnce'
  BY <1>1 DEF LoopInv, LoopShape, ResolvedOnce
<1> QED BY <1>1, <1>3, <1>4 DEF LoopInv, TypeOK

(* Only a Connect event or a failure leaves a callback behind. *)
LEMMA DispatchFacts ==
  ASSUME NEW e \in Event, NEW queue, Dispatch(e, queue), LoopInv
  PROVE  /\ coro' = "done" /\ logged' \in [Session -> BOOLEAN]
         /\ \/ loopQ' = queue
            \/ /\ e.kind # "message" /\ future[SessionOf(e.from)] = "pending"
               /\ \E o \in {"result", "error"} :
                    loopQ' = Append(queue, Resolve(SessionOf(e.from), o))
<1> DEFINE s == SessionOf(e.from)
<1>1. s \in Session
  BY SessionOfType, EventFields
<1>2. coro' = "done" /\ logged' \in [Session -> BOOLEAN]
  BY <1>1 DEF Dispatch, LoopInv, TypeOK
<1>3. \/ e.kind = "connect" /\ OnConnect(s, "result", queue)
      \/ e.kind = "failure" /\ OnConnect(s, "error", queue)
      \/ loopQ' = queue
  BY Zenon DEF Dispatch
<1>4. ASSUME NEW o \in {"result", "error"}, OnConnect(s, o, queue)
      PROVE  \/ loopQ' = queue
             \/ future[s] = "pending" /\ loopQ' = Append(queue, Resolve(s, o))
  BY <1>4 DEF OnConnect
<1> QED BY <1>2, <1>3, <1>4

(* The event being started is the last item of the loop, hence the only    *)
(* one: what it leaves behind is alone.                                    *)
LEMMA StartLoop ==
  ASSUME LoopInv, StartCoroutine
  PROVE  LoopInv'
<1>1. /\ UNCHANGED <<callChan, sending, raised, handled, worker, loop, login, future, ready, client, announced>>
      /\ loopQ \in Seq(LoopItem) /\ loopQ # <<>> /\ loopQ[1] = RunEvent
  BY DEF LoopInv, TypeOK, StartCoroutine, goVars, envVars
<1>2. Len(loopQ) = 1 /\ coro = "scheduled"
  <2>1. 1 \in DOMAIN loopQ
    BY <1>1, HeadTail
  <2> QED BY <2>1, <1>1 DEF LoopInv, LoopShape
<1>3. worker \in Event /\ worker # None
  BY <1>2 DEF LoopInv, TypeOK, LoopShape
<1>4. Tail(loopQ) = <<>>
  <2>1. Tail(loopQ) \in Seq(LoopItem) /\ Len(Tail(loopQ)) = 0
    BY <1>1, <1>2, HeadTail
  <2> QED BY <2>1, EmptySeq
<1> DEFINE s == SessionOf(worker.from)
<1>5. s \in Session
  BY <1>3, SessionOfType, EventFields
<1>6. CASE coro' = "waiting" /\ loopQ' = <<>> /\ logged' = logged /\ ~ Exempt(worker.kind)
  <2>1. worker.kind = "message"
    BY <1>6, <1>3, EventFields DEF Exempt, Kind
  <2>2. LoopShape' /\ ResolvedOnce'
    BY <1>6, <1>1, <1>3, <2>1 DEF LoopShape, ResolvedOnce
  <2> QED BY <2>2, <1>6, <1>1 DEF LoopInv, TypeOK
<1>7. CASE Dispatch(worker, <<>>)
  <2>1. coro' = "done" /\ logged' \in [Session -> BOOLEAN]
    BY <1>3, <1>7, DispatchFacts
  <2>2. CASE loopQ' = <<>>
    <3>1. LoopShape' /\ ResolvedOnce'
      BY <2>1, <2>2, <1>1, <1>3 DEF LoopShape, ResolvedOnce
    <3> QED BY <3>1, <2>1, <2>2, <1>1 DEF LoopInv, TypeOK
  <2>3. CASE /\ future[s] = "pending"
             /\ \E o \in {"result", "error"} : loopQ' = Append(<<>>, Resolve(s, o))
    <3>1. PICK o \in {"result", "error"} : loopQ' = <<Resolve(s, o)>>
      BY <2>3
    <3>2. /\ Resolve(s, o) \in LoopItem /\ Resolve(s, o) # RunEvent
          /\ Resolve(s, o).session = s
      BY <1>5, LoopItems
    <3>3. loopQ' \in Seq(LoopItem) /\ DOMAIN loopQ' = {1} /\ loopQ'[1] = Resolve(s, o)
      BY <3>1, <3>2
    <3>4. LoopShape' /\ ResolvedOnce'
      BY <2>1, <2>3, <3>2, <3>3, <1>1, <1>3 DEF LoopShape, ResolvedOnce
    <3> QED BY <3>3, <3>4, <2>1, <1>1 DEF LoopInv, TypeOK
  <2> QED BY <2>2, <2>3, <1>3, <1>7, DispatchFacts
<1> QED BY <1>4, <1>6, <1>7 DEF StartCoroutine

LEMMA ResumeLoop ==
  ASSUME LoopInv, ResumeCoroutine
  PROVE  LoopInv'
<1>1. /\ UNCHANGED <<callChan, sending, raised, handled, worker, loop, login, future, ready, client, announced>>
      /\ coro = "waiting" /\ Dispatch(worker, loopQ)
  BY DEF ResumeCoroutine, goVars, envVars
<1>2. worker \in Event /\ worker # None /\ worker.kind = "message"
  BY <1>1 DEF LoopInv, TypeOK, LoopShape
<1>3. coro' = "done" /\ logged' \in [Session -> BOOLEAN] /\ loopQ' = loopQ
  BY <1>1, <1>2, DispatchFacts
<1>4. LoopShape' /\ ResolvedOnce'
  BY <1>1, <1>2, <1>3 DEF LoopInv, LoopShape, ResolvedOnce
<1> QED BY <1>1, <1>3, <1>4 DEF LoopInv, TypeOK

(* A callback runs first in the queue; what is behind it is an event. *)
LEMMA PopCallback ==
  ASSUME LoopInv, loopQ # <<>>, Head(loopQ) # RunEvent
  PROVE  /\ Tail(loopQ) \in Seq(LoopItem)
         /\ \A i \in DOMAIN Tail(loopQ) :
              Tail(loopQ)[i] = RunEvent /\ i = Len(Tail(loopQ)) /\ coro = "scheduled"
<1>1. loopQ \in Seq(LoopItem)
  BY DEF LoopInv, TypeOK
<1>2. /\ Tail(loopQ) \in Seq(LoopItem) /\ Len(Tail(loopQ)) = Len(loopQ) - 1
      /\ \A i \in DOMAIN Tail(loopQ) :
           Tail(loopQ)[i] = loopQ[i + 1] /\ i + 1 \in DOMAIN loopQ /\ i \in 1..Len(Tail(loopQ))
  BY <1>1, HeadTail
<1> QED BY <1>1, <1>2 DEF LoopInv, LoopShape

LEMMA RunResolveLoop ==
  ASSUME LoopInv, RunResolve
  PROVE  LoopInv'
<1>1. /\ UNCHANGED <<callChan, sending, raised, handled, worker, coro, loop, login, logged, ready, client, announced>>
      /\ loopQ # <<>> /\ Head(loopQ) # RunEvent /\ loopQ' = Tail(loopQ)
      /\ future' = [future EXCEPT ![Head(loopQ).session] = Head(loopQ).outcome]
  BY DEF RunResolve, goVars, envVars
<1>2. future' \in [Session -> {"pending", "result", "error"}]
  BY <1>1, HeadTail, LoopItems DEF LoopInv, TypeOK
<1>3. LoopShape' /\ ResolvedOnce' /\ loopQ' \in Seq(LoopItem)
  BY <1>1, PopCallback DEF LoopInv, LoopShape, ResolvedOnce
<1> QED BY <1>1, <1>2, <1>3 DEF LoopInv, TypeOK

LEMMA LoginLoop ==
  ASSUME LoopInv, NEW s \in Session, Login(s)
  PROVE  LoopInv'
<1>1. /\ UNCHANGED <<callChan, sending, raised, handled, worker, coro, loop, logged, ready>>
      /\ future' = [future EXCEPT ![s] = "pending"]
      /\ announced' \in [Session -> BOOLEAN]
  BY DEF Login, goVars, LoopInv, TypeOK
<1>2. login' \in [Session -> LoginStage] /\ client' \in [Session -> {"none", "up", "down"}]
  BY DEF Login, LoopInv, TypeOK, LoginStage
<1>3. future' \in [Session -> {"pending", "result", "error"}]
  BY <1>1 DEF LoopInv, TypeOK
<1>4. CASE loopQ' = loopQ
  <2>1. LoopShape' /\ ResolvedOnce'
    <3>1. \A t \in Session : future[t] = "pending" => future'[t] = "pending"
      BY <1>1 DEF LoopInv, TypeOK
    <3>2. \A i \in DOMAIN loopQ : loopQ[i] # RunEvent => loopQ[i].session \in Session
      BY LoopItems DEF LoopInv, TypeOK
    <3>3. LoopShape'
      BY <1>1, <1>4 DEF LoopInv, LoopShape
    <3>4. ResolvedOnce'
      BY <1>1, <1>4, <3>1, <3>2 DEF LoopInv, ResolvedOnce
    <3> QED BY <3>3, <3>4
  <2> QED BY <2>1, <1>1, <1>2, <1>3, <1>4 DEF LoopInv, TypeOK
<1>5. CASE loopQ # <<>> /\ Head(loopQ) \in {Resolve(s, "result"), Resolve(s, "error")} /\ loopQ' = Tail(loopQ)
  <2>1. Head(loopQ) # RunEvent
    BY <1>5, LoopItems
  <2>2. LoopShape' /\ ResolvedOnce' /\ loopQ' \in Seq(LoopItem)
    BY <1>1, <1>5, <2>1, PopCallback DEF LoopInv, LoopShape, ResolvedOnce
  <2> QED BY <2>2, <1>1, <1>2, <1>3 DEF LoopInv, TypeOK
<1> QED BY <1>4, <1>5 DEF Login

LEMMA OtherLoop ==
  ASSUME LoopInv, NEW s \in Session,
         \/ LoginReturns(s) \/ FillContacts(s) \/ FetchReturns(s) \/ FillBookmarks(s)
         \/ Refresh(s) \/ Logout(s)
  PROVE  LoopInv'
<1>1. UNCHANGED <<goVars, coro, loopQ, future, announced>>
  BY DEF LoginReturns, FillContacts, FetchReturns, FillBookmarks, Refresh, Logout, envVars
<1>2. /\ login' = login \/ \E l \in LoginStage : login' = [login EXCEPT ![s] = l]
      /\ logged' = logged \/ \E b \in BOOLEAN : logged' = [logged EXCEPT ![s] = b]
      /\ ready' = ready \/ \E r \in {"contacts", "bookmarks"} :
                             ready' = [ready EXCEPT ![s] = @ \cup {r}]
      /\ client' = client \/ client' = [client EXCEPT ![s] = "none"]
      /\ loop' \in {loop, s, Free}
  <2>1. CASE LoginReturns(s)
    BY <2>1 DEF LoginReturns, LoginStage, envVars
  <2>2. CASE FillContacts(s)
    BY <2>2 DEF FillContacts, LoginStage, envVars
  <2>3. CASE FetchReturns(s)
    BY <2>3 DEF FetchReturns, LoginStage, envVars
  <2>4. CASE FillBookmarks(s)
    BY <2>4 DEF FillBookmarks, LoginStage, envVars
  <2>5. CASE Refresh(s)
    BY <2>5 DEF Refresh, envVars
  <2>6. CASE Logout(s)
    BY <2>6 DEF Logout
  <2> QED BY <2>1, <2>2, <2>3, <2>4, <2>5, <2>6
<1>3. /\ login \in [Session -> LoginStage] /\ logged \in [Session -> BOOLEAN]
      /\ ready \in [Session -> SUBSET {"contacts", "bookmarks"}]
      /\ client \in [Session -> {"none", "up", "down"}] /\ loop \in Session \cup {Free}
  BY DEF LoopInv, TypeOK
<1>4. login' \in [Session -> LoginStage]
  BY <1>2, <1>3
<1>5. logged' \in [Session -> BOOLEAN]
  BY <1>2, <1>3
<1>6. ready' \in [Session -> SUBSET {"contacts", "bookmarks"}]
  <2>1. ASSUME NEW r \in {"contacts", "bookmarks"}
        PROVE  [ready EXCEPT ![s] = @ \cup {r}] \in [Session -> SUBSET {"contacts", "bookmarks"}]
    BY <1>3
  <2> QED BY <2>1, <1>2, <1>3
<1>7. client' \in [Session -> {"none", "up", "down"}] /\ loop' \in Session \cup {Free}
  BY <1>2, <1>3
<1> QED BY <1>1, <1>4, <1>5, <1>6, <1>7, LoopFrame DEF LoopInv, TypeOK, goVars

LEMMA LoopInvInit == Init => LoopInv
BY PipelineAssumption DEF Init, LoopInv, TypeOK, LoopShape, ResolvedOnce, LoginStage, Producer

LEMMA LoopInvStep ==
  ASSUME LoopInv, [Next]_vars
  PROVE  LoopInv'
<1>1. CASE UNCHANGED vars
  BY <1>1, LoopFrame DEF vars, goVars, pyVars, envVars, LoopInv, TypeOK
<1>2. CASE Progress
  BY <1>2, SendLoop, TakeLoop, FinishLoop, StartLoop, ResumeLoop, RunResolveLoop, OtherLoop
     DEF Progress
<1>3. CASE Environment
  BY <1>3, HandleEventLoop, LoginLoop, FetchDispatchLoop, OtherLoop DEF Environment
<1> QED BY <1>1, <1>2, <1>3 DEF Next

(* EventPipeline keeps its types: the channel never exceeds its capacity   *)
(* and no thread is ever blocked with anything but an event of its own.    *)
THEOREM TypeCorrect == Spec => []TypeOK
<1>1. Init => LoopInv
  BY LoopInvInit
<1>2. LoopInv /\ [Next]_vars => LoopInv'
  BY LoopInvStep
<1>3. LoopInv => TypeOK
  BY DEF LoopInv
<1> QED BY <1>1, <1>2, <1>3, PTL DEF Spec

LEMMA LoopInvariant == Spec => []LoopInv
<1>1. Init => LoopInv
  BY LoopInvInit
<1>2. LoopInv /\ [Next]_vars => LoopInv'
  BY LoopInvStep
<1> QED BY <1>1, <1>2, PTL DEF Spec

(* Session.__connected never gets a second result, however many Connect    *)
(* events and failures the clients of a session report (on_wa_connect).    *)
THEOREM ConnectedResolvedOnce == Spec => []ResolvedOnce
<1>1. LoopInv => ResolvedOnce
  BY DEF LoopInv
<1> QED BY <1>1, LoopInvariant, PTL
-----------------------------------------------------------------------------
(* Order: the events of a thread reach the worker once each, in order.     *)
LEMMA InOrderInit == Init => InOrder
<1> SUFFICES ASSUME Init PROVE InOrder
  OBVIOUS
<1>1. /\ \A p \in Producer : sending[p] = None /\ raised[p] = 0 /\ handled[p] = 0
      /\ worker = None /\ callChan = <<>>
  BY DEF Init
<1>2. \A p \in Producer : Sent[p] = 0
  BY <1>1 DEF Sent
<1>3. DOMAIN callChan = {}
  BY <1>1
<1> QED BY <1>1, <1>2, <1>3 DEF InOrder, HandledSent, SendingLast, WorkerHasNext,
           ChannelBehindWorker, ChannelSorted, NothingLost

LEMMA InOrderStep ==
  ASSUME LoopInv, InOrder, [Next]_vars
  PROVE  InOrder'
<1>1. GoTypeOK
  BY DEF LoopInv, TypeOK, GoTypeOK
<1>2. CASE PropagateStep
  BY <1>1, <1>2, PropagateKeepsOrder
<1>3. CASE \E p \in Producer : Send(p)
  BY <1>1, <1>3, SendKeepsOrder
<1>4. CASE Take
  BY <1>1, <1>4, TakeKeepsOrder
<1>5. CASE Finish
  <2>1. worker # None
    BY <1>5 DEF Finish, LoopInv, LoopShape
  <2> QED BY <2>1, <1>1, <1>5, FinishKeepsOrder
<1>6. CASE UNCHANGED goVars
  <2>1. UNCHANGED <<callChan, sending, raised, handled, worker, Sent>>
    BY <1>6 DEF goVars, Sent
  <2> QED BY <2>1 DEF InOrder, HandledSent, SendingLast, WorkerHasNext,
             ChannelBehindWorker, ChannelSorted, NothingLost
<1> QED BY <1>2, <1>3, <1>4, <1>5, <1>6, StepKinds

LEMMA PipelineInvariant == Spec => [](LoopInv /\ InOrder)
<1>1. Init => LoopInv /\ InOrder
  BY LoopInvInit, InOrderInit
<1>2. LoopInv /\ InOrder /\ [Next]_vars => (LoopInv /\ InOrder)'
  BY LoopInvStep, InOrderStep
<1> QED BY <1>1, <1>2, PTL DEF Spec

(* No event is lost, repeated or overtaken by a later one of its thread    *)
(* between propagateEvent and the end of its handler.                      *)
THEOREM EventsInOrder == Spec => []InOrder
BY PipelineInvariant, PTL

(* The pipeline implements the promise of EventDelivery: raising an event  *)
(* is DRaise, taking its closure DBegin, the end of its handler DFinish,   *)
(* and every other step is invisible.                                      *)
THEOREM ImplementsDelivery == Spec => Delivers
<1>1. Init => Delivery!DInit
  BY DEF Init, Delivery!DInit
<1>2. ASSUME LoopInv, InOrder, [Next]_vars
      PROVE  [Delivery!DNext]_(Delivery!dvars)
  <2> USE DEF Delivery!dvars
  <2>1. GoTypeOK
    BY <1>2 DEF LoopInv, TypeOK, GoTypeOK
  <2>2. CASE PropagateStep
    <3>1. PICK p \in Producer, kind \in Kind : Propagate(p, kind)
      BY <2>2 DEF PropagateStep
    <3>2. Delivery!DRaise(p)
      BY <3>1, <2>2 DEF Delivery!DRaise, Propagate, PropagateStep
    <3> QED BY <3>2 DEF Delivery!DNext
  <2>3. CASE \E p \in Producer : Send(p)
    BY <2>3 DEF Send
  <2>4. CASE Take
    <3>1. GoTypeOK' /\ InOrder'
      BY <2>1, <2>4, <1>2, TakeKeepsOrder
    <3>2. worker = None /\ worker' # None /\ UNCHANGED <<raised, handled>>
      BY <2>1, <2>4, HeadTail, EventFields DEF Take, GoTypeOK
    <3> DEFINE p == worker'.from
    <3>3. p \in Producer /\ p # None
      BY <3>1, <3>2, EventFields, PipelineAssumption DEF GoTypeOK
    <3>4. handled'[p] < raised'[p]
      <4>1. worker'.n = handled'[p] + 1 /\ worker'.n <= Sent'[p]
        BY <3>1, <3>2 DEF InOrder, WorkerHasNext
      <4>2. Sent'[p] <= raised'[p] /\ Sent'[p] \in Int /\ handled'[p] \in Nat /\ raised'[p] \in Nat
        BY <3>1, <3>3 DEF GoTypeOK, Sent
      <4> QED BY <4>1, <4>2
    <3>5. Delivery!DBegin(p)
      BY <3>2, <3>3, <3>4 DEF Delivery!DBegin
    <3> QED BY <3>3, <3>5 DEF Delivery!DNext
  <2>5. CASE Finish
    <3> DEFINE p == worker.from
    <3>1. worker # None
      BY <2>5, <1>2 DEF Finish, LoopInv, LoopShape
    <3>2. p \in Producer /\ worker.n = handled[p] + 1
      BY <3>1, <2>1, <1>2, EventFields DEF GoTypeOK, InOrder, WorkerHasNext
    <3>3. Delivery!DFinish(p)
      BY <3>1, <3>2, <2>5 DEF Finish, Delivery!DFinish
    <3> QED BY <3>2, <3>3 DEF Delivery!DNext
  <2>6. CASE UNCHANGED goVars
    BY <2>6 DEF goVars
  <2> QED BY <1>2, <2>2, <2>3, <2>4, <2>5, <2>6, StepKinds
<1> QED BY <1>1, <1>2, PipelineInvariant, PTL DEF Spec, Delivers, Delivery!DSpec
-----------------------------------------------------------------------------
(* WaitsForFill.  A login in the making is the first thing of its session,  *)
(* then its Connect event, then its messages: the events of a session that  *)
(* is not filled follow its login, and a message follows its Connect event  *)
(* all along the pipeline.                                                  *)
Harmless == {"connect", "pair", "message"}
Benign == Adverse \subseteq {"refresh"} /\ Raisable \subseteq Harmless

Started(s) == Filled(s) \/ login[s] # "idle"

Queued(r) == \E i \in DOMAIN loopQ : loopQ[i] = r

(* The Connect event of s has been handled: what WaitsForFill promises. *)
Arrived(s) ==
  \/ Filled(s)
  \/ login[s] \in {"contacts", "fetching", "bookmarks"}
  \/ login[s] = "connecting" /\ future[s] = "result"
  \/ Queued(Resolve(s, "result"))

ConnectOf(e, s) == e.kind = "connect" /\ SessionOf(e.from) = s
AtWorker(s) == worker # None /\ coro = "scheduled" /\ ConnectOf(worker, s)

NoFailure ==
  /\ worker # None => worker.kind \in Harmless
  /\ \A p \in Producer : sending[p] # None => sending[p].kind \in Harmless
  /\ \A i \in DOMAIN callChan : callChan[i].kind \in Harmless
  /\ \A s \in Session : ~ Queued(Resolve(s, "error")) /\ future[s] # "error"

Steady ==
  \A s \in Session : login[s] # "idle" /\ ~ Filled(s) =>
    /\ client[s] = "up"
    /\ login[s] = "bookmarks" => "contacts" \in ready[s]

StartedFirst ==
  /\ \A s \in Session :
       client[s] = "up" \/ announced[s] \/ logged[s] \/ Queued(Resolve(s, "result")) => Started(s)
  /\ worker # None => Started(SessionOf(worker.from))
  /\ \A p \in Producer : sending[p] # None => Started(SessionOf(p))
  /\ \A i \in DOMAIN callChan : Started(SessionOf(callChan[i].from))

Fetching == \A s \in Session : loop = s => Filled(s) \/ login[s] = "fetching"

AnnouncedComes ==
  \A s \in Session : announced[s] =>
    Arrived(s) \/ AtWorker(s) \/ \E i \in DOMAIN callChan : ConnectOf(callChan[i], s)

SendingAfter ==
  \A p \in Producer : sending[p] # None /\ sending[p].kind = "message" =>
    announced[SessionOf(p)] \/ Arrived(SessionOf(p))

QueuedAfter ==
  \A i \in DOMAIN callChan : callChan[i].kind = "message" =>
    LET s == SessionOf(callChan[i].from) IN
    Arrived(s) \/ AtWorker(s) \/ \E j \in DOMAIN callChan : j < i /\ ConnectOf(callChan[j], s)

WorkedAfter ==
  worker # None /\ worker.kind = "message" => Arrived(SessionOf(worker.from))

FillInv ==
  /\ LoopInv /\ InOrder
  /\ NoFailure /\ Steady /\ StartedFirst /\ Fetching
  /\ AnnouncedComes /\ SendingAfter /\ QueuedAfter /\ WorkedAfter

(* What the queue holds once its head has been taken. *)
LEMMA QueuedRest ==
  ASSUME loopQ \in Seq(LoopItem), loopQ # <<>>, loopQ' = Tail(loopQ)
  PROVE  /\ \A r : Queued(r)' => Queued(r)
         /\ \A r : Queued(r) /\ r # Head(loopQ) => Queued(r)'
<1>1. /\ Head(loopQ) = loopQ[1] /\ Len(loopQ) \in Nat /\ DOMAIN loopQ = 1..Len(loopQ)
      /\ DOMAIN loopQ' = 1..(Len(loopQ) - 1)
      /\ \A i \in DOMAIN loopQ' : loopQ'[i] = loopQ[i + 1] /\ i + 1 \in DOMAIN loopQ
  BY HeadTail
<1>2. ASSUME NEW i \in DOMAIN loopQ'
      PROVE  Queued(loopQ'[i])
  BY <1>1, Zenon DEF Queued
<1>3. ASSUME NEW i \in DOMAIN loopQ, loopQ[i] # Head(loopQ)
      PROVE  \E j \in DOMAIN loopQ' : loopQ'[j] = loopQ[i]
  <2>1. i - 1 \in DOMAIN loopQ' /\ (i - 1) + 1 = i
    BY <1>1, <1>3
  <2> QED BY <1>1, <2>1
<1>4. ASSUME NEW r, Queued(r)' PROVE Queued(r)
  <2>1. PICK i \in DOMAIN loopQ' : loopQ'[i] = r
    BY <1>4 DEF Queued
  <2> QED BY <1>2, <2>1
<1>5. ASSUME NEW r, Queued(r), r # Head(loopQ) PROVE Queued(r)'
  <2>1. PICK i \in DOMAIN loopQ : loopQ[i] = r
    BY <1>5 DEF Queued
  <2>2. PICK j \in DOMAIN loopQ' : loopQ'[j] = loopQ[i]
    BY <1>3, <1>5, <2>1
  <2> QED BY <2>1, <2>2 DEF Queued
<1> QED BY <1>4, <1>5

LEMMA AppendItems ==
  ASSUME NEW S, NEW q \in Seq(S), NEW e \in S, NEW r
  PROVE  (\E i \in DOMAIN Append(q, e) : Append(q, e)[i] = r) <=>
           r = e \/ \E i \in DOMAIN q : q[i] = r
<1>1. ASSUME NEW i \in DOMAIN Append(q, e), Append(q, e)[i] = r
      PROVE  r = e \/ \E j \in DOMAIN q : q[j] = r
  BY <1>1, AppendFacts
<1>2. Len(q) + 1 \in DOMAIN Append(q, e) /\ \A i \in DOMAIN q : i \in DOMAIN Append(q, e)
  BY AppendFacts
<1> QED BY <1>1, <1>2, AppendFacts

(* The callbacks queued, step by step. *)
LEMMA TakeQueue ==
  ASSUME LoopInv, Take, NEW r, r # RunEvent
  PROVE  Queued(r)' <=> Queued(r)
<1>1. loopQ \in Seq(LoopItem) /\ loopQ' = Append(loopQ, RunEvent) /\ RunEvent \in LoopItem
  BY LoopItems DEF LoopInv, TypeOK, Take
<1> HIDE DEF RunEvent
<1>2. (\E i \in DOMAIN loopQ' : loopQ'[i] = r) <=> r = RunEvent \/ \E i \in DOMAIN loopQ : loopQ[i] = r
  BY <1>1, AppendItems
<1> QED BY <1>2 DEF Queued

LEMMA RunQueue ==
  ASSUME FillInv, StartCoroutine \/ ResumeCoroutine
  PROVE  LET w == SessionOf(worker.from) IN
         /\ UNCHANGED <<callChan, sending, worker, loop, login, logged, future, ready, client, announced>>
         /\ worker # None /\ w \in Session
         /\ coro' # "scheduled"
         /\ \A s \in Session : Queued(Resolve(s, "error"))' => Queued(Resolve(s, "error"))
         /\ \A s \in Session :
              /\ Queued(Resolve(s, "result")) => Queued(Resolve(s, "result"))'
              /\ Queued(Resolve(s, "result"))' => s = w \/ Queued(Resolve(s, "result"))
         /\ AtWorker(w) => future[w] # "pending" \/ Queued(Resolve(w, "result"))'
<1> DEFINE w == SessionOf(worker.from)
<1>1. /\ UNCHANGED <<callChan, sending, worker, loop, login, future, ready, client, announced>>
      /\ loopQ \in Seq(LoopItem)
      /\ coro # "none"
  <2>1. CASE StartCoroutine
    <3>1. loopQ # <<>> /\ loopQ[1] = RunEvent /\ loopQ \in Seq(LoopItem)
      BY <2>1 DEF StartCoroutine, FillInv, LoopInv, TypeOK
    <3>2. 1 \in DOMAIN loopQ
      BY <3>1, HeadTail
    <3>3. coro = "scheduled"
      BY <3>1, <3>2 DEF FillInv, LoopInv, LoopShape
    <3> QED BY <2>1, <3>1, <3>3 DEF StartCoroutine, goVars, envVars
  <2>2. CASE ResumeCoroutine
    BY <2>2 DEF ResumeCoroutine, goVars, envVars, FillInv, LoopInv, TypeOK
  <2> QED BY <2>1, <2>2
<1>2. worker # None /\ worker \in Event /\ w \in Session /\ worker.kind \in Harmless
  BY <1>1, EventFields, SessionOfType DEF FillInv, LoopInv, TypeOK, LoopShape, NoFailure
<1>3. ASSUME NEW queue \in Seq(LoopItem), Dispatch(worker, queue)
      PROVE  /\ coro' = "done" /\ logged' = logged
             /\ \/ loopQ' = queue /\ (worker.kind = "connect" => future[w] # "pending")
                \/ loopQ' = Append(queue, Resolve(w, "result"))
  BY <1>2, <1>3, Zenon DEF Dispatch, OnConnect, Harmless
<1>4. ASSUME NEW queue \in Seq(LoopItem),
             \A r : r # RunEvent => (Queued(r) <=> \E i \in DOMAIN queue : queue[i] = r),
             Dispatch(worker, queue)
      PROVE  /\ coro' = "done" /\ logged' = logged
             /\ \A s \in Session : Queued(Resolve(s, "error"))' => Queued(Resolve(s, "error"))
             /\ \A s \in Session :
                  /\ Queued(Resolve(s, "result")) => Queued(Resolve(s, "result"))'
                  /\ Queued(Resolve(s, "result"))' => s = w \/ Queued(Resolve(s, "result"))
             /\ worker.kind = "connect" => future[w] # "pending" \/ Queued(Resolve(w, "result"))'
  <2>1. coro' = "done" /\ logged' = logged
    BY <1>3, <1>4
  <2>2. \A s \in Session, o \in {"result", "error"} :
          /\ Resolve(s, o) # RunEvent
          /\ Resolve(s, o) = Resolve(w, "result") => s = w /\ o = "result"
    BY LoopItems DEF Resolve
  <2>3. CASE loopQ' = queue /\ (worker.kind = "connect" => future[w] # "pending")
    <3>1. \A r : r # RunEvent => (Queued(r)' <=> Queued(r))
      BY <1>4, <2>3 DEF Queued
    <3> QED BY <2>1, <2>2, <2>3, <3>1
  <2>4. CASE loopQ' = Append(queue, Resolve(w, "result"))
    <3>1. \A r : r # RunEvent => (Queued(r)' <=> r = Resolve(w, "result") \/ Queued(r))
      <4>1. Resolve(w, "result") \in LoopItem
        BY <1>2, LoopItems
      <4>2. ASSUME NEW r, r # RunEvent
            PROVE  Queued(r)' <=> r = Resolve(w, "result") \/ Queued(r)
        <5>1. (\E i \in DOMAIN loopQ' : loopQ'[i] = r) <=>
                r = Resolve(w, "result") \/ \E i \in DOMAIN queue : queue[i] = r
          BY <2>4, <4>1, <1>4, AppendItems
        <5> QED BY <5>1, <4>2, <1>4 DEF Queued
      <4> QED BY <4>2
    <3>2. ASSUME NEW s \in Session
          PROVE  /\ Queued(Resolve(s, "error"))' => Queued(Resolve(s, "error"))
                 /\ Queued(Resolve(s, "result")) => Queued(Resolve(s, "result"))'
                 /\ Queued(Resolve(s, "result"))' => s = w \/ Queued(Resolve(s, "result"))
      <4>1. /\ Resolve(s, "error") # RunEvent /\ Resolve(s, "error") # Resolve(w, "result")
            /\ Resolve(s, "result") # RunEvent
            /\ Resolve(s, "result") = Resolve(w, "result") => s = w
        BY <2>2
      <4> QED BY <3>1, <4>1
    <3>3. Queued(Resolve(w, "result"))'
      <4>1. Resolve(w, "result") # RunEvent /\ w' = w
        BY <1>1, <1>2, <2>2
      <4> QED BY <3>1, <4>1
    <3> QED BY <2>1, <3>2, <3>3
  <2> QED BY <1>3, <1>4, <2>3, <2>4
<1>5. CASE StartCoroutine
  <2>1. loopQ # <<>> /\ Head(loopQ) = RunEvent
    BY <1>5 DEF StartCoroutine
  <2> DEFINE rest == Tail(loopQ)
  <2>2. rest \in Seq(LoopItem) /\ rest = Tail(loopQ)
    BY <1>1, <2>1, HeadTail
  <2> HIDE DEF rest
  <2>3. \A r : r # RunEvent => (Queued(r) <=> \E i \in DOMAIN rest : rest[i] = r)
    <3>1. /\ loopQ[1] = RunEvent /\ Len(loopQ) \in Nat /\ DOMAIN loopQ = 1..Len(loopQ)
          /\ DOMAIN rest = 1..(Len(loopQ) - 1)
          /\ \A i \in DOMAIN rest : rest[i] = loopQ[i + 1]
      BY <1>1, <2>1, <2>2, HeadTail
    <3>2. ASSUME NEW i \in DOMAIN rest
          PROVE  Queued(rest[i])
      <4>1. i + 1 \in DOMAIN loopQ /\ loopQ[i + 1] = rest[i]
        BY <3>1
      <4> QED BY <4>1, Zenon DEF Queued
    <3>3. ASSUME NEW i \in DOMAIN loopQ, loopQ[i] # RunEvent
          PROVE  \E j \in DOMAIN rest : rest[j] = loopQ[i]
      <4>1. i - 1 \in DOMAIN rest /\ (i - 1) + 1 = i
        BY <3>1, <3>3
      <4> QED BY <3>1, <4>1
    <3> QED BY <3>2, <3>3, Zenon DEF Queued
  <2>4. CASE Dispatch(worker, rest)
    BY <1>1, <1>2, <1>4, <2>2, <2>3, <2>4 DEF AtWorker, ConnectOf
  <2>5. CASE /\ ~ Exempt(worker.kind)
             /\ coro' = "waiting" /\ loopQ' = rest /\ UNCHANGED logged
    <3>1. \A r : r # RunEvent => (Queued(r)' <=> Queued(r))
      BY <2>3, <2>5 DEF Queued
    <3>2. ~ AtWorker(w)
      BY <2>5 DEF AtWorker, ConnectOf, Exempt
    <3> QED BY <1>1, <1>2, <2>5, <3>1, <3>2, LoopItems
  <2> QED BY <1>5, <2>2, <2>4, <2>5 DEF StartCoroutine
<1>6. CASE ResumeCoroutine
  BY <1>1, <1>2, <1>4, <1>6 DEF ResumeCoroutine, Queued, AtWorker, ConnectOf
<1> QED BY <1>5, <1>6

LEMMA ResolveQueue ==
  ASSUME FillInv, RunResolve
  PROVE  \E s \in Session :
           /\ Queued(Resolve(s, "result"))
           /\ future' = [future EXCEPT ![s] = "result"]
           /\ \A t \in Session \ {s} : Queued(Resolve(t, "result")) => Queued(Resolve(t, "result"))'
           /\ \A r : Queued(r)' => Queued(r)
<1> DEFINE r == Head(loopQ)
<1>1. /\ loopQ \in Seq(LoopItem) /\ loopQ # <<>>
      /\ r = Head(loopQ) /\ r \in LoopItem /\ r # RunEvent
      /\ 1 \in DOMAIN loopQ /\ r = loopQ[1]
      /\ loopQ' = Tail(loopQ) /\ future' = [future EXCEPT ![r.session] = r.outcome]
  BY HeadTail DEF FillInv, LoopInv, TypeOK, RunResolve
<1> HIDE DEF r
<1>2. PICK s \in Session, o \in {"result", "error"} : r = Resolve(s, o)
  BY <1>1 DEF LoopItem, Resolve
<1>3. Queued(r)
  BY <1>1 DEF Queued
<1>4. o = "result" /\ r.session = s /\ r.outcome = "result"
  BY <1>2, <1>3 DEF FillInv, NoFailure, Resolve
<1>5. \A x : Queued(x)' => Queued(x)
  BY <1>1, QueuedRest, Zenon
<1>6. \A x : x # r /\ Queued(x) => Queued(x)'
  BY <1>1, QueuedRest, Zenon
<1>7. \A t \in Session \ {s} : Resolve(t, "result") # r
  BY <1>2 DEF Resolve
<1> QED BY <1>1, <1>2, <1>3, <1>4, <1>5, <1>6, <1>7

LEMMA LoginQueue ==
  ASSUME LoopInv, NEW s \in Session, Login(s)
  PROVE  /\ \A r : Queued(r)' => Queued(r)
         /\ \A t \in Session \ {s} : Queued(Resolve(t, "result")) => Queued(Resolve(t, "result"))'
<1>1. \/ loopQ' = loopQ
      \/ /\ loopQ # <<>> /\ Head(loopQ) \in {Resolve(s, "result"), Resolve(s, "error")}
         /\ loopQ' = Tail(loopQ)
  BY DEF Login
<1>2. loopQ \in Seq(LoopItem)
  BY DEF LoopInv, TypeOK
<1>3. \A t \in Session \ {s} : Resolve(t, "result") \notin {Resolve(s, "result"), Resolve(s, "error")}
  BY DEF Resolve
<1>4. \A r : Queued(r)' => Queued(r)
  <2>1. CASE loopQ' = loopQ
    BY <2>1 DEF Queued
  <2>2. CASE loopQ # <<>> /\ loopQ' = Tail(loopQ)
    BY <1>2, <2>2, QueuedRest, Zenon
  <2> QED BY <1>1, <2>1, <2>2
<1>5. \A r : Queued(r) /\ r \notin {Resolve(s, "result"), Resolve(s, "error")} => Queued(r)'
  <2>1. CASE loopQ' = loopQ
    BY <2>1 DEF Queued
  <2>2. CASE /\ loopQ # <<>> /\ Head(loopQ) \in {Resolve(s, "result"), Resolve(s, "error")}
             /\ loopQ' = Tail(loopQ)
    <3>1. \A r : Queued(r) /\ r # Head(loopQ) => Queued(r)'
      BY <1>2, <2>2, QueuedRest, Zenon
    <3> QED BY <2>2, <3>1
  <2> QED BY <1>1, <2>1, <2>2
<1> QED BY <1>3, <1>4, <1>5

(* What the loop does to the logins. *)
LEMMA LoginStages ==
  ASSUME FillInv, Benign, NEW s \in Session,
         LoginReturns(s) \/ FillContacts(s) \/ FetchReturns(s) \/ FillBookmarks(s)
  PROVE  /\ UNCHANGED <<goVars, coro, loopQ, future, envVars>>
         /\ \A t \in Session \ {s} : login'[t] = login[t] /\ logged'[t] = logged[t] /\ ready'[t] = ready[t]
         /\ ready[s] \subseteq ready'[s]
         /\ logged'[s] # logged[s] => login[s] = "connecting" /\ login'[s] = "contacts"
         /\ Filled(s)' \/ login'[s] \in {"contacts", "fetching", "bookmarks"} \/ login'[s] = login[s]
         /\ ~ Filled(s)' /\ login'[s] = "bookmarks" => "contacts" \in ready'[s]
         /\ login'[s] # "idle" \/ login[s] = "idle" \/ Filled(s)'
         /\ login[s] = "idle" => login'[s] = "idle"
         /\ loop' \in {loop, Free} \/ (loop' = s /\ login'[s] = "fetching")
         /\ login[s] = "fetching" => loop' = Free
<1> USE DEF FillInv, LoopInv, TypeOK
<1>1. login[s] # "idle" /\ ~ Filled(s) =>
        client[s] = "up" /\ (login[s] = "bookmarks" => "contacts" \in ready[s])
  BY DEF Steady
<1>2. /\ login \in [Session -> LoginStage] /\ logged \in [Session -> BOOLEAN]
      /\ ready \in [Session -> SUBSET {"contacts", "bookmarks"}]
  OBVIOUS
<1>3. CASE LoginReturns(s)
  <2>1. future[s] = "result"
    BY <1>3 DEF LoginReturns, NoFailure
  <2>2. /\ login[s] = "connecting"
        /\ login' = [login EXCEPT ![s] = "contacts"] /\ logged' = [logged EXCEPT ![s] = TRUE]
        /\ UNCHANGED <<goVars, coro, loopQ, loop, future, ready, envVars>>
    BY <1>3, <2>1 DEF LoginReturns
  <2> QED BY <1>2, <2>2 DEF Filled
<1>4. CASE FillContacts(s)
  <2>1. /\ login[s] = "contacts"
        /\ UNCHANGED <<goVars, coro, loopQ, logged, future, envVars>>
    BY <1>4 DEF FillContacts
  <2>2. CASE client[s] = "none" /\ login' = [login EXCEPT ![s] = "idle"] /\ UNCHANGED <<loop, ready>>
    BY <1>1, <1>2, <2>1, <2>2 DEF Filled
  <2>3. CASE login' = [login EXCEPT ![s] = "fetching"] /\ loop' = s /\ UNCHANGED ready
    BY <1>2, <2>1, <2>3 DEF Filled
  <2>4. CASE /\ login' = [login EXCEPT ![s] = "bookmarks"]
             /\ ready' = [ready EXCEPT ![s] = @ \cup {"contacts"}] /\ UNCHANGED loop
    BY <1>2, <2>1, <2>4 DEF Filled
  <2> QED BY <1>4, <2>2, <2>3, <2>4 DEF FillContacts
<1>5. CASE FetchReturns(s)
  <2>1. loop' = Free /\ UNCHANGED <<goVars, coro, loopQ, logged, future, envVars>>
    BY <1>5 DEF FetchReturns
  <2>2. CASE login[s] = "fetching"
    BY <1>2, <1>5, <2>1, <2>2 DEF FetchReturns, Filled
  <2>3. CASE login[s] # "fetching"
    BY <1>1, <1>2, <1>5, <2>1, <2>3 DEF FetchReturns, Filled
  <2> QED BY <2>2, <2>3
<1>6. CASE FillBookmarks(s)
  <2>1. /\ login[s] = "bookmarks" /\ login' = [login EXCEPT ![s] = "idle"]
        /\ UNCHANGED <<goVars, coro, loopQ, loop, logged, future, envVars>>
    BY <1>6 DEF FillBookmarks
  <2>2. CASE ready' = [ready EXCEPT ![s] = @ \cup {"bookmarks"}]
    <3>1. Filled(s) \/ "contacts" \in ready[s]
      BY <1>1, <2>1
    <3>2. Filled(s)'
      BY <1>2, <2>2, <3>1 DEF Filled
    <3> QED BY <1>2, <2>1, <2>2, <3>2
  <2>3. CASE (client[s] # "up" \/ "query" \in Adverse) /\ UNCHANGED ready
    <3>1. Filled(s)
      BY <1>1, <2>1, <2>3 DEF Benign
    <3>2. Filled(s)'
      BY <2>3, <3>1 DEF Filled
    <3> QED BY <1>2, <2>1, <2>3, <3>2
  <2> QED BY <1>6, <2>2, <2>3 DEF FillBookmarks
<1> QED BY <1>3, <1>4, <1>5, <1>6

(* Nothing that has come this far is taken back. *)
LEMMA Grows ==
  ASSUME FillInv, Benign, [Next]_vars, NEW s \in Session
  PROVE  /\ Filled(s) => Filled(s)'
         /\ Started(s) => Started(s)'
         /\ Arrived(s) => Arrived(s)'
         /\ AtWorker(s) => AtWorker(s)' \/ Arrived(s)'
<1> USE DEF FillInv
<1>1. /\ login \in [Session -> LoginStage] /\ future \in [Session -> {"pending", "result", "error"}]
      /\ ready \in [Session -> SUBSET {"contacts", "bookmarks"}]
  BY DEF LoopInv, TypeOK
<1>2. CASE UNCHANGED <<worker, coro, loopQ, login, future, ready>>
  BY <1>2 DEF Filled, Started, Arrived, AtWorker, Queued
<1>3. CASE Take
  <2>1. UNCHANGED <<login, future, ready>> /\ ~ AtWorker(s)
    BY <1>3 DEF Take, AtWorker
  <2>2. Queued(Resolve(s, "result")) => Queued(Resolve(s, "result"))'
    BY <1>3, TakeQueue, LoopItems
  <2> QED BY <2>1, <2>2 DEF Filled, Started, Arrived
<1>4. CASE Finish
  <2>1. UNCHANGED <<login, future, ready, loopQ>> /\ ~ AtWorker(s)
    BY <1>4 DEF Finish, AtWorker
  <2> QED BY <2>1 DEF Filled, Started, Arrived, Queued
<1>5. CASE StartCoroutine \/ ResumeCoroutine
  <2>1. /\ UNCHANGED <<worker, login, future, ready>>
        /\ Queued(Resolve(s, "result")) => Queued(Resolve(s, "result"))'
    BY <1>5, RunQueue
  <2>2. ASSUME AtWorker(s)
        PROVE  Arrived(s)'
    <3>1. worker # None /\ s = SessionOf(worker.from)
      BY <2>2 DEF AtWorker, ConnectOf
    <3>2. future[s] # "pending" \/ Queued(Resolve(s, "result"))'
      <4>1. s = SessionOf(worker'.from)
        BY <2>1, <3>1
      <4> QED BY <1>5, <2>2, <3>1, <4>1, RunQueue
    <3>3. future[s] # "error" /\ Started(s)
      BY <3>1 DEF NoFailure, StartedFirst
    <3> QED BY <1>1, <2>1, <3>2, <3>3 DEF Started, Arrived, Filled, LoginStage
  <2> QED BY <2>1, <2>2 DEF Filled, Started, Arrived
<1>6. CASE RunResolve
  <2>1. UNCHANGED <<worker, coro, login, ready>>
    BY <1>6 DEF RunResolve, goVars
  <2>2. PICK t \in Session :
          /\ Queued(Resolve(t, "result"))
          /\ future' = [future EXCEPT ![t] = "result"]
          /\ \A u \in Session \ {t} : Queued(Resolve(u, "result")) => Queued(Resolve(u, "result"))'
    BY <1>6, ResolveQueue
  <2>3. CASE s = t
    <3>1. Started(s) /\ future'[s] = "result"
      BY <1>1, <2>2, <2>3 DEF StartedFirst
    <3> QED BY <1>1, <2>1, <3>1 DEF Filled, Started, Arrived, LoginStage
  <2>4. CASE s # t
    BY <1>1, <2>1, <2>2, <2>4 DEF Filled, Started, Arrived, AtWorker
  <2> QED BY <2>3, <2>4
<1>7. ASSUME NEW t \in Session, Login(t)
      PROVE  /\ Filled(s) => Filled(s)'
             /\ Started(s) => Started(s)'
             /\ Arrived(s) => Arrived(s)'
             /\ AtWorker(s) => AtWorker(s)' \/ Arrived(s)'
  <2>1. UNCHANGED <<worker, coro, ready>> /\ login[t] = "idle"
    BY <1>7 DEF Login, goVars
  <2>2. login' = login \/ login' = [login EXCEPT ![t] = "connecting"]
    BY <1>7 DEF Login
  <2>3. Started(s) => Started(s)'
    BY <1>1, <2>1, <2>2 DEF Started, Filled
  <2>4. CASE s = t
    <3>1. Arrived(s) => Filled(s)
      BY <2>1, <2>4 DEF Arrived, Started, StartedFirst
    <3> QED BY <2>1, <2>3, <3>1 DEF Arrived, Filled, AtWorker
  <2>5. CASE s # t
    <3>1. login'[s] = login[s] /\ future'[s] = future[s]
      BY <1>1, <1>7, <2>2, <2>5 DEF Login
    <3>2. Queued(Resolve(s, "result")) => Queued(Resolve(s, "result"))'
      BY <1>7, <2>5, LoginQueue
    <3> QED BY <2>1, <2>3, <3>1, <3>2 DEF Arrived, Filled, AtWorker
  <2> QED BY <2>4, <2>5
<1>8. ASSUME NEW t \in Session,
             LoginReturns(t) \/ FillContacts(t) \/ FetchReturns(t) \/ FillBookmarks(t)
      PROVE  /\ Filled(s) => Filled(s)'
             /\ Started(s) => Started(s)'
             /\ Arrived(s) => Arrived(s)'
             /\ AtWorker(s) => AtWorker(s)' \/ Arrived(s)'
  <2>1. UNCHANGED <<worker, coro, loopQ, future>>
    BY <1>8, LoginStages DEF goVars
  <2>2. ready' \in [Session -> SUBSET {"contacts", "bookmarks"}] /\ ready[s] \subseteq ready'[s]
    <3>1. LoopInv'
      BY LoopInvStep
    <3> QED BY <1>8, <3>1, LoginStages DEF LoopInv, TypeOK
  <2>3. Filled(s) => Filled(s)'
    BY <2>2 DEF Filled
  <2>4. Filled(s)' \/ login'[s] \in {"contacts", "fetching", "bookmarks"} \/ login'[s] = login[s]
    BY <1>8, LoginStages
  <2> QED BY <2>1, <2>3, <2>4 DEF Started, Arrived, AtWorker, Queued
<1>9. CASE UNCHANGED vars
  BY <1>2, <1>9 DEF vars, goVars, pyVars
<1>10. CASE Progress
  BY <1>2, <1>3, <1>4, <1>5, <1>6, <1>8, <1>10 DEF Progress, Send, pyVars
<1>11. CASE Environment
  BY <1>2, <1>7, <1>11 DEF Environment, HandleEvent, Refresh, FetchDispatch, Logout, goVars, pyVars
<1> QED BY <1>9, <1>10, <1>11 DEF Next

(* What FillInv says of the loop alone, and of the events in the pipeline. *)
LoopFill ==
  /\ \A s \in Session : ~ Queued(Resolve(s, "error")) /\ future[s] # "error"
  /\ \A s \in Session : client[s] = "up" \/ logged[s] \/ Queued(Resolve(s, "result")) => Started(s)
  /\ Steady /\ Fetching

LEMMA LoopFillFrame ==
  ASSUME FillInv, UNCHANGED <<login, logged, future, ready, client, loop>>,
         \A r : r # RunEvent => (Queued(r)' <=> Queued(r))
  PROVE  LoopFill'
<1>1. \A s \in Session, o \in {"result", "error"} : Queued(Resolve(s, o))' <=> Queued(Resolve(s, o))
  <2>1. \A s \in Session, o \in {"result", "error"} : Resolve(s, o) # RunEvent
    BY LoopItems
  <2> QED BY <2>1
<1>2. \A s \in Session :
        /\ ~ Queued(Resolve(s, "error"))'
        /\ Queued(Resolve(s, "result"))' <=> Queued(Resolve(s, "result"))
  BY <1>1 DEF FillInv, NoFailure
<1>3. \A s \in Session : (Started(s)' <=> Started(s)) /\ (Filled(s)' <=> Filled(s))
  BY DEF Started, Filled
<1> QED BY <1>2, <1>3 DEF FillInv, NoFailure, StartedFirst, LoopFill, Steady, Fetching

(* A step of the loop: the pipeline is as it was, and what has come along   *)
(* it has come as far as it had.                                            *)
LEMMA LoopStepFill ==
  ASSUME FillInv, Benign, [Next]_vars, UNCHANGED <<callChan, sending, worker>>, LoopFill',
         \A s \in Session : announced'[s] => announced[s],
         \A s \in Session : announced[s] /\ ~ announced'[s] /\ Started(s) => Filled(s)
  PROVE  FillInv'
<1>1. LoopInv' /\ InOrder'
  BY LoopInvStep, InOrderStep DEF FillInv
<1>2. \A s \in Session :
        /\ Started(s) => Started(s)'
        /\ Arrived(s) => Arrived(s)'
        /\ AtWorker(s) => AtWorker(s)' \/ Arrived(s)'
        /\ Filled(s) => Arrived(s)'
  BY Grows DEF Arrived
<1>3. /\ worker # None => SessionOf(worker.from) \in Session
      /\ \A p \in Producer : SessionOf(p) \in Session
      /\ \A i \in DOMAIN callChan : SessionOf(callChan[i].from) \in Session
  BY SessionOfType, EventFields DEF FillInv, LoopInv, TypeOK
<1>4. NoFailure'
  BY DEF FillInv, NoFailure, LoopFill
<1>5. StartedFirst'
  <2>1. \A s \in Session : announced'[s] => Started(s)'
    BY <1>2 DEF FillInv, StartedFirst
  <2>2. /\ worker' # None => Started(SessionOf(worker.from))'
        /\ \A p \in Producer : sending'[p] # None => Started(SessionOf(p))'
        /\ \A i \in DOMAIN callChan' : Started(SessionOf(callChan[i].from))'
    BY <1>2, <1>3 DEF FillInv, StartedFirst
  <2> QED BY <2>1, <2>2 DEF LoopFill, StartedFirst
<1>6. AnnouncedComes'
  BY <1>2 DEF FillInv, AnnouncedComes
<1>7. SendingAfter'
  <2> SUFFICES ASSUME NEW p \in Producer, sending[p] # None, sending[p].kind = "message"
               PROVE  announced'[SessionOf(p)] \/ Arrived(SessionOf(p))'
    BY DEF SendingAfter
  <2>1. Started(SessionOf(p)) /\ (announced[SessionOf(p)] \/ Arrived(SessionOf(p)))
    BY DEF FillInv, SendingAfter, StartedFirst
  <2> QED BY <1>2, <1>3, <2>1
<1>8. QueuedAfter'
  <2> SUFFICES ASSUME NEW i \in DOMAIN callChan, callChan[i].kind = "message",
                      NEW s \in Session, s = SessionOf(callChan[i].from)
               PROVE  \/ Arrived(s)' \/ AtWorker(s)'
                      \/ \E j \in DOMAIN callChan : j < i /\ ConnectOf(callChan[j], s)
    BY <1>3 DEF QueuedAfter
  <2>1. \/ Arrived(s) \/ AtWorker(s)
        \/ \E j \in DOMAIN callChan : j < i /\ ConnectOf(callChan[j], s)
    BY DEF FillInv, QueuedAfter
  <2> QED BY <1>2, <2>1
<1>9. WorkedAfter'
  BY <1>2, <1>3 DEF FillInv, WorkedAfter
<1> QED BY <1>1, <1>4, <1>5, <1>6, <1>7, <1>8, <1>9 DEF FillInv, LoopFill

LEMMA RunFill ==
  ASSUME FillInv, Benign, [Next]_vars, StartCoroutine \/ ResumeCoroutine
  PROVE  FillInv'
<1> DEFINE w == SessionOf(worker.from)
<1>1. /\ UNCHANGED <<callChan, sending, worker, loop, login, logged, future, ready, client, announced>>
      /\ Started(w)
      /\ \A s \in Session : Queued(Resolve(s, "error"))' => Queued(Resolve(s, "error"))
      /\ \A s \in Session :
           Queued(Resolve(s, "result"))' => s = w \/ Queued(Resolve(s, "result"))
  BY RunQueue DEF FillInv, StartedFirst
<1>2. \A s \in Session : Queued(Resolve(s, "result"))' => Started(s)
  BY <1>1 DEF FillInv, StartedFirst
<1>3. \A s \in Session : (Started(s)' <=> Started(s)) /\ (Filled(s)' <=> Filled(s))
  BY <1>1 DEF Started, Filled
<1>4. LoopFill'
  BY <1>1, <1>2, <1>3 DEF FillInv, NoFailure, StartedFirst, LoopFill, Steady, Fetching
<1> QED BY <1>1, <1>4, LoopStepFill

LEMMA ResolveFill ==
  ASSUME FillInv, Benign, [Next]_vars, RunResolve
  PROVE  FillInv'
<1>1. UNCHANGED <<callChan, sending, worker, loop, login, logged, ready, client, announced>>
  BY DEF RunResolve, goVars, envVars
<1>2. /\ \A r : Queued(r)' => Queued(r)
      /\ \E s \in Session : future' = [future EXCEPT ![s] = "result"]
  BY ResolveQueue
<1>3. \A s \in Session : future'[s] # "error"
  BY <1>2 DEF FillInv, NoFailure, LoopInv, TypeOK
<1>4. \A s \in Session :
        /\ Queued(Resolve(s, "result"))' => Queued(Resolve(s, "result"))
        /\ Queued(Resolve(s, "error"))' => Queued(Resolve(s, "error"))
  BY <1>2
<1>5. \A s \in Session : (Started(s)' <=> Started(s)) /\ (Filled(s)' <=> Filled(s))
  BY <1>1 DEF Started, Filled
<1>6. LoopFill'
  BY <1>1, <1>3, <1>4, <1>5 DEF FillInv, NoFailure, StartedFirst, LoopFill, Steady, Fetching
<1> QED BY <1>1, <1>6, LoopStepFill

(* A login begins: its session has no events in the pipeline, unless its    *)
(* roster is filled already.                                                *)
LEMMA LoginFill ==
  ASSUME FillInv, Benign, [Next]_vars, NEW s \in Session, Login(s)
  PROVE  FillInv'
<1> USE DEF FillInv
<1>1. /\ UNCHANGED <<callChan, sending, worker, loop, logged, ready>>
      /\ login[s] = "idle"
      /\ future' = [future EXCEPT ![s] = "pending"]
      /\ announced' = [announced EXCEPT ![s] = FALSE]
      /\ \/ /\ login' = [login EXCEPT ![s] = "connecting"]
            /\ client' = [client EXCEPT ![s] = "up"]
         \/ login' = login /\ client' \in {client, [client EXCEPT ![s] = "down"]}
  BY DEF Login, goVars
<1>2. /\ login \in [Session -> LoginStage] /\ announced \in [Session -> BOOLEAN]
      /\ future \in [Session -> {"pending", "result", "error"}]
      /\ client \in [Session -> {"none", "up", "down"}]
  BY DEF LoopInv, TypeOK
<1>3. \A t \in Session :
        /\ announced'[t] => announced[t]
        /\ announced[t] /\ ~ announced'[t] /\ Started(t) => Filled(t)
  BY <1>1, <1>2 DEF Started
<1>4. \A t \in Session :
        /\ Filled(t)' <=> Filled(t)
        /\ Started(t) => Started(t)'
        /\ future'[t] # "error"
        /\ Queued(Resolve(t, "result"))' => Queued(Resolve(t, "result"))
        /\ Queued(Resolve(t, "error"))' => Queued(Resolve(t, "error"))
  BY <1>1, <1>2, LoginQueue, Grows DEF NoFailure, Filled
<1>5. Steady' /\ \A t \in Session : client'[t] = "up" => Started(t)'
  <2>1. CASE /\ login' = [login EXCEPT ![s] = "connecting"]
             /\ client' = [client EXCEPT ![s] = "up"]
    <3>1. \A t \in Session \ {s} : login'[t] = login[t] /\ client'[t] = client[t]
      BY <1>2, <2>1
    <3>2. login'[s] = "connecting" /\ client'[s] = "up"
      BY <1>2, <2>1
    <3>3. Steady'
      BY <1>1, <1>4, <3>1, <3>2 DEF Steady
    <3>4. Started(s)'
      BY <3>2 DEF Started
    <3> QED BY <1>4, <3>1, <3>3, <3>4 DEF StartedFirst
  <2>2. CASE login' = login /\ client' \in {client, [client EXCEPT ![s] = "down"]}
    <3>1. \A t \in Session : client'[t] = client[t] \/ (t = s /\ client'[t] = "down")
      BY <1>2, <2>2
    <3>2. Steady'
      BY <1>1, <1>4, <2>2, <3>1 DEF Steady
    <3> QED BY <1>4, <3>1, <3>2 DEF StartedFirst
  <2> QED BY <1>1, <2>1, <2>2
<1>6. Fetching'
  <2>1. \A t \in Session : login[t] = "fetching" => login'[t] = "fetching"
    BY <1>1, <1>2
  <2> QED BY <1>1, <1>4, <2>1 DEF Fetching
<1>7. LoopFill'
  BY <1>1, <1>4, <1>5, <1>6 DEF NoFailure, StartedFirst, LoopFill
<1> QED BY <1>1, <1>3, <1>7, LoopStepFill

LEMMA StagesFill ==
  ASSUME FillInv, Benign, [Next]_vars, NEW s \in Session,
         LoginReturns(s) \/ FillContacts(s) \/ FetchReturns(s) \/ FillBookmarks(s)
  PROVE  FillInv'
<1> USE DEF FillInv
<1>1. /\ UNCHANGED <<callChan, sending, worker, coro, loopQ, future, client, announced>>
      /\ \A t \in Session \ {s} : login'[t] = login[t] /\ logged'[t] = logged[t] /\ ready'[t] = ready[t]
      /\ logged'[s] # logged[s] => login'[s] = "contacts"
      /\ ~ Filled(s)' /\ login'[s] = "bookmarks" => "contacts" \in ready'[s]
      /\ login'[s] # "idle" \/ login[s] = "idle" \/ Filled(s)'
      /\ login[s] = "idle" => login'[s] = "idle"
      /\ loop' \in {loop, Free} \/ (loop' = s /\ login'[s] = "fetching")
      /\ login[s] = "fetching" => loop' = Free
  BY LoginStages DEF goVars, envVars
<1>2. \A t \in Session : (Filled(t) => Filled(t)') /\ (Started(t) => Started(t)')
  BY Grows
<1>3. \A t \in Session \ {s} : Filled(t)' <=> Filled(t)
  BY <1>1 DEF Filled
<1>4. \A t \in Session :
        /\ Queued(Resolve(t, "error"))' <=> Queued(Resolve(t, "error"))
        /\ Queued(Resolve(t, "result"))' <=> Queued(Resolve(t, "result"))
  BY <1>1 DEF Queued
<1>5. Steady'
  BY <1>1, <1>2, <1>3 DEF Steady
<1>6. Fetching'
  BY <1>1, <1>2, <1>3, PipelineAssumption DEF Fetching
<1>7. \A t \in Session :
        client'[t] = "up" \/ logged'[t] \/ Queued(Resolve(t, "result"))' => Started(t)'
  <2>1. logged'[s] => logged[s] \/ Started(s)'
    BY <1>1 DEF Started
  <2> QED BY <1>1, <1>2, <1>4, <2>1 DEF StartedFirst
<1>8. LoopFill'
  BY <1>1, <1>4, <1>5, <1>6, <1>7 DEF NoFailure, LoopFill
<1> QED BY <1>1, <1>8, LoopStepFill

LEMMA UserFill ==
  ASSUME FillInv, Benign, [Next]_vars, NEW s \in Session, Refresh(s) \/ Logout(s)
  PROVE  FillInv'
<1> USE DEF FillInv
<1>1. /\ UNCHANGED <<callChan, sending, worker, coro, loopQ, login, future, ready, announced>>
      /\ Filled(s)
  BY DEF Refresh, Logout, goVars, envVars, Benign, StartedFirst, Started
<1>2. /\ \A t \in Session \ {s} : client'[t] = client[t] /\ logged'[t] = logged[t]
      /\ loop' \in {loop, s}
  <2>1. CASE Refresh(s)
    BY <2>1 DEF Refresh, envVars
  <2>2. CASE Logout(s)
    BY <2>2 DEF Logout, LoopInv, TypeOK
  <2> QED BY <2>1, <2>2
<1>3. \A t \in Session : (Started(t)' <=> Started(t)) /\ (Filled(t)' <=> Filled(t))
  BY <1>1 DEF Started, Filled
<1>4. \A t \in Session :
        /\ Queued(Resolve(t, "error"))' <=> Queued(Resolve(t, "error"))
        /\ Queued(Resolve(t, "result"))' <=> Queued(Resolve(t, "result"))
  BY <1>1 DEF Queued
<1>5. \A t \in Session : Filled(t) => Started(t)
  BY DEF Started
<1>6. LoopFill'
  BY <1>1, <1>2, <1>3, <1>4, <1>5 DEF NoFailure, StartedFirst, LoopFill, Steady, Fetching
<1> QED BY <1>1, <1>6, LoopStepFill

(* A step of the Go side: the loop and the logins are as they were. *)
LEMMA GoStepKeeps ==
  ASSUME FillInv, UNCHANGED <<loop, login, logged, future, ready, client>>,
         \A r : r # RunEvent => (Queued(r)' <=> Queued(r))
  PROVE  /\ LoopFill'
         /\ \A s \in Session : (Started(s)' <=> Started(s)) /\ (Arrived(s)' <=> Arrived(s))
<1>1. \A s \in Session : Queued(Resolve(s, "result"))' <=> Queued(Resolve(s, "result"))
  <2>1. \A s \in Session : Resolve(s, "result") # RunEvent
    BY LoopItems
  <2> QED BY <2>1
<1>2. \A s \in Session : (Started(s)' <=> Started(s)) /\ (Arrived(s)' <=> Arrived(s))
  BY <1>1 DEF Started, Arrived, Filled
<1> QED BY <1>2, LoopFillFrame

LEMMA RaiseFill ==
  ASSUME FillInv, Benign, [Next]_vars, NEW p \in Producer, NEW kind \in Harmless,
         Propagate(p, kind), UNCHANGED <<callChan, worker, pyVars, envVars>>,
         Started(SessionOf(p)),
         kind = "message" => announced[SessionOf(p)] \/ Arrived(SessionOf(p))
  PROVE  FillInv'
<1> USE DEF FillInv
<1>1. /\ UNCHANGED <<callChan, worker, coro, loopQ, loop, login, logged, future, ready, client, announced>>
      /\ sending'[p].kind = kind
      /\ \A q \in Producer \ {p} : sending'[q] = sending[q]
  BY DEF Propagate, pyVars, envVars, LoopInv, TypeOK
<1>2. /\ LoopFill'
      /\ \A s \in Session : (Started(s)' <=> Started(s)) /\ (Arrived(s)' <=> Arrived(s))
  <2>1. \A r : Queued(r)' <=> Queued(r)
    BY <1>1 DEF Queued
  <2> QED BY <1>1, <2>1, GoStepKeeps
<1>3. \A s : AtWorker(s)' <=> AtWorker(s)
  BY <1>1 DEF AtWorker, ConnectOf
<1>4. /\ \A q \in Producer : SessionOf(q) \in Session
      /\ worker # None => SessionOf(worker.from) \in Session
      /\ \A i \in DOMAIN callChan : SessionOf(callChan[i].from) \in Session
  BY SessionOfType, EventFields DEF LoopInv, TypeOK
<1>5. NoFailure'
  BY <1>1, <1>2 DEF NoFailure, LoopFill
<1>6. StartedFirst'
  BY <1>1, <1>2, <1>4 DEF StartedFirst, LoopFill
<1>7. SendingAfter'
  BY <1>1, <1>2, <1>4 DEF SendingAfter
<1>8. AnnouncedComes'
  BY <1>1, <1>2, <1>3 DEF AnnouncedComes
<1>9. QueuedAfter'
  <2> SUFFICES ASSUME NEW i \in DOMAIN callChan, callChan[i].kind = "message",
                      NEW s \in Session, s = SessionOf(callChan[i].from)
               PROVE  \/ Arrived(s)' \/ AtWorker(s)'
                      \/ \E j \in DOMAIN callChan : j < i /\ ConnectOf(callChan[j], s)
    BY <1>1, <1>4 DEF QueuedAfter
  <2> QED BY <1>2, <1>3 DEF QueuedAfter
<1>10. WorkedAfter'
  BY <1>1, <1>2, <1>4 DEF WorkedAfter
<1>11. LoopInv' /\ InOrder'
  BY LoopInvStep, InOrderStep
<1> QED BY <1>2, <1>5, <1>6, <1>7, <1>8, <1>9, <1>10, <1>11 DEF LoopFill

LEMMA HandleEventFill ==
  ASSUME FillInv, Benign, [Next]_vars,
         NEW g \in Goroutine, NEW kind \in Raisable, HandleEvent(g, kind)
  PROVE  FillInv'
<1>1. g \in Producer /\ SessionOf(g) = Owner[g] /\ Owner[g] \in Session /\ kind \in Harmless
  BY PipelineAssumption DEF Producer, SessionOf, Benign
<1>2. client' = client
  BY <1>1, Zenon DEF HandleEvent, Harmless
<1>3. /\ UNCHANGED <<callChan, worker, pyVars, envVars>> /\ Propagate(g, kind)
      /\ client[Owner[g]] = "up" /\ (kind = "message" => announced[Owner[g]])
  BY <1>2 DEF HandleEvent, Benign, envVars
<1>4. Started(Owner[g])
  BY <1>1, <1>3 DEF FillInv, StartedFirst
<1> QED BY <1>1, <1>3, <1>4, RaiseFill

LEMMA FetchDispatchFill ==
  ASSUME FillInv, Benign, [Next]_vars, NEW s \in Session, FetchDispatch(s)
  PROVE  FillInv'
<1>1. s \in Producer /\ SessionOf(s) = s /\ "message" \in Harmless
  BY DEF Producer, SessionOf, Harmless
<1>2. loop = s /\ Propagate(s, "message") /\ UNCHANGED <<callChan, worker, pyVars, envVars>>
  BY DEF FetchDispatch
<1>3. Started(s) /\ Arrived(s)
  BY <1>2 DEF FillInv, Fetching, Started, Arrived
<1> QED BY <1>1, <1>2, <1>3, RaiseFill

LEMMA SendFill ==
  ASSUME FillInv, Benign, [Next]_vars, NEW p \in Producer, Send(p)
  PROVE  FillInv'
<1> USE DEF FillInv
<1> DEFINE e == sending[p]
           L == Len(callChan)
<1>1. /\ UNCHANGED <<worker, coro, loopQ, loop, login, logged, future, ready, client>>
      /\ e # None /\ callChan' = Append(callChan, e)
      /\ sending' = [sending EXCEPT ![p] = None]
      /\ announced' = IF e.kind = "connect"
                      THEN [announced EXCEPT ![SessionOf(p)] = TRUE]
                      ELSE announced
  BY DEF Send, pyVars
<1>2. /\ e \in Event /\ e.from = p
      /\ \A q \in Producer : sending'[q] # None => sending'[q] = sending[q]
  BY <1>1 DEF LoopInv, TypeOK, InOrder, SendingLast
<1>3. /\ L \in Nat /\ DOMAIN callChan = 1..L /\ DOMAIN callChan' = 1..(L + 1)
      /\ callChan'[L + 1] = e
      /\ \A i \in 1..L : callChan'[i] = callChan[i]
  BY <1>1, <1>2, AppendFacts DEF LoopInv, TypeOK
<1>4. /\ SessionOf(p) \in Session
      /\ \A q \in Producer : SessionOf(q) \in Session
      /\ worker # None => SessionOf(worker.from) \in Session
      /\ \A i \in 1..L : SessionOf(callChan[i].from) \in Session
  BY <1>3, SessionOfType, EventFields DEF LoopInv, TypeOK
<1>5. /\ LoopFill'
      /\ \A s \in Session : (Started(s)' <=> Started(s)) /\ (Arrived(s)' <=> Arrived(s))
  <2>1. \A r : Queued(r)' <=> Queued(r)
    BY <1>1 DEF Queued
  <2> QED BY <1>1, <2>1, GoStepKeeps
<1>6. \A s : AtWorker(s)' <=> AtWorker(s)
  BY <1>1 DEF AtWorker, ConnectOf
<1>7. \A s \in Session :
        /\ announced[s] => announced'[s]
        /\ announced'[s] => announced[s] \/ ConnectOf(e, s)
  BY <1>1, <1>2, <1>4 DEF LoopInv, TypeOK, ConnectOf
<1>8. e.kind \in Harmless /\ Started(SessionOf(p))
  BY <1>1 DEF NoFailure, StartedFirst
<1> HIDE DEF e, L
<1>9. NoFailure'
  <2>1. \A i \in 1..(L + 1) : callChan'[i].kind \in Harmless
    BY <1>3, <1>8 DEF NoFailure
  <2> QED BY <1>1, <1>2, <1>3, <1>5, <2>1 DEF NoFailure, LoopFill
<1>10. StartedFirst'
  <2>1. \A i \in 1..(L + 1) : \A s \in Session : s = SessionOf(callChan'[i].from) => Started(s)'
    BY <1>2, <1>3, <1>4, <1>5, <1>8 DEF StartedFirst
  <2>2. \A s \in Session : announced'[s] => Started(s)'
    BY <1>2, <1>5, <1>7, <1>8 DEF ConnectOf, StartedFirst
  <2>3. \A q \in Producer : sending'[q] # None => Started(SessionOf(q))'
    BY <1>2, <1>4, <1>5 DEF StartedFirst
  <2>4. worker' # None => Started(SessionOf(worker.from))'
    BY <1>1, <1>4, <1>5 DEF StartedFirst
  <2>5. \A i \in DOMAIN callChan' : SessionOf(callChan'[i].from) \in Session
    BY <1>2, <1>3, <1>4
  <2>6. (\A i \in DOMAIN callChan : Started(SessionOf(callChan[i].from)))'
    BY <1>3, <2>1, <2>5
  <2> QED BY <1>5, <2>2, <2>3, <2>4, <2>6 DEF StartedFirst, LoopFill
<1>11. AnnouncedComes'
  <2> SUFFICES ASSUME NEW s \in Session, announced'[s]
               PROVE  \/ Arrived(s)' \/ AtWorker(s)'
                      \/ \E i \in DOMAIN callChan' : ConnectOf(callChan'[i], s)
    BY DEF AnnouncedComes, ConnectOf
  <2>1. CASE announced[s]
    BY <1>3, <1>5, <1>6, <2>1 DEF AnnouncedComes
  <2>2. CASE ConnectOf(e, s)
    BY <1>3, <2>2
  <2> QED BY <1>7, <2>1, <2>2
<1>12. SendingAfter'
  BY <1>2, <1>4, <1>5, <1>7 DEF SendingAfter
<1>13. QueuedAfter'
  <2> SUFFICES ASSUME NEW i \in 1..(L + 1), callChan'[i].kind = "message",
                      NEW s, s = SessionOf(callChan'[i].from)
               PROVE  \/ Arrived(s)' \/ AtWorker(s)'
                      \/ \E j \in DOMAIN callChan' : j < i /\ ConnectOf(callChan'[j], s)
    BY <1>3 DEF QueuedAfter, ConnectOf
  <2>1. CASE i \in 1..L
    <3>1. s \in Session /\ callChan'[i] = callChan[i]
      BY <1>3, <1>4, <2>1
    <3>2. \/ Arrived(s) \/ AtWorker(s)
          \/ \E j \in 1..L : j < i /\ ConnectOf(callChan[j], s)
      BY <1>3, <2>1, <3>1 DEF QueuedAfter
    <3> QED BY <1>3, <1>5, <1>6, <3>1, <3>2
  <2>2. CASE i = L + 1
    <3>1. s = SessionOf(p) /\ e.kind = "message"
      BY <1>2, <1>3, <2>2
    <3>2. announced[s] \/ Arrived(s)
      BY <1>1, <3>1 DEF SendingAfter, e
    <3>3. Arrived(s) \/ AtWorker(s) \/ \E j \in 1..L : ConnectOf(callChan[j], s)
      BY <1>3, <1>4, <3>1, <3>2 DEF AnnouncedComes
    <3>4. \A j \in 1..L : j < i /\ j \in DOMAIN callChan' /\ callChan'[j] = callChan[j]
      BY <1>3, <2>2
    <3> QED BY <1>4, <1>5, <1>6, <3>1, <3>3, <3>4
  <2> QED BY <1>3, <2>1, <2>2
<1>14. WorkedAfter'
  BY <1>1, <1>4, <1>5 DEF WorkedAfter
<1>15. LoopInv' /\ InOrder'
  BY LoopInvStep, InOrderStep
<1> QED BY <1>5, <1>9, <1>10, <1>11, <1>12, <1>13, <1>14, <1>15 DEF LoopFill

(* The first event of the channel goes to the worker: a message has nothing *)
(* before it, a Connect event is at the worker for those behind it.         *)
LEMMA TakeFill ==
  ASSUME FillInv, Benign, [Next]_vars, Take
  PROVE  FillInv'
<1> USE DEF FillInv
<1> DEFINE e == Head(callChan)
           L == Len(callChan)
<1>1. /\ UNCHANGED <<sending, loop, login, logged, future, ready, client, announced>>
      /\ worker = None /\ worker' = e /\ coro' = "scheduled"
      /\ callChan # <<>> /\ callChan' = Tail(callChan)
  BY DEF Take, envVars
<1>2. /\ e \in Event /\ e = callChan[1] /\ e # None
      /\ DOMAIN callChan = 1..L /\ L \in Nat /\ L >= 1
      /\ DOMAIN callChan' = 1..(L - 1)
      /\ \A i \in 1..(L - 1) : callChan'[i] = callChan[i + 1]
  BY <1>1, HeadTail, EventFields DEF LoopInv, TypeOK
<1>3. /\ \A q \in Producer : SessionOf(q) \in Session
      /\ \A i \in 1..L : SessionOf(callChan[i].from) \in Session
  BY <1>2, SessionOfType, EventFields DEF LoopInv, TypeOK
<1>4. /\ LoopFill'
      /\ \A s \in Session : (Started(s)' <=> Started(s)) /\ (Arrived(s)' <=> Arrived(s))
  <2>1. \A r : r # RunEvent => (Queued(r)' <=> Queued(r))
    BY TakeQueue
  <2> QED BY <1>1, <2>1, GoStepKeeps
<1>5. /\ \A s : ~ AtWorker(s)
      /\ \A s \in Session : ConnectOf(e, s) => AtWorker(s)'
  BY <1>1, <1>2 DEF AtWorker, ConnectOf
<1> HIDE DEF e, L
<1>6. NoFailure'
  <2>1. \A i \in 1..L : callChan[i].kind \in Harmless
    BY <1>2 DEF NoFailure
  <2>2. /\ worker'.kind \in Harmless
        /\ \A i \in DOMAIN callChan' : callChan'[i].kind \in Harmless
    BY <1>1, <1>2, <2>1
  <2> QED BY <1>1, <1>4, <2>2 DEF NoFailure, LoopFill
<1>7. StartedFirst'
  <2>1. \A i \in 1..L : \A s \in Session : s = SessionOf(callChan[i].from) => Started(s)'
    BY <1>2, <1>4 DEF StartedFirst
  <2>2. (\A i \in DOMAIN callChan : Started(SessionOf(callChan[i].from)))'
    BY <1>2, <1>3, <2>1
  <2>3. Started(SessionOf(worker.from))'
    BY <1>1, <1>2, <1>3, <2>1
  <2>4. (\A q \in Producer : sending[q] # None => Started(SessionOf(q)))'
    BY <1>1, <1>3, <1>4 DEF StartedFirst
  <2>5. (\A s \in Session : announced[s] => Started(s))'
    BY <1>1, <1>4 DEF StartedFirst
  <2> QED BY <1>4, <2>2, <2>3, <2>4, <2>5 DEF StartedFirst, LoopFill
<1>8. AnnouncedComes'
  <2> SUFFICES ASSUME NEW s \in Session, announced'[s]
               PROVE  \/ Arrived(s)' \/ AtWorker(s)'
                      \/ \E i \in DOMAIN callChan' : ConnectOf(callChan'[i], s)
    BY DEF AnnouncedComes, ConnectOf
  <2>1. CASE Arrived(s)
    BY <1>4, <2>1
  <2>2. CASE ~ Arrived(s)
    <3>1. PICK i \in 1..L : ConnectOf(callChan[i], s)
      BY <1>1, <1>2, <1>5, <2>2 DEF AnnouncedComes
    <3>2. CASE i = 1
      BY <1>2, <1>5, <3>1, <3>2
    <3>3. CASE i # 1
      <4>1. i - 1 \in 1..(L - 1) /\ (i - 1) + 1 = i
        BY <1>2, <3>3
      <4> QED BY <1>2, <3>1, <4>1
    <3> QED BY <3>2, <3>3
  <2> QED BY <2>1, <2>2
<1>9. SendingAfter'
  BY <1>1, <1>3, <1>4 DEF SendingAfter
<1>10. QueuedAfter'
  <2> SUFFICES ASSUME NEW i \in 1..(L - 1), callChan[i + 1].kind = "message",
                      NEW s, s = SessionOf(callChan[i + 1].from)
               PROVE  \/ Arrived(s)' \/ AtWorker(s)'
                      \/ \E j \in DOMAIN callChan' : j < i /\ ConnectOf(callChan'[j], s)
    BY <1>2 DEF QueuedAfter, ConnectOf
  <2>1. i + 1 \in 1..L /\ s \in Session
    BY <1>2, <1>3
  <2>2. CASE Arrived(s)
    BY <1>4, <2>1, <2>2
  <2>3. CASE ~ Arrived(s)
    <3>1. PICK j \in 1..L : j < i + 1 /\ ConnectOf(callChan[j], s)
      BY <1>2, <1>5, <2>1, <2>3 DEF QueuedAfter
    <3>2. CASE j = 1
      BY <1>2, <1>5, <2>1, <3>1, <3>2
    <3>3. CASE j # 1
      <4>1. j - 1 \in 1..(L - 1) /\ (j - 1) + 1 = j /\ j - 1 < i
        BY <1>2, <3>1, <3>3
      <4> QED BY <1>2, <3>1, <4>1
    <3> QED BY <3>2, <3>3
  <2> QED BY <2>2, <2>3
<1>11. WorkedAfter'
  <2> SUFFICES ASSUME e.kind = "message", NEW s, s = SessionOf(e.from)
               PROVE  Arrived(s)'
    BY <1>1 DEF WorkedAfter
  <2>1. s \in Session /\ 1 \in 1..L
    BY <1>2, <1>3
  <2>2. Arrived(s) \/ \E j \in 1..L : j < 1
    BY <1>2, <1>5, <2>1 DEF QueuedAfter
  <2> QED BY <1>2, <1>4, <2>1, <2>2
<1>12. LoopInv' /\ InOrder'
  BY LoopInvStep, InOrderStep
<1> QED BY <1>4, <1>6, <1>7, <1>8, <1>9, <1>10, <1>11, <1>12 DEF LoopFill

LEMMA FinishFill ==
  ASSUME FillInv, Benign, [Next]_vars, Finish
  PROVE  FillInv'
<1> USE DEF FillInv
<1>1. /\ UNCHANGED <<callChan, sending, loopQ, loop, login, logged, future, ready, client, announced>>
      /\ worker' = None /\ coro = "done"
  BY DEF Finish, envVars
<1>2. /\ LoopFill'
      /\ \A s \in Session : (Started(s)' <=> Started(s)) /\ (Arrived(s)' <=> Arrived(s))
  <2>1. \A r : Queued(r)' <=> Queued(r)
    BY <1>1 DEF Queued
  <2> QED BY <1>1, <2>1, GoStepKeeps
<1>3. \A s : ~ AtWorker(s)
  BY <1>1 DEF AtWorker
<1>4. /\ \A q \in Producer : SessionOf(q) \in Session
      /\ \A i \in DOMAIN callChan : SessionOf(callChan[i].from) \in Session
  BY SessionOfType, EventFields DEF LoopInv, TypeOK
<1>5. NoFailure' /\ WorkedAfter'
  BY <1>1, <1>2 DEF NoFailure, LoopFill, WorkedAfter
<1>6. StartedFirst' /\ SendingAfter'
  BY <1>1, <1>2, <1>4 DEF StartedFirst, SendingAfter, LoopFill
<1>7. AnnouncedComes'
  BY <1>1, <1>2, <1>3 DEF AnnouncedComes
<1>8. QueuedAfter'
  <2> SUFFICES ASSUME NEW i \in DOMAIN callChan, callChan[i].kind = "message",
                      NEW s \in Session, s = SessionOf(callChan[i].from)
               PROVE  \/ Arrived(s)'
                      \/ \E j \in DOMAIN callChan : j < i /\ ConnectOf(callChan[j], s)
    BY <1>1, <1>4 DEF QueuedAfter
  <2> QED BY <1>2, <1>3 DEF QueuedAfter
<1>9. LoopInv' /\ InOrder'
  BY LoopInvStep, InOrderStep
<1> QED BY <1>2, <1>5, <1>6, <1>7, <1>8, <1>9 DEF LoopFill

LEMMA FillInvInit == Init => FillInv
<1> SUFFICES ASSUME Init PROVE FillInv
  OBVIOUS
<1>1. LoopInv /\ InOrder
  BY LoopInvInit, InOrderInit
<1>2. /\ DOMAIN callChan = {} /\ DOMAIN loopQ = {}
      /\ worker = None /\ \A p \in Producer : sending[p] = None
  BY DEF Init
<1>3. \A r : ~ Queued(r)
  BY <1>2 DEF Queued
<1>4. \A s \in Session :
        /\ login[s] = "idle" /\ future[s] = "pending" /\ client[s] = "none"
        /\ ~ announced[s] /\ ~ logged[s] /\ loop # s
  BY PipelineAssumption DEF Init
<1> QED BY <1>1, <1>2, <1>3, <1>4
        DEF FillInv, NoFailure, Steady, StartedFirst, Fetching,
            AnnouncedComes, SendingAfter, QueuedAfter, WorkedAfter

LEMMA FillInvStep ==
  ASSUME FillInv, Benign, [Next]_vars
  PROVE  FillInv'
<1>1. CASE UNCHANGED vars
  <2>1. UNCHANGED <<callChan, sending, worker, loopQ, loop, login, logged, future, ready, client, announced>>
    BY <1>1 DEF vars, goVars, pyVars, envVars
  <2>2. LoopFill'
    <3>1. \A r : Queued(r)' <=> Queued(r)
      BY <2>1 DEF Queued
    <3> QED BY <2>1, <3>1, LoopFillFrame
  <2> QED BY <2>1, <2>2, LoopStepFill
<1>2. CASE Progress
  BY <1>2, SendFill, TakeFill, FinishFill, RunFill, ResolveFill, StagesFill DEF Progress
<1>3. CASE Environment
  BY <1>3, HandleEventFill, LoginFill, FetchDispatchFill, UserFill DEF Environment
<1> QED BY <1>1, <1>2, <1>3 DEF Next

(* WaitsForFill: when nothing is against the gateway but a user who has the *)
(* roster fetched again, and no connection is refused or logged out, an     *)
(* event that stops at contacts.ready belongs to a session whose Connect    *)
(* event has been handled, so that its login goes on to fill the roster.    *)
THEOREM StoppedEventsWillBeFilled ==
  ASSUME Benign
  PROVE  Spec => []WaitsForFill
<1>1. Init => FillInv
  BY FillInvInit
<1>2. FillInv /\ [Next]_vars => FillInv'
  BY FillInvStep
<1>3. FillInv => WaitsForFill
  BY DEF FillInv, LoopInv, LoopShape, WorkedAfter, Arrived, Queued, WaitsForFill
<1> QED BY <1>1, <1>2, <1>3, PTL DEF Spec
-----------------------------------------------------------------------------
(* StallShape, with the guards of the actions of Progress for ENABLED.      *)
CanProgress ==
  \/ \E p \in Producer : sending[p] # None /\ Len(callChan) < Capacity
  \/ worker = None /\ callChan # <<>>
  \/ coro = "done"
  \/ /\ loop = Free
     /\ \/ loopQ # <<>>
        \/ coro = "waiting" /\ Filled(SessionOf(worker.from))
        \/ \E s \in Session :
             login[s] \in {"contacts", "bookmarks"} \/ (login[s] = "connecting" /\ future[s] # "pending")
  \/ \E s \in Session : loop = s /\ sending[s] = None

(* A coroutine that is to start is queued, and a session whose contacts are *)
(* being fetched holds the loop.                                            *)
StallInv ==
  /\ LoopInv
  /\ coro = "scheduled" => loopQ # <<>> /\ loopQ[Len(loopQ)] = RunEvent
  /\ \A s \in Session : login[s] = "fetching" => loop = s

LEMMA StallInvStep ==
  ASSUME StallInv, [Next]_vars
  PROVE  StallInv'
<1> USE DEF StallInv
<1>1. LoopInv'
  BY LoopInvStep
<1>2. loopQ \in Seq(LoopItem) /\ login \in [Session -> LoginStage]
  BY DEF LoopInv, TypeOK
<1>3. CASE Take
  <2>1. /\ loopQ' = Append(loopQ, RunEvent) /\ UNCHANGED <<loop, login>>
    BY <1>3 DEF Take
  <2>2. loopQ' # <<>> /\ loopQ'[Len(loopQ')] = RunEvent
    BY <1>2, <2>1, LoopItems
  <2> QED BY <1>1, <2>1, <2>2
<1>4. CASE StartCoroutine \/ ResumeCoroutine
  <2>1. coro' # "scheduled" /\ UNCHANGED <<loop, login>>
    BY <1>4 DEF StartCoroutine, ResumeCoroutine, Dispatch
  <2> QED BY <1>1, <2>1
<1>5. ASSUME loopQ # <<>>, Head(loopQ) # RunEvent, loopQ' = Tail(loopQ), UNCHANGED coro
      PROVE  coro' = "scheduled" => loopQ' # <<>> /\ loopQ'[Len(loopQ')] = RunEvent
  <2> SUFFICES ASSUME coro = "scheduled"
               PROVE  loopQ' # <<>> /\ loopQ'[Len(loopQ')] = RunEvent
    BY <1>5
  <2>1. loopQ[Len(loopQ)] = RunEvent /\ Head(loopQ) = loopQ[1] /\ Len(loopQ) \in Nat
    BY <1>2, <1>5, HeadTail
  <2>2. Len(loopQ) > 1
    BY <1>2, <1>5, <2>1
  <2>3. Len(loopQ') = Len(loopQ) - 1 /\ loopQ' \in Seq(LoopItem)
    BY <1>2, <1>5, HeadTail
  <2>4. /\ Len(loopQ) - 1 \in DOMAIN loopQ'
        /\ loopQ'[Len(loopQ) - 1] = loopQ[(Len(loopQ) - 1) + 1]
    <3>1. /\ DOMAIN Tail(loopQ) = 1..(Len(loopQ) - 1)
          /\ \A i \in DOMAIN Tail(loopQ) : Tail(loopQ)[i] = loopQ[i + 1]
      BY <1>2, <1>5, HeadTail
    <3> QED BY <1>5, <2>1, <2>2, <3>1
  <2> QED BY <2>1, <2>2, <2>3, <2>4
<1>6. CASE RunResolve
  BY <1>1, <1>5, <1>6 DEF RunResolve
<1>7. ASSUME NEW s \in Session, Login(s)
      PROVE  StallInv'
  <2>1. UNCHANGED <<coro, loop>>
    BY <1>7 DEF Login
  <2>2. \A t \in Session : login'[t] = "fetching" => login[t] = "fetching"
    BY <1>2, <1>7 DEF Login
  <2>3. Resolve(s, "result") # RunEvent /\ Resolve(s, "error") # RunEvent
    BY LoopItems
  <2>4. coro' = "scheduled" => loopQ' # <<>> /\ loopQ'[Len(loopQ')] = RunEvent
    BY <1>5, <1>7, <2>1, <2>3 DEF Login
  <2> QED BY <1>1, <2>1, <2>2, <2>4
<1>8. ASSUME NEW s \in Session,
             \/ LoginReturns(s) \/ FillContacts(s) \/ FetchReturns(s) \/ FillBookmarks(s)
             \/ Refresh(s) \/ Logout(s)
      PROVE  StallInv'
  <2>1. UNCHANGED <<coro, loopQ>>
    BY <1>8 DEF LoginReturns, FillContacts, FetchReturns, FillBookmarks, Refresh, Logout
  <2>2. \A t \in Session : login'[t] = "fetching" => loop' = t
    <3>1. CASE LoginReturns(s) \/ FillBookmarks(s) \/ Logout(s)
      BY <1>2, <3>1 DEF LoginReturns, FillBookmarks, Logout
    <3>2. CASE FillContacts(s)
      <4>1. \A t \in Session : login[t] # "fetching"
        BY <3>2, PipelineAssumption DEF FillContacts
      <4> QED BY <1>2, <3>2, <4>1 DEF FillContacts
    <3>3. CASE FetchReturns(s)
      BY <1>2, <3>3 DEF FetchReturns
    <3>4. CASE Refresh(s)
      BY <3>4, PipelineAssumption DEF Refresh
    <3> QED BY <1>8, <3>1, <3>2, <3>3, <3>4
  <2> QED BY <1>1, <2>1, <2>2
<1>9. CASE UNCHANGED vars \/ Finish
  BY <1>1, <1>9 DEF vars, pyVars, Finish
<1>10. CASE \E p \in Producer : Send(p)
  BY <1>1, <1>10 DEF Send, pyVars
<1>11. CASE \E g \in Goroutine, kind \in Raisable : HandleEvent(g, kind)
  BY <1>1, <1>11 DEF HandleEvent, pyVars
<1>12. CASE \E s \in Session : FetchDispatch(s)
  BY <1>1, <1>12 DEF FetchDispatch, pyVars
<1> QED BY <1>3, <1>4, <1>6, <1>7, <1>8, <1>9, <1>10, <1>11, <1>12
        DEF Next, Progress, Environment

LEMMA StallInvInit == Init => StallInv
<1> SUFFICES ASSUME Init PROVE StallInv
  OBVIOUS
<1>1. coro = "none" /\ \A s \in Session : login[s] = "idle"
  BY DEF Init
<1> QED BY <1>1, LoopInvInit DEF StallInv

LEMMA StallKinds ==
  ASSUME StallInv, Outstanding, ~ CanProgress
  PROVE  (loop = Free /\ HeadOfLine) \/ LoopSends
<1>1. /\ coro \in {"none", "scheduled", "waiting", "done"}
      /\ loop \in Session \cup {Free} /\ login \in [Session -> LoginStage]
      /\ Len(callChan) \in Nat /\ Len(callChan) <= Capacity /\ Capacity \in Nat \ {0}
      /\ callChan = <<>> => Len(callChan) = 0
      /\ worker \in Event \cup {None}
  BY PipelineAssumption DEF StallInv, LoopInv, TypeOK
<1>2. \A p \in Producer : sending[p] # None => Len(callChan) = Capacity
  BY <1>1 DEF CanProgress
<1>3. ASSUME NEW s \in Session, loop = s
      PROVE  LoopSends
  <2>1. sending[s] # None /\ s \in Producer
    BY <1>3 DEF CanProgress, Producer
  <2> QED BY <1>2, <1>3, <2>1 DEF LoopSends
<1>4. CASE loop = Free
  <2>1. loopQ = <<>> /\ coro \notin {"done", "scheduled"}
    BY <1>4 DEF CanProgress, StallInv
  <2>2. CASE coro = "none"
    <3>1. worker = None
      BY <2>2 DEF StallInv, LoopInv, LoopShape
    <3>2. callChan = <<>>
      BY <3>1 DEF CanProgress
    <3>3. \E p \in Producer : sending[p] # None
      BY <3>1, <3>2 DEF Outstanding
    <3> QED BY <1>1, <1>2, <3>2, <3>3
  <2>3. CASE coro = "waiting"
    <3> DEFINE s == SessionOf(worker.from)
    <3>1. worker \in Event /\ worker.kind = "message"
      BY <1>1, <2>3 DEF StallInv, LoopInv, LoopShape
    <3>2. s \in Session
      BY <3>1, EventFields, SessionOfType
    <3>3. login[s] \notin {"contacts", "bookmarks"}
      BY <1>4, <3>2 DEF CanProgress
    <3>4. login[s] # "fetching"
      BY <1>4, <3>2, PipelineAssumption DEF StallInv
    <3>5. login[s] \in {"idle", "connecting"}
      BY <1>1, <3>2, <3>3, <3>4 DEF LoginStage
    <3> QED BY <1>4, <2>3, <3>1, <3>5 DEF HeadOfLine
  <2> QED BY <1>1, <2>1, <2>2, <2>3
<1> QED BY <1>1, <1>3, <1>4

(* A pipeline with events in it that can make no progress is in one of two  *)
(* states, whatever goes against the gateway: the coroutine waits for a     *)
(* session that is not logged in yet, or again, or the loop's thread sends  *)
(* on the channel that only the loop could drain (make_sync, FetchAppState). *)
THEOREM StallsInTwoWays ==
  Spec => [](Outstanding /\ ~ CanProgress => HeadOfLine \/ LoopSends)
<1>1. Init => StallInv
  BY StallInvInit
<1>2. StallInv /\ [Next]_vars => StallInv'
  BY StallInvStep
<1>3. StallInv => (Outstanding /\ ~ CanProgress => HeadOfLine \/ LoopSends)
  BY StallKinds
<1> QED BY <1>1, <1>2, <1>3, PTL DEF Spec

(* A worker that waits for a session can go on, if nothing is against the   *)
(* gateway: the session is filled, or its login has its Connect event.      *)
LEMMA BenignStall ==
  ASSUME FillInv, StallInv, Outstanding, ~ CanProgress
  PROVE  LoopSends
<1> SUFFICES ASSUME loop = Free, HeadOfLine PROVE FALSE
  BY StallKinds
<1> DEFINE s == SessionOf(worker.from)
<1>1. /\ worker # None /\ worker.kind = "message" /\ coro = "waiting"
      /\ login[s] \in {"idle", "connecting"}
  BY DEF HeadOfLine, StallInv, LoopInv, LoopShape
<1>2. s \in Session
  BY <1>1, EventFields, SessionOfType DEF StallInv, LoopInv, TypeOK
<1>3. Arrived(s)
  BY <1>1 DEF FillInv, WorkedAfter
<1>4. ~ Filled(s) /\ ~ (login[s] = "connecting" /\ future[s] = "result")
  BY <1>1, <1>2 DEF CanProgress
<1>5. Queued(Resolve(s, "result"))
  BY <1>1, <1>3, <1>4 DEF Arrived
<1>6. loopQ = <<>>
  BY DEF CanProgress
<1> QED BY <1>5, <1>6 DEF Queued

(* When nothing is against the gateway but refreshes, and no connection is  *)
(* refused or logged out, only a fetch of app state (GetContacts), which    *)
(* dispatches events on the loop's own thread, can stop the pipeline.       *)
THEOREM OnlyFetchesStall ==
  ASSUME Benign
  PROVE  Spec => [](Outstanding /\ ~ CanProgress => LoopSends)
<1>1. Init => FillInv /\ StallInv
  BY FillInvInit, StallInvInit
<1>2. FillInv /\ StallInv /\ [Next]_vars => (FillInv /\ StallInv)'
  BY FillInvStep, StallInvStep
<1>3. FillInv /\ StallInv => (Outstanding /\ ~ CanProgress => LoopSends)
  BY BenignStall
<1> QED BY <1>1, <1>2, <1>3, PTL DEF Spec

(* No Go call ever holds the loop's thread. *)
Unfetched == loop = Free /\ \A s \in Session : login[s] # "fetching"

LEMMA UnfetchedStep ==
  ASSUME TypeOK, Unfetched, "refresh" \notin Adverse, ~ SyncRoster, [Next]_vars
  PROVE  Unfetched'
<1>1. login \in [Session -> LoginStage]
  BY DEF TypeOK
<1>2. CASE UNCHANGED <<loop, login>>
  BY <1>2 DEF Unfetched
<1>3. ASSUME NEW s \in Session,
             Login(s) \/ LoginReturns(s) \/ FillContacts(s) \/ FillBookmarks(s)
      PROVE  Unfetched'
  BY <1>1, <1>3 DEF Unfetched, Login, LoginReturns, FillContacts, FillBookmarks
<1>4. ASSUME NEW s \in Session, FetchReturns(s) \/ Refresh(s)
      PROVE  FALSE
  BY <1>4, PipelineAssumption DEF Unfetched, FetchReturns, Refresh
<1>5. UNCHANGED <<loop, login>> \/ \E s \in Session :
        \/ Login(s) \/ LoginReturns(s) \/ FillContacts(s) \/ FillBookmarks(s)
        \/ FetchReturns(s) \/ Refresh(s)
  BY DEF Next, Progress, Environment, vars, pyVars, Send, Take, Finish, StartCoroutine,
         ResumeCoroutine, RunResolve, HandleEvent, FetchDispatch, Logout
<1> QED BY <1>2, <1>3, <1>4, <1>5

(* ... and when app state is never fetched on the loop's thread either, the *)
(* pipeline does not stop before every event in it has been handled.        *)
THEOREM NeverStalls ==
  ASSUME Benign, "refresh" \notin Adverse, ~ SyncRoster
  PROVE  Spec => [](Outstanding => CanProgress)
<1> DEFINE Inv == FillInv /\ StallInv /\ Unfetched
<1>1. Init => Inv
  BY FillInvInit, StallInvInit DEF Init, Unfetched
<1>2. Inv /\ [Next]_vars => Inv'
  BY FillInvStep, StallInvStep, UnfetchedStep DEF StallInv, LoopInv
<1>3. Inv => (Outstanding => CanProgress)
  BY BenignStall, PipelineAssumption DEF Unfetched, LoopSends
<1> QED BY <1>1, <1>2, <1>3, PTL DEF Spec-----------------------------------------------------------------------------
(* The work left in the pipeline.  An event costs less at each stage it     *)
(* gets to, and pays for the callback that its handler may leave.           *)
Stages(stage) == CASE stage = "connecting" -> 1..5
                   [] stage = "contacts"   -> 1..4
                   [] stage = "fetching"   -> 1..2
                   [] stage = "bookmarks"  -> 1..1
                   [] stage = "idle"       -> {}

Blocked == {p \in Producer : sending[p] # None}
Ahead == {x \in Session \X (1..5) : x[2] \in Stages(login[x[1]])}

Coroutine == CASE coro = "scheduled" -> 4
               [] coro = "waiting"   -> 3
               [] coro = "done"      -> 1
               [] coro = "none"      -> 0

Held == IF loop = Free THEN 0 ELSE 1

Work == 8 * Cardinality(Blocked) + 7 * Len(callChan) + Coroutine
        + Len(loopQ) + Held + Cardinality(Ahead)

FiniteGateway == IsFiniteSet(Session) /\ IsFiniteSet(Goroutine)

LEMMA WorkTypes ==
  ASSUME FiniteGateway, TypeOK
  PROVE  /\ IsFiniteSet(Blocked) /\ Cardinality(Blocked) \in Nat
         /\ IsFiniteSet(Ahead) /\ Cardinality(Ahead) \in Nat
         /\ Len(callChan) \in Nat /\ Len(loopQ) \in Nat
         /\ Coroutine \in Nat /\ Held \in Nat /\ Work \in Nat
<1>1. IsFiniteSet(Producer)
  BY FS_Union DEF FiniteGateway, Producer
<1>2. IsFiniteSet(Blocked) /\ Cardinality(Blocked) \in Nat
  BY <1>1, FS_Subset, FS_CardinalityType DEF Blocked
<1>3. IsFiniteSet(Session \X (1..5))
  <2>1. 1 \in Int /\ 5 \in Int
    OBVIOUS
  <2>2. IsFiniteSet(1..5)
    BY <2>1, FS_Interval, Zenon
  <2> QED BY <2>2, FS_Product DEF FiniteGateway
<1>4. IsFiniteSet(Ahead) /\ Cardinality(Ahead) \in Nat
  BY <1>3, FS_Subset, FS_CardinalityType DEF Ahead
<1>5. Len(callChan) \in Nat /\ Len(loopQ) \in Nat
  BY DEF TypeOK
<1>6. Coroutine \in Nat /\ Held \in Nat
  BY DEF TypeOK, Coroutine, Held
<1>7. \A b, l, k, q, h, a \in Nat : 8 * b + 7 * l + k + q + h + a \in Nat
  OBVIOUS
<1>8. Work \in Nat
  BY <1>2, <1>4, <1>5, <1>6, <1>7, Zenon DEF Work
<1> QED BY <1>2, <1>4, <1>5, <1>6, <1>8

(* A set that loses an element has one less. *)
LEMMA Loses ==
  ASSUME NEW S, IsFiniteSet(S), NEW x \in S, NEW T \in SUBSET (S \ {x})
  PROVE  Cardinality(T) \in Nat /\ Cardinality(T) + 1 <= Cardinality(S)
<1>1. /\ IsFiniteSet(S \ {x}) /\ Cardinality(S \ {x}) = Cardinality(S) - 1
      /\ Cardinality(S) \in Nat
  BY FS_RemoveElement, FS_CardinalityType
<1>2. Cardinality(T) <= Cardinality(S \ {x}) /\ Cardinality(T) \in Nat
  BY <1>1, FS_Subset, FS_CardinalityType
<1> QED BY <1>1, <1>2

(* A login that goes on leaves its stage behind. *)
LEMMA AheadShrinks ==
  ASSUME FiniteGateway, TypeOK, NEW s \in Session, NEW stage \in LoginStage,
         login' = [login EXCEPT ![s] = stage],
         NEW k \in Stages(login[s]) \ Stages(stage), Stages(stage) \subseteq Stages(login[s])
  PROVE  /\ <<s, k>> \in Ahead /\ Ahead' \in SUBSET (Ahead \ {<<s, k>>})
         /\ Cardinality(Ahead') \in Nat /\ Cardinality(Ahead') + 1 <= Cardinality(Ahead)
<1>1. login \in [Session -> LoginStage] /\ k \in 1..5
  BY DEF TypeOK, LoginStage, Stages
<1>2. <<s, k>> \in Ahead
  BY <1>1 DEF Ahead
<1>3. ASSUME NEW x \in Ahead'
      PROVE  x \in Ahead /\ x # <<s, k>>
  <2>1. x \in Session \X (1..5) /\ x[2] \in Stages(login'[x[1]])
    BY <1>3 DEF Ahead
  <2>2. CASE x[1] = s
    <3>1. login'[s] = stage
      BY <1>1
    <3>2. x[2] \in Stages(stage) /\ x[2] # k /\ x[2] \in Stages(login[x[1]])
      BY <2>1, <2>2, <3>1
    <3> QED BY <2>1, <3>2 DEF Ahead
  <2>3. CASE x[1] # s
    <3>1. login'[x[1]] = login[x[1]]
      BY <1>1, <2>1, <2>3
    <3>2. x # <<s, k>>
      BY <2>3
    <3> QED BY <2>1, <3>1, <3>2 DEF Ahead
  <2> QED BY <2>2, <2>3
<1>4. Ahead' \in SUBSET (Ahead \ {<<s, k>>})
  BY <1>3
<1> QED BY <1>2, <1>4, WorkTypes, Loses

(* Each step lowers Work, by what the stages cost. *)
LEMMA SendWorks ==
  ASSUME FiniteGateway, TypeOK, NEW p \in Producer, Send(p)
  PROVE  Work' < Work
<1>1. /\ Len(callChan') = Len(callChan) + 1
      /\ UNCHANGED <<coro, loopQ, loop, login>>
  BY DEF Send, pyVars, TypeOK
<1>2. p \in Blocked /\ Blocked' \in SUBSET (Blocked \ {p})
  BY DEF Blocked, Send, TypeOK
<1>3. Cardinality(Blocked') \in Nat /\ Cardinality(Blocked') + 1 <= Cardinality(Blocked)
  BY <1>2, WorkTypes, Loses
<1>4. Ahead' = Ahead /\ Coroutine' = Coroutine /\ Held' = Held /\ loopQ' = loopQ
  BY <1>1 DEF Ahead, Coroutine, Held
<1>5. /\ Cardinality(Blocked) \in Nat /\ Cardinality(Ahead) \in Nat
      /\ Len(callChan) \in Nat /\ Len(loopQ) \in Nat /\ Coroutine \in Nat /\ Held \in Nat
  BY WorkTypes
<1>6. Len(callChan') = Len(callChan) + 1
  BY <1>1
<1>7. \A b, c, l, k, q, h, a \in Nat :
        c + 1 <= b => 8 * c + 7 * (l + 1) + k + q + h + a < 8 * b + 7 * l + k + q + h + a
  OBVIOUS
<1>8. Work' = 8 * Cardinality(Blocked') + 7 * (Len(callChan) + 1) + Coroutine
              + Len(loopQ) + Held + Cardinality(Ahead)
  BY <1>4, <1>6 DEF Work
<1> QED BY <1>3, <1>5, <1>7, <1>8, Zenon DEF Work

(* Only the channel, the coroutine and the loop's queue move: their costs decide. *)
LEMMA LessToDo ==
  ASSUME FiniteGateway, TypeOK,
         Blocked' = Blocked /\ Ahead' = Ahead /\ Held' = Held,
         Len(callChan') \in Nat, Coroutine' \in Nat, Len(loopQ') \in Nat,
         7 * Len(callChan') + Coroutine' + Len(loopQ')
           < 7 * Len(callChan) + Coroutine + Len(loopQ)
  PROVE  Work' < Work
<1>1. /\ Cardinality(Blocked) \in Nat /\ Cardinality(Ahead) \in Nat
      /\ Len(callChan) \in Nat /\ Len(loopQ) \in Nat /\ Coroutine \in Nat /\ Held \in Nat
  BY WorkTypes
<1>2. Work' = 8 * Cardinality(Blocked) + 7 * Len(callChan') + Coroutine'
              + Len(loopQ') + Held + Cardinality(Ahead)
  BY DEF Work
<1>3. \A b, h, a, m, j, r, l, k, q \in Nat :
        7 * m + j + r < 7 * l + k + q
          => 8 * b + 7 * m + j + r + h + a < 8 * b + 7 * l + k + q + h + a
  OBVIOUS
<1>4. 8 * Cardinality(Blocked) + 7 * Len(callChan') + Coroutine'
        + Len(loopQ') + Held + Cardinality(Ahead)
      < 8 * Cardinality(Blocked) + 7 * Len(callChan) + Coroutine
        + Len(loopQ) + Held + Cardinality(Ahead)
  BY <1>1, <1>3, Zenon
<1> QED BY <1>2, <1>4, Zenon DEF Work

LEMMA WorkerWorks ==
  ASSUME FiniteGateway, TypeOK, Take \/ Finish
  PROVE  Work' < Work
<1>0. /\ Cardinality(Blocked) \in Nat /\ Cardinality(Ahead) \in Nat
      /\ Len(callChan) \in Nat /\ Len(loopQ) \in Nat /\ Coroutine \in Nat /\ Held \in Nat
  BY WorkTypes
<1>1. UNCHANGED <<sending, loop, login>>
  BY DEF Take, Finish
<1>2. Blocked' = Blocked /\ Ahead' = Ahead /\ Held' = Held
  BY <1>1 DEF Blocked, Ahead, Held
<1>3. CASE Take
  <2>1. /\ Len(callChan') \in Nat /\ Len(callChan') = Len(callChan) - 1
        /\ Len(loopQ') = Len(loopQ) + 1
    BY <1>3, LoopItems, HeadTail DEF Take, TypeOK
  <2>2. Coroutine' = 4
    BY <1>3 DEF Take, Coroutine
  <2>3. /\ Coroutine' \in Nat /\ Len(loopQ') \in Nat
        /\ 7 * Len(callChan') + Coroutine' + Len(loopQ')
             < 7 * Len(callChan) + Coroutine + Len(loopQ)
    BY <1>0, <2>1, <2>2
  <2> QED BY <1>2, <2>1, <2>3, LessToDo
<1>4. CASE Finish
  <2>1. UNCHANGED <<callChan, loopQ>> /\ Coroutine = 1 /\ Coroutine' = 0
    BY <1>4 DEF Finish, Coroutine
  <2>2. /\ Coroutine' \in Nat /\ Len(callChan') \in Nat /\ Len(loopQ') \in Nat
        /\ 7 * Len(callChan') + Coroutine' + Len(loopQ')
             < 7 * Len(callChan) + Coroutine + Len(loopQ)
    BY <1>0, <2>1
  <2> QED BY <1>2, <2>2, LessToDo
<1> QED BY <1>3, <1>4

LEMMA LoopWorks ==
  ASSUME FiniteGateway, LoopInv, StartCoroutine \/ ResumeCoroutine \/ RunResolve
  PROVE  Work' < Work
<1>0. /\ Cardinality(Blocked) \in Nat /\ Cardinality(Ahead) \in Nat
      /\ Len(callChan) \in Nat /\ Len(loopQ) \in Nat /\ Coroutine \in Nat /\ Held \in Nat
  BY WorkTypes DEF LoopInv
<1>1. TypeOK /\ loopQ \in Seq(LoopItem)
  BY DEF LoopInv, TypeOK
<1>2. UNCHANGED <<callChan, sending, loop, login>>
  BY DEF StartCoroutine, ResumeCoroutine, RunResolve, goVars
<1>3. Blocked' = Blocked /\ Ahead' = Ahead /\ Held' = Held
  BY <1>2 DEF Blocked, Ahead, Held
<1>4. loopQ # <<>> => Tail(loopQ) \in Seq(LoopItem) /\ Len(Tail(loopQ)) = Len(loopQ) - 1
  BY <1>1, HeadTail
<1>5. ASSUME worker # None, NEW queue \in Seq(LoopItem), Dispatch(worker, queue)
      PROVE  Coroutine' = 1 /\ Len(loopQ') \in Nat /\ Len(loopQ') <= Len(queue) + 1
  <2>1. coro' = "done" /\ (loopQ' = queue \/ \E r \in LoopItem : loopQ' = Append(queue, r))
    <3>1. worker \in Event
      BY <1>1, <1>5 DEF TypeOK
    <3>2. SessionOf(worker.from) \in Session
      BY <3>1, EventFields, SessionOfType
    <3>3. \A o \in {"result", "error"} : Resolve(SessionOf(worker.from), o) \in LoopItem
      BY <3>2 DEF Resolve, LoopItem
    <3> QED BY <1>5, <3>1, <3>3, DispatchFacts
  <2>2. Len(loopQ') \in Nat /\ Len(loopQ') <= Len(queue) + 1
    BY <1>5, <2>1
  <2> QED BY <2>1, <2>2 DEF Coroutine
<1>6. CASE StartCoroutine
  <2>1. coro = "scheduled" /\ worker # None /\ Coroutine = 4
    <3>1. loopQ # <<>> /\ loopQ[1] = RunEvent /\ 1 \in DOMAIN loopQ
      BY <1>1, <1>6, HeadTail DEF StartCoroutine
    <3>2. coro = "scheduled"
      BY <3>1 DEF LoopInv, LoopShape
    <3> QED BY <3>2 DEF LoopInv, LoopShape, Coroutine
  <2>2. CASE Dispatch(worker, Tail(loopQ))
    <3>1. /\ Coroutine' = 1 /\ Len(loopQ') \in Nat /\ Len(Tail(loopQ)) = Len(loopQ) - 1
          /\ Len(loopQ') <= Len(Tail(loopQ)) + 1
      BY <1>4, <1>5, <1>6, <2>1, <2>2 DEF StartCoroutine
    <3>2. callChan' = callChan
      BY <1>2
    <3>3. /\ Coroutine' \in Nat /\ Len(callChan') \in Nat
          /\ 7 * Len(callChan') + Coroutine' + Len(loopQ')
               < 7 * Len(callChan) + Coroutine + Len(loopQ)
      BY <1>0, <2>1, <3>1, <3>2
    <3> QED BY <1>1, <1>3, <3>1, <3>3, LessToDo
  <2>3. CASE coro' = "waiting" /\ loopQ' = Tail(loopQ)
    <3>1. Coroutine' = 3
      BY <2>3 DEF Coroutine
    <3>2. callChan' = callChan /\ Len(loopQ') = Len(loopQ) - 1 /\ Len(loopQ') \in Nat
      BY <1>2, <1>4, <1>6, <2>3 DEF StartCoroutine
    <3>3. /\ Coroutine' \in Nat /\ Len(callChan') \in Nat
          /\ 7 * Len(callChan') + Coroutine' + Len(loopQ')
               < 7 * Len(callChan) + Coroutine + Len(loopQ)
      BY <1>0, <2>1, <3>1, <3>2
    <3> QED BY <1>1, <1>3, <3>2, <3>3, LessToDo
  <2> QED BY <1>6, <2>2, <2>3 DEF StartCoroutine
<1>7. CASE ResumeCoroutine
  <2>1. worker # None /\ Coroutine = 3 /\ Dispatch(worker, loopQ)
    BY <1>7 DEF ResumeCoroutine, LoopInv, LoopShape, Coroutine
  <2>2. Coroutine' = 1 /\ Len(loopQ') \in Nat /\ Len(loopQ') <= Len(loopQ) + 1
    BY <1>1, <1>5, <2>1
  <2>3. callChan' = callChan
    BY <1>2
  <2>4. /\ Coroutine' \in Nat /\ Len(callChan') \in Nat
        /\ 7 * Len(callChan') + Coroutine' + Len(loopQ')
             < 7 * Len(callChan) + Coroutine + Len(loopQ)
    BY <1>0, <2>1, <2>2, <2>3
  <2> QED BY <1>1, <1>3, <2>2, <2>4, LessToDo
<1>8. CASE RunResolve
  <2>1. Coroutine' = Coroutine
    BY <1>8 DEF RunResolve, Coroutine
  <2>2. callChan' = callChan /\ Len(loopQ') = Len(loopQ) - 1 /\ Len(loopQ') \in Nat
    BY <1>2, <1>4, <1>8 DEF RunResolve
  <2>3. /\ Coroutine' \in Nat /\ Len(callChan') \in Nat
        /\ 7 * Len(callChan') + Coroutine' + Len(loopQ')
             < 7 * Len(callChan) + Coroutine + Len(loopQ)
    BY <1>0, <2>1, <2>2
  <2> QED BY <1>1, <1>3, <2>2, <2>3, LessToDo
<1> QED BY <1>6, <1>7, <1>8

LEMMA LoginWorks ==
  ASSUME FiniteGateway, TypeOK, NEW s \in Session,
         LoginReturns(s) \/ FillContacts(s) \/ FetchReturns(s) \/ FillBookmarks(s)
  PROVE  Work' < Work
<1>1. UNCHANGED <<callChan, sending, coro, loopQ>>
  BY DEF LoginReturns, FillContacts, FetchReturns, FillBookmarks, goVars
<1>2. Blocked' = Blocked /\ Coroutine' = Coroutine
  BY <1>1 DEF Blocked, Coroutine
<1>0. /\ Cardinality(Blocked) \in Nat /\ Cardinality(Ahead) \in Nat
      /\ Len(callChan) \in Nat /\ Len(loopQ) \in Nat /\ Coroutine \in Nat /\ Held \in Nat
  BY WorkTypes
<1>3. Held' \in Nat
  BY DEF Held
<1>4. ASSUME Cardinality(Ahead') \in Nat, Cardinality(Ahead') + Held' < Cardinality(Ahead) + Held
      PROVE  Work' < Work
  <2>1. Work' = 8 * Cardinality(Blocked) + 7 * Len(callChan) + Coroutine
                + Len(loopQ) + Held' + Cardinality(Ahead')
    BY <1>1, <1>2 DEF Work
  <2>2. \A b, l, k, q, h, a, c, d \in Nat :
          c + d < a + h => 8 * b + 7 * l + k + q + d + c < 8 * b + 7 * l + k + q + h + a
    OBVIOUS
  <2>3. 8 * Cardinality(Blocked) + 7 * Len(callChan) + Coroutine
          + Len(loopQ) + Held' + Cardinality(Ahead')
        < 8 * Cardinality(Blocked) + 7 * Len(callChan) + Coroutine
          + Len(loopQ) + Held + Cardinality(Ahead)
    BY <1>0, <1>3, <1>4, <2>2, Zenon
  <2> QED BY <2>1, <2>3, Zenon DEF Work
<1>5. CASE LoginReturns(s)
  <2>1. PICK stage \in {"contacts", "idle"} : login' = [login EXCEPT ![s] = stage]
    BY <1>5 DEF LoginReturns
  <2>2. 5 \in Stages(login[s]) \ Stages(stage) /\ Stages(stage) \subseteq Stages(login[s])
    BY <1>5 DEF LoginReturns, Stages
  <2>3. Held' = Held
    BY <1>5 DEF LoginReturns, Held
  <2>4. Cardinality(Ahead') \in Nat /\ Cardinality(Ahead') + 1 <= Cardinality(Ahead)
    BY <2>1, <2>2, AheadShrinks DEF LoginStage
  <2> QED BY <1>0, <1>3, <1>4, <2>3, <2>4
<1>6. CASE FillContacts(s)
  <2>1. PICK stage \in {"idle", "fetching", "bookmarks"} : login' = [login EXCEPT ![s] = stage]
    BY <1>6 DEF FillContacts
  <2>2. /\ 4 \in Stages(login[s]) \ Stages(stage) /\ 3 \in Stages(login[s]) \ Stages(stage)
        /\ Stages(stage) \subseteq Stages(login[s])
    BY <1>6 DEF FillContacts, Stages
  <2>3. Held' <= Held + 1
    BY <1>6 DEF FillContacts, Held
  <2>4. /\ <<s, 4>> \in Ahead /\ <<s, 3>> \in Ahead /\ <<s, 4>> # <<s, 3>>
        /\ Ahead' \in SUBSET (Ahead \ {<<s, 4>>}) /\ Ahead' \in SUBSET (Ahead \ {<<s, 3>>})
    <3>1. stage \in LoginStage
      BY DEF LoginStage
    <3>2. ASSUME NEW k \in {3, 4}
          PROVE  <<s, k>> \in Ahead /\ Ahead' \in SUBSET (Ahead \ {<<s, k>>})
      BY <2>1, <2>2, <3>1, AheadShrinks
    <3> QED BY <3>2
  <2>5. Cardinality(Ahead') \in Nat /\ Cardinality(Ahead') + 2 <= Cardinality(Ahead)
    <3> DEFINE most == Ahead \ {<<s, 4>>}
    <3>1. <<s, 3>> \in most /\ Ahead' \in SUBSET (most \ {<<s, 3>>})
      BY <2>4
    <3>2. IsFiniteSet(most) /\ Cardinality(most) = Cardinality(Ahead) - 1
      <4>1. IsFiniteSet(Ahead) /\ <<s, 4>> \in Ahead
        BY <2>4, WorkTypes
      <4> QED BY <4>1, FS_RemoveElement
    <3> HIDE DEF most
    <3>3. Cardinality(Ahead') \in Nat /\ Cardinality(Ahead') + 1 <= Cardinality(most)
      BY <3>1, <3>2, Loses
    <3> QED BY <1>0, <3>2, <3>3
  <2> QED BY <1>0, <1>3, <1>4, <2>3, <2>5
<1>7. CASE FetchReturns(s)
  <2>1. Held = 1 /\ Held' = 0
    BY <1>7, PipelineAssumption DEF FetchReturns, Held
  <2>2. CASE login[s] = "fetching"
    <3>1. login' = [login EXCEPT ![s] = "bookmarks"]
      BY <1>7, <2>2 DEF FetchReturns
    <3>2. /\ 2 \in Stages(login[s]) \ Stages("bookmarks")
          /\ Stages("bookmarks") \subseteq Stages(login[s])
      BY <2>2 DEF Stages
    <3>3. Cardinality(Ahead') \in Nat /\ Cardinality(Ahead') + 1 <= Cardinality(Ahead)
      BY <3>1, <3>2, AheadShrinks DEF LoginStage
    <3> QED BY <1>0, <1>4, <2>1, <3>3
  <2>3. CASE login[s] # "fetching"
    <3>1. Ahead' = Ahead
      BY <1>7, <2>3 DEF FetchReturns, Ahead
    <3> QED BY <1>0, <1>4, <2>1, <3>1
  <2> QED BY <2>2, <2>3
<1>8. CASE FillBookmarks(s)
  <2>1. login' = [login EXCEPT ![s] = "idle"]
    BY <1>8 DEF FillBookmarks
  <2>2. 1 \in Stages(login[s]) \ Stages("idle") /\ Stages("idle") \subseteq Stages(login[s])
    BY <1>8 DEF FillBookmarks, Stages
  <2>3. Held' = Held
    BY <1>8 DEF FillBookmarks, Held
  <2>4. Cardinality(Ahead') \in Nat /\ Cardinality(Ahead') + 1 <= Cardinality(Ahead)
    BY <2>1, <2>2, AheadShrinks DEF LoginStage
  <2> QED BY <1>0, <1>3, <1>4, <2>3, <2>4
<1> QED BY <1>5, <1>6, <1>7, <1>8

(* Whatever users, WhatsApp and the threads that raise events do, every     *)
(* step the gateway takes by itself leaves less work, a number that never   *)
(* goes below zero: it takes finitely many steps between two of theirs, so  *)
(* that where NeverStalls holds it ends with every event handled.           *)
THEOREM WorkGoesDown ==
  ASSUME FiniteGateway
  PROVE  Spec => [](Work \in Nat) /\ [][Progress => Work' < Work]_vars
<1>1. LoopInv => Work \in Nat
  BY WorkTypes DEF LoopInv
<1>2. ASSUME LoopInv, [Next]_vars, Progress
      PROVE  Work' < Work
  <2>1. TypeOK
    BY <1>2 DEF LoopInv
  <2> QED BY <1>2, <2>1, SendWorks, WorkerWorks, LoopWorks, LoginWorks DEF Progress
<1>3. LoopInv /\ [Next]_vars => [Progress => Work' < Work]_vars
  BY <1>2
<1> QED BY <1>1, <1>3, LoopInvariant, PTL DEF Spec
=============================================================================
