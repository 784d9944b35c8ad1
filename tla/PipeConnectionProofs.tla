------------------------ MODULE PipeConnectionProofs ------------------------
(***************************************************************************)
(* Proofs about PipeConnection for any number of workers, request ids,     *)
(* results and requests, and any capacity of the queue and of the pipe.    *)
(*                                                                         *)
(* A cancel goes by the request's id, and the client reuses ids; a         *)
(* response goes to whoever holds the request, and a request is held by    *)
(* the reader, by the queue or by a worker in turn.  Everything rests on   *)
(* one fact: a request has one holder at a time (OrderInv).  It follows    *)
(* from the order of the numbers: the queue is ordered, the reader holds   *)
(* what is newest, and what left the queue is older than what is in it.    *)
(***************************************************************************)
EXTENDS PipeConnection, FiniteSetTheorems, SequenceTheorems, TLAPS

\* Points at which the reader holds a request it has read.
Placing == {"offer", "busy", "room", "superseded"}

\* A control point tells what its thread holds.
ControlInv ==
  /\ hand # None <=> rpc \in Placing
  /\ victim # None <=> rpc = "superseded"
  /\ \A w \in Workers : wreq[w] # None <=> wpc[w] \notin {"idle", "exit"}
  /\ rpc = "spawn" => queue = <<>> /\ \A w \in Workers : wpc[w] = "exit"
  /\ rpc \in {"unsubscribe", "done"} => \A w \in Workers : wpc[w] = "exit"

\* A request has one holder, and the newest ones have moved least.
OrderInv ==
  /\ hand # None => hand.n = nreq
  /\ victim # None => victim.n < nreq
  /\ \A i \in 1 .. Len(queue) :
       /\ queue[i].n <= nreq
       /\ hand # None => queue[i].n < nreq
       /\ victim # None => victim.n < queue[i].n
       /\ \A j \in 1 .. Len(queue) : i < j => queue[i].n < queue[j].n
  /\ \A w \in Workers : wreq[w] # None =>
       /\ wreq[w].n <= nreq
       /\ hand # None => wreq[w].n < nreq
       /\ victim # None => wreq[w].n # victim.n
       /\ \A i \in 1 .. Len(queue) : wreq[w].n < queue[i].n
       /\ \A v \in Workers : v # w /\ wreq[v] # None => wreq[v].n # wreq[w].n

\* What is held has not been answered, but for a worker that just did.
AnswerInv ==
  /\ \A n \in Numbers : n > nreq => answers[n] = <<>>
  /\ hand # None => answers[hand.n] = <<>>
  /\ victim # None => answers[victim.n] = <<>>
  /\ \A i \in 1 .. Len(queue) : answers[queue[i].n] = <<>>
  /\ \A w \in Workers :
       wreq[w] # None /\ wpc[w] # "finish" => answers[wreq[w].n] = <<>>

\* The subscription lock covers the queue that is not yet the subscription.
SubInv ==
  /\ \A w \in Workers : wpc[w] = "attach" <=> subLock = w
  /\ subLock = None => subscribers = IF sub = None THEN {} ELSE {sub}
  /\ subLock # None => sub = None /\ subscribers = {wbasis[subLock]}
  /\ rpc \in {"spawn", "done"} => sub = None

\* What holds of types, control and holders.
StructInv == TypeOK /\ ControlInv /\ OrderInv

\* What holds of the queries that are held: the three support one another.
QueryInv == CancelReaches /\ LatestQueryWins /\ TeardownCancels

-----------------------------------------------------------------------------
(* What the operators of the model return *)

\* A finite set of workers has a finite number of signals.
LEMMA ReceiversType == Receivers \in Nat
  BY ConnectionAssumption, FS_CardinalityType DEF Receivers

\* The fields of a request are numbers, and None is no request.
LEMMA RequestType ==
  ASSUME NEW r \in Request
  PROVE  r.n \in Numbers /\ r.n \in Nat /\ r.id \in Ids /\ r.arg \in Nat /\ r # None
<1>1. r.n \in Numbers /\ r.id \in Ids /\ r.arg \in Args
  BY DEF Request
<1>2. Numbers \subseteq Nat /\ Args \subseteq Nat
  BY ConnectionAssumption DEF Numbers
<1> QED BY <1>1, <1>2, ConnectionAssumption

\* Removing an entry from the map of results shortens it by one.
LEMMA WithoutShorter ==
  ASSUME results \in Seq(Nat), NEW r \in Nat
  PROVE  /\ Without(r) \in Seq(Nat)
         /\ Len(Without(r)) = IF IsResult(r) THEN Len(results) - 1 ELSE Len(results)
<1>1. CASE ~IsResult(r)
  BY <1>1 DEF Without
<1>2. CASE IsResult(r)
  <2> DEFINE i == CHOOSE i \in 1 .. Len(results) : results[i] = r
  <2>1. i \in 1 .. Len(results)
    BY <1>2 DEF IsResult
  <2>2. Without(r) = SubSeq(results, 1, i - 1) \o SubSeq(results, i + 1, Len(results))
    BY <1>2 DEF Without
  <2> HIDE DEF i
  <2>3. Len(results) \in Nat /\ \A k \in 1 .. Len(results) : results[k] \in Nat
    BY ElementOfSeq
  <2>4. /\ SubSeq(results, 1, i - 1) \in Seq(Nat)
        /\ Len(SubSeq(results, 1, i - 1)) = i - 1
    BY <2>1, <2>3, SubSeqProperties
  <2>5. /\ SubSeq(results, i + 1, Len(results)) \in Seq(Nat)
        /\ Len(SubSeq(results, i + 1, Len(results))) = Len(results) - i
    BY <2>1, <2>3, SubSeqProperties
  <2>6. Len(Without(r)) = i - 1 + (Len(results) - i) /\ Without(r) \in Seq(Nat)
    BY <2>2, <2>4, <2>5, ConcatProperties
  <2> QED BY <1>2, <2>1, <2>3, <2>6
<1> QED BY <1>1, <1>2

\* A use of a result keeps the number of them.
LEMMA TouchKeepsCount ==
  ASSUME results \in Seq(Nat), NEW r \in Nat, IsResult(r)
  PROVE  Touch(r) \in Seq(Nat) /\ Len(Touch(r)) = Len(results)
  BY WithoutShorter DEF Touch

\* Eviction makes room for one more result.
LEMMA EvictedMakesRoom ==
  ASSUME results \in Seq(Nat), Len(results) <= MaxResults, nextId \in Nat
  PROVE  /\ Append(Evicted(results), nextId) \in Seq(Nat)
         /\ Len(Append(Evicted(results), nextId)) <= MaxResults
<1>1. MaxResults \in Nat \ {0} /\ Len(results) \in Nat
  BY ConnectionAssumption
<1>2. CASE Len(results) >= MaxResults
  <2>1. results # <<>>
    BY <1>1, <1>2
  <2>2. Tail(results) \in Seq(Nat) /\ Len(Tail(results)) = Len(results) - 1
    BY <2>1, HeadTailProperties
  <2> QED BY <1>1, <1>2, <2>2 DEF Evicted
<1>3. CASE Len(results) < MaxResults
  BY <1>1, <1>3 DEF Evicted
<1> QED BY <1>1, <1>2, <1>3

-----------------------------------------------------------------------------
(* Which steps change what *)

\* The steps that hand a request on.
HandsOn ==
  \/ ReadRequest \/ Offer \/ Busy \/ MakeRoom \/ AnswerSuperseded \/ ReaderWriteFails
  \/ \E w \in Workers : TakeRequest(w) \/ FinishQuery(w)

\* Every other step leaves each request where it is.
LEMMA HoldersFrame ==
  ASSUME [Next]_vars, ~HandsOn
  PROVE  UNCHANGED <<hand, victim, nreq, queue, wreq>>
<1> USE DEF HandsOn, pipeVars, readVars, chanVars, queryVars, resultVars, subVars,
       workVars
<1>1. CASE Client \/ ServerDisconnects \/ Spawn \/ ReadCancel \/ ReadViolation \/ TearDown
  BY <1>1 DEF Client, ClientReads, ClientCloses, ServerDisconnects, Spawn, ReadCancel,
       ReadViolation, TearDown, ReadFails, CancelAll, Signal, Join, EndSubscription
<1>2. ASSUME NEW w \in Workers, TakeSignal(w) \/ WriteReply(w) \/ BreakConnection(w)
      PROVE  UNCHANGED <<hand, victim, nreq, queue, wreq>>
  BY <1>2 DEF TakeSignal, WriteReply, BreakConnection
<1>3. ASSUME NEW w \in Workers, Dispatch(w)
      PROVE  UNCHANGED <<hand, victim, nreq, queue, wreq>>
  <2>1. CASE Query(w)
    BY <2>1 DEF Query, QueryRefused, QueryBegin, QueryRun, QueryRecord, QueryCheck,
         QueryBasis, QueryInsert
  <2>2. CASE ~Query(w)
    BY <1>3, <2>2 DEF Dispatch, DispatchDrop, DispatchHello, DispatchStatus, PageLookup,
         PageFill, ResultFree, Subscribe, Attach, Unsubscribe
  <2> QED BY <2>1, <2>2
<1>4. CASE Ended \/ UNCHANGED vars
  BY <1>4 DEF Ended, vars
<1> QED BY <1>1, <1>2, <1>3, <1>4 DEF Next, Read, Place, WorkerStep

\* The steps that write the query registry or raise a flag.
Registers ==
  \/ ReadRequest \/ ReadCancel \/ MakeRoom \/ CancelAll
  \/ \E w \in Workers : FinishQuery(w)

\* Every other step leaves the registry and the flags alone.
LEMMA RegistryFrame ==
  ASSUME [Next]_vars, ~Registers
  PROVE  UNCHANGED <<registry, cancelled>>
<1> USE DEF Registers, pipeVars, readVars, chanVars, queryVars, resultVars, subVars,
       workVars
<1>1. CASE Client \/ ServerDisconnects \/ Spawn \/ ReadViolation \/ Place \/ TearDown
  BY <1>1 DEF Client, ClientReads, ClientCloses, ServerDisconnects, Spawn, ReadViolation,
       Place, Offer, Busy, AnswerSuperseded, ReaderWriteFails, TearDown, ReadFails, Signal,
       Join, EndSubscription
<1>2. ASSUME NEW w \in Workers, WorkerStep(w)
      PROVE  UNCHANGED <<registry, cancelled>>
  <2>1. CASE Query(w)
    BY <2>1 DEF Query, QueryRefused, QueryBegin, QueryRun, QueryRecord, QueryCheck,
         QueryBasis, QueryInsert
  <2>2. CASE Dispatch(w) /\ ~Query(w)
    BY <2>2 DEF Dispatch, DispatchDrop, DispatchHello, DispatchStatus, PageLookup,
         PageFill, ResultFree, Subscribe, Attach, Unsubscribe
  <2>3. CASE ~Dispatch(w)
    BY <1>2, <2>3 DEF WorkerStep, TakeSignal, TakeRequest, WriteReply, BreakConnection
  <2> QED BY <2>1, <2>2, <2>3
<1>3. CASE Ended \/ UNCHANGED vars
  BY <1>3 DEF Ended, vars
<1> QED BY <1>1, <1>2, <1>3 DEF Next, Read

\* The steps that answer a request.
Answers ==
  Busy \/ AnswerSuperseded \/ \E w \in Workers : WriteReply(w)

\* Every other step writes no response.
LEMMA AnswersFrame ==
  ASSUME [Next]_vars, ~Answers PROVE UNCHANGED answers
<1> USE DEF Answers
<1>1. CASE Client \/ ServerDisconnects \/ Spawn \/ Read \/ Place \/ TearDown
  BY <1>1 DEF Client, ClientReads, ClientCloses, ServerDisconnects, Spawn, Read,
       ReadRequest, ReadCancel, ReadViolation, Place, Offer, MakeRoom, ReaderWriteFails,
       TearDown, ReadFails, CancelAll, Signal, Join, EndSubscription
<1>2. ASSUME NEW w \in Workers, WorkerStep(w) PROVE UNCHANGED answers
  <2>1. CASE Query(w)
    BY <2>1 DEF Query, QueryRefused, QueryBegin, QueryRun, QueryRecord, QueryCheck,
         QueryBasis, QueryInsert
  <2>2. CASE Dispatch(w) /\ ~Query(w)
    BY <2>2 DEF Dispatch, DispatchDrop, DispatchHello, DispatchStatus, PageLookup,
         PageFill, ResultFree, Subscribe, Attach, Unsubscribe
  <2>3. CASE ~Dispatch(w)
    BY <1>2, <2>3 DEF WorkerStep, TakeSignal, TakeRequest, BreakConnection, FinishQuery
  <2> QED BY <2>1, <2>2, <2>3
<1>3. CASE Ended \/ UNCHANGED vars
  BY <1>3 DEF Ended, vars
<1> QED BY <1>1, <1>2, <1>3 DEF Next

-----------------------------------------------------------------------------
(* Each conjunct of the invariant is preserved *)

\* What is registered is the number of a query.
LEMMA RegisteredType ==
  ASSUME registry \in [Ids -> 0 .. MaxRequests] PROVE Registered \subseteq Numbers
  BY ConnectionAssumption DEF Registered, Numbers

\* A finished query leaves a registry.
LEMMA FinishedType ==
  ASSUME registry \in [Ids -> 0 .. MaxRequests], NEW id, NEW n
  PROVE  Finished(id, n) \in [Ids -> 0 .. MaxRequests]
<1>1. 0 \in 0 .. MaxRequests
  BY ConnectionAssumption
<1>2. ASSUME NEW i \in Ids PROVE Finished(id, n)[i] = registry[i] \/ Finished(id, n)[i] = 0
  BY DEF Finished
<1>3. Finished(id, n) = [i \in Ids |-> Finished(id, n)[i]]
  BY DEF Finished
<1> HIDE DEF Finished
<1> QED BY <1>1, <1>2, <1>3

\* A query that begins leaves a registry.
LEMMA BegunType ==
  ASSUME NEW id \in Ids, NEW n \in 0 .. MaxRequests
  PROVE  [i \in Ids |-> IF i = id THEN n ELSE 0] \in [Ids -> 0 .. MaxRequests]
<1>1. 0 \in 0 .. MaxRequests
  BY ConnectionAssumption
<1> QED BY <1>1

\* A response extends the history of its request.
LEMMA AnsweredType ==
  ASSUME answers \in [Numbers -> Seq(Statuses)], NEW n \in Numbers,
         NEW status \in Statuses, Answer(n, status)
  PROVE  answers' \in [Numbers -> Seq(Statuses)]
  BY DEF Answer

\* The points of a worker.
Points == {"idle", "dispatch", "run", "record", "check", "basis", "insert", "fill",
           "attach", "reply", "drop", "finish", "unwind", "exit"}

\* A reply is a known status at a known point.
LEMMA ReplyType ==
  ASSUME TypeOK, NEW w \in Workers, NEW status \in Statuses, Reply(w, status)
  PROVE  wpc' \in [Workers -> Points] /\ wstatus' \in [Workers -> Statuses]
  BY DEF TypeOK, Reply, Points

\* A worker stays at known points with a known status.
LEMMA WorkerType ==
  ASSUME TypeOK, NEW w \in Workers, WorkerStep(w)
  PROVE  wpc' \in [Workers -> Points] /\ wstatus' \in [Workers -> Statuses]
<1> USE DEF Points, workVars
<1>1. CASE \E status \in Statuses : Reply(w, status)
  BY <1>1, ReplyType
<1>2. CASE ~ \E status \in Statuses : Reply(w, status)
  <2>1. CASE Query(w)
    BY <1>2, <2>1 DEF Query, QueryRefused, QueryBegin, QueryRun, QueryRecord, QueryCheck,
         QueryBasis, QueryInsert, Statuses, TypeOK
  <2>2. CASE Dispatch(w) /\ ~Query(w)
    BY <1>2, <2>2 DEF Dispatch, DispatchDrop, DispatchHello, DispatchStatus, PageLookup,
         PageFill, ResultFree, Subscribe, Attach, Unsubscribe, Statuses, TypeOK
  <2>3. CASE ~Dispatch(w)
    BY <2>3 DEF WorkerStep, TakeSignal, TakeRequest, WriteReply, BreakConnection,
         FinishQuery, Statuses, TypeOK
  <2> QED BY <2>1, <2>2, <2>3
<1> QED BY <1>1, <1>2

\* Every step keeps every value in its range.
LEMMA TypeOKStep ==
  ASSUME TypeOK, ControlInv, [Next]_vars PROVE TypeOK'
<1> USE DEF TypeOK, pipeVars, readVars, chanVars, queryVars, resultVars, subVars, workVars
<1>0. OutCap \in Nat \ {0} /\ MaxRequests \in Nat /\ Receivers \in Nat
  BY ConnectionAssumption, ReceiversType
<1>1. CASE Client
  <2>1. CASE ClientReads
    <3>1. out' \in 0 .. OutCap
      BY <1>0, <2>1 DEF ClientReads
    <3> QED BY <2>1, <3>1 DEF ClientReads
  <2>2. CASE ClientCloses
    BY <2>2, ZenonT(60) DEF ClientCloses
  <2> QED BY <1>1, <2>1, <2>2 DEF Client
<1>2. CASE ServerDisconnects
  <2>1. signals' \in 0 .. Receivers
    BY <1>0, <1>2 DEF ServerDisconnects, Disconnect
  <2> QED BY <1>2, <2>1, ZenonT(60) DEF ServerDisconnects, Disconnect
<1>3. CASE Spawn
  <2>1. wpc' \in [Workers -> {"idle", "exit"}]
    BY <1>3 DEF Spawn
  <2>2. up' \in BOOLEAN /\ out' = out /\ rpc' \in {"read", "done"}
    BY <1>3 DEF Spawn, Disconnect
  <2>3. signals' \in 0 .. Receivers
    BY <1>0, <1>3 DEF Spawn, Disconnect
  <2> QED BY <1>3, <2>1, <2>2, <2>3 DEF Spawn
<1>4. CASE Read
  <2>1. CASE ReadRequest
    <3>1. nreq' \in Numbers /\ nreq' \in 0 .. MaxRequests
      BY <1>0, <2>1 DEF ReadRequest, Numbers
    <3>2. PICK op \in Ops, id \in Ids, arg \in Args :
            /\ hand' = [n |-> nreq', op |-> op, id |-> id, arg |-> arg,
                        tok |-> op = "query" /\ hello]
            /\ IF op = "query" /\ hello THEN BeginQuery(id, nreq')
                                       ELSE UNCHANGED <<registry, cancelled>>
      BY <2>1 DEF ReadRequest
    <3>3. hand' \in Request
      BY <3>1, <3>2, ConnectionAssumption DEF Request
    <3>4. CASE op = "query" /\ hello
      <4>1. registry' \in [Ids -> 0 .. MaxRequests]
        BY <3>1, <3>2, <3>4, BegunType DEF BeginQuery
      <4>2. cancelled' \subseteq Numbers
        BY <3>2, <3>4, RegisteredType DEF BeginQuery
      <4> QED BY <2>1, <3>1, <3>3, <4>1, <4>2 DEF ReadRequest
    <3>5. CASE ~(op = "query" /\ hello)
      BY <2>1, <3>1, <3>2, <3>3, <3>5 DEF ReadRequest
    <3> QED BY <3>4, <3>5
  <2>2. CASE ReadCancel
    <3>1. cancelled' \subseteq Numbers
      BY <2>2, RegisteredType DEF ReadCancel, Registered
    <3> QED BY <2>2, <3>1 DEF ReadCancel
  <2>3. CASE ReadViolation
    BY <2>3 DEF ReadViolation
  <2> QED BY <1>4, <2>1, <2>2, <2>3 DEF Read
<1>5. CASE Place
  <2>1. CASE Offer
    <3>1. hand \in Request
      BY <2>1 DEF Offer, ControlInv, Placing
    <3>2. queue' \in Seq(Request) /\ hand' \in Request \cup {None}
      <4>1. Append(queue, hand) \in Seq(Request)
        BY <3>1
      <4> QED BY <2>1, <4>1 DEF Offer
    <3>3. rpc' \in {"read", "room", "busy"}
      BY <2>1 DEF Offer
    <3> QED BY <2>1, <3>2, <3>3 DEF Offer
  <2>2. CASE Busy
    <3>1. answers' \in [Numbers -> Seq(Statuses)] /\ out' \in 0 .. OutCap
      <4>1. out' \in 0 .. OutCap
        BY <1>0, <2>2 DEF Busy, Answer, CanWrite
      <4>2. hand.n \in Numbers
        BY <2>2, RequestType DEF Busy, ControlInv, Placing
      <4> QED BY <2>2, <4>1, <4>2, AnsweredType DEF Busy, Statuses
    <3> QED BY <2>2, <3>1 DEF Busy, Answer
  <2>3. CASE MakeRoom
    <3>1. CASE queue = <<>>
      BY <2>3, <3>1 DEF MakeRoom
    <3>2. CASE queue # <<>>
      <4>1. Head(queue) \in Request /\ Tail(queue) \in Seq(Request)
        BY <3>2, HeadTailProperties
      <4>2. cancelled' \subseteq Numbers
        BY <2>3, <3>2, <4>1, RequestType DEF MakeRoom
      <4>3. registry' \in [Ids -> 0 .. MaxRequests]
        BY <2>3, <3>2, <4>1, FinishedType DEF MakeRoom
      <4> QED BY <2>3, <3>2, <4>1, <4>2, <4>3 DEF MakeRoom
    <3> QED BY <3>1, <3>2
  <2>4. CASE AnswerSuperseded
    <3>1. answers' \in [Numbers -> Seq(Statuses)] /\ out' \in 0 .. OutCap
      <4>1. out' \in 0 .. OutCap
        BY <1>0, <2>4 DEF AnswerSuperseded, Answer, CanWrite
      <4>2. victim.n \in Numbers
        BY <2>4, RequestType DEF AnswerSuperseded, ControlInv
      <4> QED BY <2>4, <4>1, <4>2, AnsweredType DEF AnswerSuperseded, Statuses
    <3> QED BY <2>4, <3>1 DEF AnswerSuperseded, Answer
  <2>5. CASE ReaderWriteFails
    BY <2>5 DEF ReaderWriteFails
  <2> QED BY <1>5, <2>1, <2>2, <2>3, <2>4, <2>5 DEF Place
<1>6. CASE TearDown
  <2>1. CASE ReadFails
    BY <2>1 DEF ReadFails
  <2>2. CASE CancelAll
    <3>1. cancelled' \subseteq Numbers /\ registry' \in [Ids -> 0 .. MaxRequests]
      BY <1>0, <2>2, RegisteredType DEF CancelAll
    <3> QED BY <2>2, <3>1 DEF CancelAll
  <2>3. CASE Signal
    <3>1. signals' \in 0 .. Receivers
      BY <1>0, <2>3 DEF Signal
    <3> QED BY <2>3, <3>1 DEF Signal
  <2>4. CASE Join
    BY <2>4 DEF Join
  <2>5. CASE EndSubscription
    BY <2>5 DEF EndSubscription
  <2> QED BY <1>6, <2>1, <2>2, <2>3, <2>4, <2>5 DEF TearDown
<1>7. ASSUME NEW w \in Workers, WorkerStep(w) PROVE TypeOK'
  <2> USE <1>7
  <2>0. wpc' \in [Workers -> Points] /\ wstatus' \in [Workers -> Statuses]
    BY WorkerType
  <2> USE DEF Points
  <2>1. CASE TakeSignal(w)
    <3>1. signals' \in 0 .. Receivers
      BY <1>0, <2>1 DEF TakeSignal
    <3> QED BY <2>1, <3>1 DEF TakeSignal
  <2>2. CASE TakeRequest(w)
    <3>1. Head(queue) \in Request /\ Tail(queue) \in Seq(Request)
      BY <2>2, HeadTailProperties DEF TakeRequest
    <3> QED BY <2>2, <3>1 DEF TakeRequest
  <2>3. CASE WriteReply(w)
    <3>1. answers' \in [Numbers -> Seq(Statuses)] /\ out' \in 0 .. OutCap
      <4>1. out' \in 0 .. OutCap
        BY <1>0, <2>3 DEF WriteReply, Answer, CanWrite
      <4>2. wreq[w].n \in Numbers
        BY <2>3, RequestType DEF WriteReply, ControlInv
      <4> QED BY <2>3, <4>1, <4>2, AnsweredType DEF WriteReply
    <3> QED BY <2>3, <3>1 DEF WriteReply, Answer
  <2>4. CASE BreakConnection(w)
    <3>1. signals' \in 0 .. Receivers
      BY <1>0, <2>4 DEF BreakConnection, Disconnect
    <3> QED BY <2>4, <3>1, ZenonT(60) DEF BreakConnection, Disconnect
  <2>5. CASE FinishQuery(w)
    <3>1. registry' \in [Ids -> 0 .. MaxRequests]
      BY <2>5, FinishedType DEF FinishQuery
    <3> QED BY <2>5, <3>1 DEF FinishQuery, Statuses
  <2>6. CASE DispatchDrop(w)
    BY <2>6 DEF DispatchDrop
  <2>7. CASE DispatchHello(w)
    <3>1. hello' \in BOOLEAN
      BY <2>7 DEF DispatchHello
    <3> QED BY <2>0, <2>7, <3>1 DEF DispatchHello
  <2>8. CASE DispatchStatus(w)
    BY <2>0, <2>8 DEF DispatchStatus
  <2>9. CASE Query(w)
    <3>1. CASE QueryRefused(w)
      BY <2>0, <3>1 DEF QueryRefused
    <3>2. CASE QueryBegin(w)
      <4>1. wreq[w].arg \in Nat
        BY <3>2, RequestType DEF QueryBegin, Dispatching, ControlInv
      <4>2. wbasis' \in [Workers -> Nat] /\ results' \in Seq(Nat)
        <5>1. CASE IsResult(wreq[w].arg)
          BY <3>2, <4>1, <5>1, TouchKeepsCount DEF QueryBegin
        <5>2. CASE ~IsResult(wreq[w].arg)
          BY <3>2, <5>2 DEF QueryBegin
        <5> QED BY <5>1, <5>2
      <4> QED BY <3>2, <4>2, ZenonT(60) DEF QueryBegin
    <3>3. CASE QueryRun(w)
      BY <2>0, <3>3 DEF QueryRun
    <3>4. CASE QueryRecord(w)
      BY <3>4 DEF QueryRecord
    <3>5. CASE QueryCheck(w)
      BY <2>0, <3>5 DEF QueryCheck
    <3>6. CASE QueryBasis(w)
      <4>1. wsame' \in [Workers -> BOOLEAN]
        BY <3>6 DEF QueryBasis
      <4> QED BY <3>6, <4>1 DEF QueryBasis
    <3>7. CASE QueryInsert(w)
      <4>1. results' \in Seq(Nat)
        <5>1. Evicted(results) \in Seq(Nat)
          BY HeadTailProperties, ConnectionAssumption DEF Evicted
        <5> QED BY <3>7, <5>1 DEF QueryInsert
      <4> QED BY <2>0, <3>7, <4>1 DEF QueryInsert
    <3> QED BY <2>9, <3>1, <3>2, <3>3, <3>4, <3>5, <3>6, <3>7 DEF Query
  <2>10. CASE PageLookup(w)
    <3>1. wreq[w].arg \in Nat
      BY <2>10, RequestType DEF PageLookup, Dispatching, ControlInv
    <3>2. results' \in Seq(Nat)
      BY <2>10, <3>1, TouchKeepsCount DEF PageLookup
    <3> QED BY <2>0, <2>10, <3>2 DEF PageLookup
  <2>11. CASE PageFill(w)
    BY <2>0, <2>11 DEF PageFill
  <2>12. CASE ResultFree(w)
    <3>1. wreq[w].arg \in Nat
      BY <2>12, RequestType DEF ResultFree, Dispatching, ControlInv
    <3>2. results' \in Seq(Nat)
      BY <2>12, <3>1, WithoutShorter DEF ResultFree
    <3> QED BY <2>0, <2>12, <3>2 DEF ResultFree
  <2>13. CASE Subscribe(w)
    <3>1. subscribers' \subseteq Nat /\ nextQueue' \in Nat
      <4>1. CASE sub = None
        <5>1. subscribers' = subscribers \cup {nextQueue} /\ nextQueue' = nextQueue + 1
          BY <2>13, <4>1 DEF Subscribe
        <5> QED BY <5>1
      <4>2. CASE sub # None
        BY <2>13, <4>2 DEF Subscribe
      <4> QED BY <4>1, <4>2
    <3>2. wbasis' \in [Workers -> Nat] /\ subLock' \in Workers \cup {None}
      BY <2>13 DEF Subscribe
    <3> QED BY <2>0, <2>13, <3>1, <3>2 DEF Subscribe
  <2>14. CASE Attach(w)
    BY <2>0, <2>14, ZenonT(60) DEF Attach
  <2>15. CASE Unsubscribe(w)
    BY <2>0, <2>15 DEF Unsubscribe
  <2> QED BY <2>1, <2>2, <2>3, <2>4, <2>5, <2>6, <2>7, <2>8, <2>9, <2>10, <2>11, <2>12,
             <2>13, <2>14, <2>15 DEF WorkerStep, Dispatch
<1>8. CASE Ended \/ UNCHANGED vars
  BY <1>8, ZenonT(60) DEF Ended, vars
<1> QED BY <1>1, <1>2, <1>3, <1>4, <1>5, <1>6, <1>7, <1>8 DEF Next

\* Every step keeps control points and what is held in agreement.
LEMMA ControlInvStep ==
  ASSUME TypeOK, ControlInv, [Next]_vars PROVE ControlInv'
<1> USE ConnectionAssumption DEF ControlInv, Placing, pipeVars, readVars, chanVars,
       queryVars, resultVars, subVars, workVars
<1>1. CASE Client \/ ServerDisconnects
  BY <1>1 DEF Client, ClientReads, ClientCloses, ServerDisconnects
<1>2. CASE Spawn
  BY <1>2 DEF Spawn, TypeOK
<1>3. CASE Read
  <2>1. CASE ReadRequest
    <3>1. hand' # None
      <4>1. hand' \in Request
        BY <2>1, TypeOKStep DEF ReadRequest, TypeOK, Request, Numbers
      <4> QED BY <4>1
    <3> QED BY <2>1, <3>1 DEF ReadRequest
  <2>2. CASE ReadCancel \/ ReadViolation
    BY <2>2 DEF ReadCancel, ReadViolation
  <2> QED BY <1>3, <2>1, <2>2 DEF Read
<1>4. CASE Place
  <2>1. CASE MakeRoom
    BY <2>1, HeadTailProperties DEF MakeRoom, TypeOK
  <2>2. CASE ~MakeRoom
    BY <1>4, <2>2 DEF Place, Offer, Busy, AnswerSuperseded, ReaderWriteFails
  <2> QED BY <2>1, <2>2
<1>5. CASE TearDown
  BY <1>5 DEF TearDown, ReadFails, CancelAll, Signal, Join, EndSubscription
<1>6. ASSUME NEW w \in Workers, WorkerStep(w) PROVE ControlInv'
  <2> USE <1>6
  <2>1. rpc \notin {"spawn", "unsubscribe", "done"} /\ UNCHANGED <<rpc, hand, victim>>
    <3>1. wpc[w] # "exit"
      BY DEF WorkerStep, TakeSignal, TakeRequest, WriteReply, BreakConnection,
         FinishQuery, Dispatch, DispatchDrop, DispatchHello, DispatchStatus, Query,
         QueryRefused, QueryBegin, QueryRun, QueryRecord, QueryCheck, QueryBasis,
         QueryInsert, PageLookup, PageFill, ResultFree, Subscribe, Attach, Unsubscribe,
         Dispatching
    <3>2. UNCHANGED <<rpc, hand, victim>>
      BY DEF WorkerStep, TakeSignal, TakeRequest, WriteReply, BreakConnection,
         FinishQuery, Dispatch, DispatchDrop, DispatchHello, DispatchStatus, Query,
         QueryRefused, QueryBegin, QueryRun, QueryRecord, QueryCheck, QueryBasis,
         QueryInsert, PageLookup, PageFill, ResultFree, Subscribe, Attach, Unsubscribe
    <3> QED BY <3>1, <3>2
  <2>2. \A v \in Workers : (wreq[v] # None <=> wpc[v] \notin {"idle", "exit"})'
    <3>1. CASE TakeRequest(w)
      BY <3>1, HeadTailProperties DEF TakeRequest, TypeOK
    <3>2. CASE TakeSignal(w) \/ WriteReply(w) \/ BreakConnection(w) \/ FinishQuery(w)
      BY <3>2 DEF TakeSignal, WriteReply, BreakConnection, FinishQuery, TypeOK
    <3>3. CASE Query(w)
      <4>1. /\ wpc[w] \notin {"idle", "exit"} /\ wreq' = wreq
            /\ wpc' \in [Workers -> Points] /\ wpc'[w] \notin {"idle", "exit"}
            /\ \A v \in Workers \ {w} : wpc'[v] = wpc[v]
        BY <3>3, WorkerType DEF Query, QueryRefused, QueryBegin, QueryRun, QueryRecord,
           QueryCheck, QueryBasis, QueryInsert, Dispatching, Reply, TypeOK
      <4> QED BY <4>1
    <3>4. CASE Dispatch(w) /\ ~Query(w)
      BY <3>4, ZenonT(60) DEF Dispatch, DispatchDrop, DispatchHello, DispatchStatus, PageLookup,
         PageFill, ResultFree, Subscribe, Attach, Unsubscribe, Dispatching, Reply, TypeOK
    <3> QED BY <3>1, <3>2, <3>3, <3>4 DEF WorkerStep
  <2> QED BY <2>1, <2>2
<1>7. CASE Ended \/ UNCHANGED vars
  BY <1>7 DEF Ended, vars
<1> QED BY <1>1, <1>2, <1>3, <1>4, <1>5, <1>6, <1>7 DEF Next

\* What is held is a request, and the reader places what it has just read.
LEMMA HeldTypes ==
  ASSUME TypeOK
  PROVE  /\ nreq \in Nat /\ Len(queue) \in Nat
         /\ hand # None => hand \in Request /\ hand.n \in Nat
         /\ victim # None => victim \in Request /\ victim.n \in Nat
         /\ \A i \in 1 .. Len(queue) : queue[i] \in Request /\ queue[i].n \in Nat
         /\ \A w \in Workers : wreq[w] # None => wreq[w] \in Request /\ wreq[w].n \in Nat
<1>1. nreq \in Nat /\ Len(queue) \in Nat
  BY ConnectionAssumption DEF TypeOK
<1>2. \A i \in 1 .. Len(queue) : queue[i] \in Request
  BY ElementOfSeq DEF TypeOK
<1>3. \A w \in Workers : wreq[w] # None => wreq[w] \in Request
  BY DEF TypeOK
<1> QED BY <1>1, <1>2, <1>3, RequestType DEF TypeOK

\* The oldest request leaves the queue.
LEMMA QueueTail ==
  ASSUME TypeOK, queue # <<>>
  PROVE  /\ Len(queue) >= 1 /\ Head(queue) = queue[1]
         /\ Len(Tail(queue)) = Len(queue) - 1
         /\ \A i \in 1 .. Len(Tail(queue)) : Tail(queue)[i] = queue[i + 1]
         /\ \A i \in 1 .. Len(Tail(queue)) : i + 1 \in 1 .. Len(queue)
<1>1. Len(queue) \in Nat /\ Len(queue) >= 1
  BY HeldTypes, EmptySeq DEF TypeOK
<1>2. /\ Len(Tail(queue)) = Len(queue) - 1
      /\ \A i \in 1 .. Len(Tail(queue)) : Tail(queue)[i] = queue[i + 1]
  BY HeadTailProperties DEF TypeOK
<1> QED BY <1>1, <1>2 DEF TypeOK

\* A request moves to one other place, past none that is newer.
LEMMA OrderInvStep ==
  ASSUME StructInv, [Next]_vars PROVE OrderInv'
<1> USE DEF StructInv, readVars, chanVars, workVars
<1>0. /\ nreq \in Nat /\ Len(queue) \in Nat
      /\ hand # None => hand.n \in Nat
      /\ victim # None => victim.n \in Nat
      /\ \A i \in 1 .. Len(queue) : queue[i].n \in Nat
      /\ \A w \in Workers : wreq[w] # None => wreq[w].n \in Nat
  BY HeldTypes
<1>1. CASE ReadRequest
  <2>1. nreq' = nreq + 1 /\ hand'.n = nreq' /\ UNCHANGED <<victim, queue, wreq>>
    BY <1>1 DEF ReadRequest
  <2>2. victim = None
    BY <1>1 DEF ReadRequest, ControlInv
  <2> QED BY <1>0, <2>1, <2>2 DEF OrderInv
<1>2. CASE Offer
  <2>1. CASE Len(queue) < QueueCap
    <3>1. queue' = Append(queue, hand) /\ hand' = None /\ UNCHANGED <<victim, nreq, wreq>>
      BY <1>2, <2>1 DEF Offer
    <3>2. hand # None /\ victim = None
      BY <1>2 DEF Offer, ControlInv, Placing
    <3>3. /\ Len(queue') = Len(queue) + 1 /\ queue'[Len(queue) + 1] = hand
          /\ \A i \in 1 .. Len(queue) : queue'[i] = queue[i]
      BY <3>1, <3>2 DEF TypeOK
    <3>4. \A i \in 1 .. Len(queue') :
            queue'[i].n = IF i = Len(queue) + 1 THEN nreq ELSE queue[i].n
      BY <1>0, <3>2, <3>3 DEF OrderInv
    <3> QED BY <1>0, <3>1, <3>2, <3>3, <3>4 DEF OrderInv
  <2>2. CASE Len(queue) >= QueueCap
    BY <1>0, <1>2, <2>2, ConnectionAssumption DEF Offer, OrderInv
  <2> QED BY <1>0, <2>1, <2>2, ConnectionAssumption
<1>3. CASE Busy
  BY <1>3 DEF Busy, OrderInv
<1>4. CASE MakeRoom
  <2>1. CASE queue = <<>>
    BY <1>4, <2>1 DEF MakeRoom, OrderInv
  <2>2. CASE queue # <<>>
    <3>1. victim' = queue[1] /\ queue' = Tail(queue) /\ UNCHANGED <<hand, nreq, wreq>>
      BY <1>4, <2>2, QueueTail DEF MakeRoom
    <3>2. hand # None
      BY <1>4 DEF MakeRoom, ControlInv, Placing
    <3> QED BY <1>0, <2>2, <3>1, <3>2, QueueTail DEF OrderInv
  <2> QED BY <2>1, <2>2
<1>5. CASE AnswerSuperseded \/ ReaderWriteFails
  BY <1>5 DEF AnswerSuperseded, ReaderWriteFails, OrderInv
<1>6. ASSUME NEW w \in Workers, TakeRequest(w) PROVE OrderInv'
  <2>1. queue # <<>> /\ queue' = Tail(queue) /\ UNCHANGED <<hand, victim, nreq>>
    BY <1>6 DEF TakeRequest
  <2>2. wreq' = [wreq EXCEPT ![w] = queue[1]]
    BY <1>6, <2>1, QueueTail DEF TakeRequest
  <2>3. /\ Len(queue) >= 1 /\ Len(queue') = Len(queue) - 1
        /\ \A i \in 1 .. Len(queue') : queue'[i] = queue[i + 1] /\ i + 1 \in 1 .. Len(queue)
    BY <2>1, QueueTail
  <2>4. wreq'[w] = queue[1] /\ \A v \in Workers \ {w} : wreq'[v] = wreq[v]
    BY <2>2 DEF TypeOK
  <2>5. \A i \in 1 .. Len(queue') :
          /\ queue'[i].n <= nreq /\ queue[1].n < queue'[i].n
          /\ hand # None => queue'[i].n < nreq
          /\ victim # None => victim.n < queue'[i].n
          /\ \A j \in 1 .. Len(queue') : i < j => queue'[i].n < queue'[j].n
    <3> SUFFICES ASSUME NEW i \in 1 .. Len(queue')
                 PROVE  /\ queue'[i].n <= nreq /\ queue[1].n < queue'[i].n
                        /\ hand # None => queue'[i].n < nreq
                        /\ victim # None => victim.n < queue'[i].n
                        /\ \A j \in 1 .. Len(queue') : i < j => queue'[i].n < queue'[j].n
      OBVIOUS
    <3>1. /\ queue'[i] = queue[i + 1] /\ i + 1 \in 1 .. Len(queue)
          /\ 1 \in 1 .. Len(queue) /\ 1 < i + 1
      BY <1>0, <2>3
    <3>2. \A j \in 1 .. Len(queue') : i < j => queue[i + 1].n < queue[j + 1].n
      BY <1>0, <2>3, <3>1 DEF OrderInv
    <3> QED BY <2>3, <3>1, <3>2 DEF OrderInv
  <2>6. \A v \in Workers : wreq'[v] # None =>
          /\ wreq'[v].n <= nreq
          /\ hand # None => wreq'[v].n < nreq
          /\ victim # None => wreq'[v].n # victim.n
          /\ \A i \in 1 .. Len(queue') : wreq'[v].n < queue'[i].n
    <3>1. 1 \in 1 .. Len(queue)
      BY <1>0, <2>3
    <3>2. wreq'[w].n = queue[1].n
      BY <2>4
    <3>3. /\ wreq'[w].n <= nreq
          /\ hand # None => wreq'[w].n < nreq
          /\ victim # None => wreq'[w].n # victim.n
          /\ \A i \in 1 .. Len(queue') : wreq'[w].n < queue'[i].n
      BY <1>0, <2>5, <3>1, <3>2 DEF OrderInv
    <3>4. ASSUME NEW v \in Workers \ {w}, wreq[v] # None
          PROVE  \A i \in 1 .. Len(queue') : wreq[v].n < queue'[i].n
      BY <2>3, <3>4 DEF OrderInv
    <3> QED BY <2>4, <3>3, <3>4 DEF OrderInv
  <2>7. \A u, v \in Workers : u # v /\ wreq'[u] # None /\ wreq'[v] # None =>
          wreq'[u].n # wreq'[v].n
    BY <1>0, <2>3, <2>4 DEF OrderInv
  <2> QED BY <2>1, <2>5, <2>6, <2>7 DEF OrderInv
<1>7. ASSUME NEW w \in Workers, FinishQuery(w) PROVE OrderInv'
  <2>1. /\ UNCHANGED <<hand, victim, nreq, queue>>
        /\ \A v \in Workers : wreq'[v] # None => wreq'[v] = wreq[v]
    BY <1>7 DEF FinishQuery, TypeOK
  <2> QED BY <2>1 DEF OrderInv
<1>8. CASE ~HandsOn
  BY <1>8, HoldersFrame DEF OrderInv
<1> QED BY <1>1, <1>2, <1>3, <1>4, <1>5, <1>6, <1>7, <1>8 DEF HandsOn

\* A worker that has answered lets go of the request next.
LEMMA FinishIsLast ==
  ASSUME TypeOK, ControlInv, [Next]_vars, ~HandsOn, NEW w \in Workers, wreq[w] # None,
         wpc[w] = "finish"
  PROVE  wpc'[w] = "finish"
<1> USE DEF pipeVars, readVars, chanVars, queryVars, resultVars, subVars, workVars
<1>1. CASE Client \/ ServerDisconnects \/ Read \/ Place \/ TearDown
  BY <1>1 DEF Client, ClientReads, ClientCloses, ServerDisconnects, Read, ReadRequest,
       ReadCancel, ReadViolation, Place, Offer, Busy, MakeRoom, AnswerSuperseded,
       ReaderWriteFails, TearDown, ReadFails, CancelAll, Signal, Join, EndSubscription
<1>2. CASE Spawn
  BY <1>2 DEF Spawn, ControlInv
<1>3. ASSUME NEW v \in Workers, WorkerStep(v) PROVE wpc'[w] = "finish"
  <2>1. wpc[v] # "finish" /\ \A u \in Workers \ {v} : wpc'[u] = wpc[u]
    <3>1. CASE Query(v)
      BY <3>1 DEF Query, QueryRefused, QueryBegin, QueryRun, QueryRecord, QueryCheck,
           QueryBasis, QueryInsert, Dispatching, Reply, TypeOK
    <3>2. CASE Dispatch(v) /\ ~Query(v)
      BY <3>2 DEF Dispatch, DispatchDrop, DispatchHello, DispatchStatus, PageLookup,
           PageFill, ResultFree, Subscribe, Attach, Unsubscribe, Dispatching, Reply, TypeOK
    <3>3. CASE ~Dispatch(v)
      BY <1>3, <3>3 DEF HandsOn, WorkerStep, TakeSignal, WriteReply, BreakConnection, TypeOK
    <3> QED BY <3>1, <3>2, <3>3
  <2> QED BY <2>1
<1>4. CASE Ended \/ UNCHANGED vars
  BY <1>4 DEF Ended, vars
<1> QED BY <1>1, <1>2, <1>3, <1>4 DEF Next

\* An answer is appended to the answers of one request.
LEMMA AnswerAppends ==
  ASSUME TypeOK, NEW n \in Numbers, NEW status, Answer(n, status)
  PROVE  /\ answers'[n] = Append(answers[n], status)
         /\ \A m \in Numbers \ {n} : answers'[m] = answers[m]
  BY DEF Answer, TypeOK

\* Only what has no other holder is answered.
LEMMA AnswerInvStep ==
  ASSUME StructInv, AnswerInv, [Next]_vars PROVE AnswerInv'
<1> USE DEF StructInv, readVars, chanVars, workVars
<1>0. /\ nreq \in Nat /\ Len(queue) \in Nat /\ MaxRequests \in Nat
      /\ hand # None => hand.n \in Numbers
      /\ victim # None => victim.n \in Numbers
      /\ \A i \in 1 .. Len(queue) : queue[i].n \in Numbers
      /\ \A w \in Workers : wreq[w] # None => wreq[w].n \in Numbers
  BY HeldTypes, RequestType, ConnectionAssumption
<1>1. CASE ReadRequest
  <2>1. nreq' = nreq + 1 /\ hand'.n = nreq' /\ UNCHANGED <<victim, queue, wreq, wpc, answers>>
    BY <1>1 DEF ReadRequest
  <2>2. nreq' \in Numbers
    BY <1>0, <1>1 DEF ReadRequest, Numbers
  <2>3. \A n \in Numbers : n > nreq' => n > nreq
    BY <1>0, <2>1 DEF Numbers
  <2>4. nreq' > nreq
    BY <1>0, <2>1
  <2> QED BY <2>1, <2>2, <2>3, <2>4 DEF AnswerInv
<1>2. CASE Offer
  <2>1. CASE Len(queue) < QueueCap
    <3>1. /\ queue' = Append(queue, hand) /\ hand' = None
          /\ UNCHANGED <<victim, nreq, wreq, wpc, answers>>
      BY <1>2, <2>1 DEF Offer
    <3>2. hand # None
      BY <1>2 DEF Offer, ControlInv, Placing
    <3>3. \A i \in 1 .. Len(queue') :
            queue'[i] = IF i = Len(queue) + 1 THEN hand ELSE queue[i]
      BY <3>1, <3>2 DEF TypeOK
    <3>4. Len(queue') = Len(queue) + 1
      BY <3>1, <3>2 DEF TypeOK
    <3>5. \A i \in 1 .. Len(queue') : answers[queue'[i].n] = <<>>
      BY <1>0, <3>2, <3>3, <3>4 DEF AnswerInv
    <3> QED BY <3>1, <3>5 DEF AnswerInv
  <2>2. CASE ~(Len(queue) < QueueCap)
    BY <1>2, <2>2 DEF Offer, AnswerInv
  <2> QED BY <2>1, <2>2
<1>3. CASE Busy
  <2>1. hand # None /\ Answer(hand.n, "ERROR")
    BY <1>3 DEF Busy, ControlInv, Placing
  <2>2. \A m \in Numbers \ {hand.n} : answers'[m] = answers[m]
    BY <1>0, <2>1, AnswerAppends
  <2>3. hand' = None /\ UNCHANGED <<victim, nreq, queue, wreq, wpc>>
    BY <1>3 DEF Busy
  <2>4. hand.n = nreq /\ (\A n \in Numbers : n > nreq => n # hand.n)
    BY <1>0, <2>1 DEF OrderInv, Numbers
  <2>5. /\ victim # None => victim.n # hand.n
        /\ \A i \in 1 .. Len(queue) : queue[i].n # hand.n
        /\ \A w \in Workers : wreq[w] # None => wreq[w].n # hand.n
    BY <1>0, <2>1, <2>4 DEF OrderInv, Numbers
  <2> QED BY <1>0, <2>2, <2>3, <2>4, <2>5 DEF AnswerInv
<1>4. CASE MakeRoom
  <2>1. CASE queue = <<>>
    BY <1>4, <2>1 DEF MakeRoom, AnswerInv
  <2>2. CASE queue # <<>>
    <3>1. /\ victim' = queue[1] /\ queue' = Tail(queue)
          /\ UNCHANGED <<hand, nreq, wreq, wpc, answers>>
      BY <1>4, <2>2, QueueTail DEF MakeRoom
    <3>2. 1 \in 1 .. Len(queue)
      BY <1>0, <2>2, QueueTail
    <3> QED BY <2>2, <3>1, <3>2, QueueTail DEF AnswerInv
  <2> QED BY <2>1, <2>2
<1>5. CASE AnswerSuperseded
  <2>1. /\ victim # None /\ victim' = None
        /\ \E status \in Statuses : Answer(victim.n, status)
    BY <1>5 DEF AnswerSuperseded, ControlInv, Statuses
  <2>2. \A m \in Numbers \ {victim.n} : answers'[m] = answers[m]
    BY <1>0, <2>1, AnswerAppends
  <2>3. UNCHANGED <<hand, nreq, queue, wreq, wpc>>
    BY <1>5 DEF AnswerSuperseded
  <2>4. /\ \A n \in Numbers : n > nreq => n # victim.n
        /\ hand # None => hand.n # victim.n
        /\ \A i \in 1 .. Len(queue) : queue[i].n # victim.n
        /\ \A w \in Workers : wreq[w] # None => wreq[w].n # victim.n
    BY <1>0, <2>1 DEF OrderInv, Numbers
  <2> QED BY <1>0, <2>1, <2>2, <2>3, <2>4 DEF AnswerInv
<1>6. CASE ReaderWriteFails
  BY <1>6 DEF ReaderWriteFails, AnswerInv
<1>7. ASSUME NEW w \in Workers, TakeRequest(w) PROVE AnswerInv'
  <2>1. queue # <<>> /\ queue' = Tail(queue) /\ UNCHANGED <<hand, victim, nreq, answers>>
    BY <1>7 DEF TakeRequest
  <2>2. /\ wreq' = [wreq EXCEPT ![w] = queue[1]] /\ wpc'[w] = "dispatch"
        /\ \A v \in Workers \ {w} : wpc'[v] = wpc[v]
    BY <1>7, <2>1, QueueTail DEF TakeRequest, TypeOK
  <2>3. 1 \in 1 .. Len(queue)
    BY <1>0, <2>1, QueueTail
  <2>4. answers[queue[1].n] = <<>>
    BY <2>3 DEF AnswerInv
  <2>5. \A i \in 1 .. Len(queue') : answers[queue'[i].n] = <<>>
    BY <2>1, QueueTail DEF AnswerInv
  <2>6. \A v \in Workers :
          wreq'[v] # None /\ wpc'[v] # "finish" => answers[wreq'[v].n] = <<>>
    BY <2>2, <2>4 DEF AnswerInv, TypeOK
  <2> QED BY <2>1, <2>5, <2>6 DEF AnswerInv
<1>8. ASSUME NEW w \in Workers, FinishQuery(w) PROVE AnswerInv'
  <2>1. /\ UNCHANGED <<hand, victim, nreq, queue, answers>>
        /\ wreq'[w] = None
        /\ \A v \in Workers \ {w} : wreq'[v] = wreq[v] /\ wpc'[v] = wpc[v]
    BY <1>8 DEF FinishQuery, TypeOK
  <2> QED BY <2>1 DEF AnswerInv
<1>9. ASSUME NEW w \in Workers, WriteReply(w) PROVE AnswerInv'
  <2>1. wreq[w] # None /\ wreq[w].n \in Numbers /\ Answer(wreq[w].n, wstatus[w])
    BY <1>0, <1>9 DEF WriteReply, ControlInv
  <2>2. \A m \in Numbers \ {wreq[w].n} : answers'[m] = answers[m]
    BY <2>1, AnswerAppends
  <2>3. /\ UNCHANGED <<hand, victim, nreq, queue, wreq>>
        /\ wpc'[w] = "finish" /\ \A v \in Workers \ {w} : wpc'[v] = wpc[v]
    BY <1>9 DEF WriteReply, TypeOK
  <2>4. /\ \A n \in Numbers : n > nreq => n # wreq[w].n
        /\ hand # None => hand.n # wreq[w].n
        /\ victim # None => victim.n # wreq[w].n
        /\ \A i \in 1 .. Len(queue) : queue[i].n # wreq[w].n
        /\ \A v \in Workers \ {w} : wreq[v] # None => wreq[v].n # wreq[w].n
    BY <1>0, <2>1 DEF OrderInv, Numbers
  <2> QED BY <1>0, <2>2, <2>3, <2>4 DEF AnswerInv
<1>10. CASE ~HandsOn /\ ~Answers
  <2>1. UNCHANGED <<hand, victim, nreq, queue, wreq, answers>>
    BY <1>10, HoldersFrame, AnswersFrame
  <2>2. \A w \in Workers : wreq[w] # None /\ wpc[w] = "finish" => wpc'[w] = "finish"
    BY <1>10, FinishIsLast
  <2> QED BY <2>1, <2>2 DEF AnswerInv
<1> QED BY <1>1, <1>2, <1>3, <1>4, <1>5, <1>6, <1>7, <1>8, <1>9, <1>10 DEF HandsOn,
        Answers

\* No request has two answers while what is held has none.
LEMMA AnsweredOnceStep ==
  ASSUME StructInv, AnswerInv, AnsweredOnce, [Next]_vars PROVE AnsweredOnce'
<1> USE DEF StructInv
<1>1. ASSUME NEW n \in Numbers, NEW status \in Statuses, Answer(n, status),
             answers[n] = <<>>
      PROVE  AnsweredOnce'
  <2>1. answers'[n] = <<status>> /\ \A m \in Numbers \ {n} : answers'[m] = answers[m]
    BY <1>1, AnswerAppends
  <2>2. Len(answers'[n]) = 1
    BY <2>1
  <2>3. ASSUME NEW m \in Numbers \ {n} PROVE Len(answers'[m]) <= 1
    <3>1. answers'[m] = answers[m]
      BY <2>1
    <3> QED BY <3>1 DEF AnsweredOnce
  <2>4. ASSUME NEW m \in Numbers PROVE Len(answers'[m]) <= 1
    <3>1. CASE m = n
      <4>1. Len(answers'[m]) = 1
        BY <2>2, <3>1
      <4> QED BY <4>1
    <3>2. CASE m # n
      BY <2>3, <3>2
    <3> QED BY <3>1, <3>2
  <2> QED BY <2>4 DEF AnsweredOnce
<1>2. CASE Busy
  <2>1. hand.n \in Numbers /\ answers[hand.n] = <<>> /\ Answer(hand.n, "ERROR")
    BY <1>2, HeldTypes, RequestType DEF Busy, ControlInv, Placing, AnswerInv
  <2> QED BY <1>1, <2>1 DEF Statuses
<1>3. CASE AnswerSuperseded
  <2>1. /\ victim.n \in Numbers /\ answers[victim.n] = <<>>
        /\ \E status \in Statuses : Answer(victim.n, status)
    BY <1>3, HeldTypes, RequestType DEF AnswerSuperseded, ControlInv, AnswerInv, Statuses
  <2> QED BY <1>1, <2>1
<1>4. ASSUME NEW w \in Workers, WriteReply(w) PROVE AnsweredOnce'
  <2>1. /\ wreq[w].n \in Numbers /\ answers[wreq[w].n] = <<>>
        /\ wstatus[w] \in Statuses /\ Answer(wreq[w].n, wstatus[w])
    BY <1>4, HeldTypes, RequestType DEF WriteReply, ControlInv, AnswerInv, TypeOK
  <2> QED BY <1>1, <2>1
<1>5. CASE ~Answers
  BY <1>5, AnswersFrame DEF AnsweredOnce
<1> QED BY <1>2, <1>3, <1>4, <1>5 DEF Answers

-----------------------------------------------------------------------------
(* Queries: what is held, and what is cancelled *)

\* What a step lets go of, nobody else picks up; only a request just read is new.
LEMMA HeldStep ==
  ASSUME StructInv, [Next]_vars
  PROVE  \A q \in Held' : q \in Held \/ (ReadRequest /\ q = hand')
<1> USE DEF StructInv, readVars, chanVars, workVars
<1>1. CASE ReadRequest
  BY <1>1 DEF ReadRequest, Held
<1>2. CASE Offer
  <2>1. hand # None /\ UNCHANGED wreq
    BY <1>2 DEF Offer, ControlInv, Placing
  <2>2. CASE Len(queue) < QueueCap
    <3>1. hand' = None /\ queue' = Append(queue, hand)
      BY <1>2, <2>2 DEF Offer
    <3>2. \A i \in 1 .. Len(queue') :
            queue'[i] = hand \/ (i \in 1 .. Len(queue) /\ queue'[i] = queue[i])
      BY <2>1, <3>1 DEF TypeOK
    <3> QED BY <2>1, <3>1, <3>2 DEF Held
  <2>3. CASE ~(Len(queue) < QueueCap)
    BY <1>2, <2>1, <2>3 DEF Offer, Held
  <2> QED BY <2>2, <2>3
<1>3. CASE MakeRoom
  <2>1. UNCHANGED <<hand, wreq>>
    BY <1>3 DEF MakeRoom
  <2>2. CASE queue = <<>>
    BY <1>3, <2>1, <2>2 DEF MakeRoom, Held
  <2>3. CASE queue # <<>>
    <3>1. queue' = Tail(queue)
      BY <1>3, <2>3 DEF MakeRoom
    <3> QED BY <2>1, <2>3, <3>1, QueueTail DEF Held
  <2> QED BY <2>2, <2>3
<1>4. CASE Busy \/ AnswerSuperseded \/ ReaderWriteFails
  <2>1. hand' \in {hand, None} /\ UNCHANGED <<queue, wreq>>
    BY <1>4 DEF Busy, AnswerSuperseded, ReaderWriteFails
  <2> QED BY <2>1 DEF Held
<1>5. ASSUME NEW w \in Workers, TakeRequest(w)
      PROVE  \A q \in Held' : q \in Held
  <2>1. queue # <<>> /\ queue' = Tail(queue) /\ UNCHANGED hand
    BY <1>5 DEF TakeRequest
  <2>2. /\ wreq'[w] = queue[1] /\ 1 \in 1 .. Len(queue)
        /\ \A v \in Workers \ {w} : wreq'[v] = wreq[v]
    BY <1>5, <2>1, QueueTail, HeldTypes DEF TakeRequest, TypeOK
  <2> QED BY <2>1, <2>2, QueueTail DEF Held
<1>6. ASSUME NEW w \in Workers, FinishQuery(w)
      PROVE  \A q \in Held' : q \in Held
  <2>1. /\ UNCHANGED <<hand, queue>>
        /\ \A v \in Workers : wreq'[v] \in {wreq[v], None}
    BY <1>6 DEF FinishQuery, TypeOK
  <2> QED BY <2>1 DEF Held
<1>7. CASE ~HandsOn
  BY <1>7, HoldersFrame DEF Held
<1> QED BY <1>1, <1>2, <1>3, <1>4, <1>5, <1>6, <1>7 DEF HandsOn

\* A held request is one the reader has read.
LEMMA HeldIsRead ==
  ASSUME StructInv, NEW q \in Held
  PROVE  q \in Request /\ q.n \in Numbers /\ q.n \in Nat /\ q.id \in Ids /\ q.n <= nreq
<1> USE DEF StructInv
<1>1. q \in Request
  BY HeldTypes DEF Held
<1>2. q.n <= nreq
  <2>1. nreq \in Nat
    BY HeldTypes
  <2> QED BY <2>1 DEF Held, OrderInv
<1> QED BY <1>1, <1>2, RequestType

\* No flag is lowered.
LEMMA CancelledGrows ==
  ASSUME [Next]_vars PROVE cancelled \subseteq cancelled'
<1>1. CASE ReadRequest \/ ReadCancel \/ MakeRoom \/ CancelAll
  BY <1>1 DEF ReadRequest, ReadCancel, MakeRoom, CancelAll, BeginQuery
<1>2. ASSUME NEW w \in Workers, FinishQuery(w) PROVE cancelled \subseteq cancelled'
  BY <1>2 DEF FinishQuery
<1>3. CASE ~Registers
  BY <1>3, RegistryFrame
<1> QED BY <1>1, <1>2, <1>3 DEF Registers

\* Cancelling what is registered leaves no held query running.
LEMMA AllCancelled ==
  ASSUME StructInv, CancelReaches, cancelled' = cancelled \cup Registered,
         NEW q \in HeldQueries
  PROVE  q.n \in cancelled'
<1>1. q \in Held /\ q.n \in Numbers /\ q.id \in Ids
  BY HeldIsRead DEF HeldQueries
<1>2. q.n # 0
  BY <1>1 DEF Numbers
<1> QED BY <1>1, <1>2 DEF CancelReaches, Registered

\* A finished query's entry goes, and no other.
LEMMA CancelReachesStep ==
  ASSUME StructInv, CancelReaches, [Next]_vars PROVE CancelReaches'
<1> SUFFICES ASSUME NEW q \in HeldQueries', q.n \notin cancelled'
             PROVE  registry'[q.id] = q.n
  BY DEF CancelReaches
<1>1. q.tok /\ q \in Held' /\ (q \in Held \/ (ReadRequest /\ q = hand'))
  BY HeldStep DEF HeldQueries
<1>2. q.n \notin cancelled
  BY CancelledGrows
<1>3. q \in Held => /\ q \in HeldQueries /\ registry[q.id] = q.n
                    /\ q.n \in Numbers /\ q.id \in Ids
  BY <1>1, <1>2, HeldIsRead DEF CancelReaches, HeldQueries
<1>4. CASE ReadRequest
  <2>1. PICK op \in Ops, id \in Ids, arg \in Args :
          /\ hand' = [n |-> nreq', op |-> op, id |-> id, arg |-> arg,
                      tok |-> op = "query" /\ hello]
          /\ IF op = "query" /\ hello THEN BeginQuery(id, nreq')
                                     ELSE UNCHANGED <<registry, cancelled>>
    BY <1>4 DEF ReadRequest
  <2>2. CASE op = "query" /\ hello
    <3>1. q \notin Held
      BY <1>1, <1>3, <2>1, <2>2, AllCancelled DEF BeginQuery
    <3> QED BY <1>1, <2>1, <2>2, <3>1 DEF BeginQuery
  <2>3. CASE ~(op = "query" /\ hello)
    <3>1. hand'.tok = (op = "query" /\ hello)
      BY <2>1
    <3>2. q # hand'
      BY <1>1, <2>3, <3>1
    <3> QED BY <1>1, <1>3, <2>1, <2>3, <3>2
  <2> QED BY <2>2, <2>3
<1>5. CASE ReadCancel
  BY <1>1, <1>3, <1>5 DEF ReadCancel, ReadRequest, readVars
<1>6. CASE MakeRoom
  <2>1. q \in Held
    BY <1>1, <1>6 DEF MakeRoom, ReadRequest
  <2>2. CASE queue # <<>> /\ Head(queue).tok
    <3>1. registry' = Finished(Head(queue).id, Head(queue).n) /\ q.n # Head(queue).n
      BY <1>6, <2>2 DEF MakeRoom
    <3> QED BY <1>3, <2>1, <3>1 DEF Finished, StructInv, TypeOK
  <2>3. CASE ~(queue # <<>> /\ Head(queue).tok)
    BY <1>3, <1>6, <2>1, <2>3 DEF MakeRoom
  <2> QED BY <2>2, <2>3
<1>7. CASE CancelAll
  BY <1>1, <1>3, <1>7, AllCancelled DEF CancelAll, ReadRequest
<1>8. ASSUME NEW w \in Workers, FinishQuery(w) PROVE registry'[q.id] = q.n
  <2>1. wreq[w] # None /\ UNCHANGED <<hand, queue>>
    BY <1>8 DEF FinishQuery, StructInv, ControlInv, readVars, chanVars
  <2>2. wreq'[w] = None /\ \A v \in Workers \ {w} : wreq'[v] = wreq[v]
    BY <1>8 DEF FinishQuery, StructInv, TypeOK
  <2>3. q.n # wreq[w].n
    <3>1. wreq[w].n \in Nat
      BY <2>1, HeldTypes DEF StructInv
    <3>2. CASE q = hand
      BY <2>1, <3>1, <3>2, <1>1 DEF StructInv, OrderInv, Held
    <3>3. ASSUME NEW i \in 1 .. Len(queue), q = queue[i] PROVE q.n # wreq[w].n
      BY <2>1, <3>1, <3>3 DEF StructInv, OrderInv
    <3>4. ASSUME NEW v \in Workers \ {w}, q = wreq[v], q # None PROVE q.n # wreq[w].n
      BY <2>1, <3>4 DEF StructInv, OrderInv
    <3> QED BY <1>1, <2>1, <2>2, <3>2, <3>3, <3>4 DEF Held
  <2>4. q \in Held
    BY <1>1, <1>8 DEF FinishQuery, ReadRequest, readVars
  <2> QED BY <1>3, <1>8, <2>3, <2>4 DEF FinishQuery, Finished, StructInv, TypeOK
<1>9. CASE ~Registers
  BY <1>1, <1>3, <1>9, RegistryFrame DEF Registers
<1> QED BY <1>4, <1>5, <1>6, <1>7, <1>8, <1>9 DEF Registers

\* Of two held queries the older one is cancelled: reading the newer did it.
LEMMA LatestQueryWinsStep ==
  ASSUME StructInv, CancelReaches, LatestQueryWins, [Next]_vars PROVE LatestQueryWins'
<1> SUFFICES ASSUME NEW q \in HeldQueries', NEW r \in HeldQueries', q.n < r.n
             PROVE  q.n \in cancelled'
  BY DEF LatestQueryWins
<1>1. /\ q.tok /\ (q \in Held \/ (ReadRequest /\ q = hand'))
      /\ r.tok /\ (r \in Held \/ (ReadRequest /\ r = hand'))
  BY HeldStep DEF HeldQueries
<1>2. CASE q \in Held /\ r \in Held
  BY <1>1, <1>2, CancelledGrows DEF LatestQueryWins, HeldQueries
<1>3. CASE ReadRequest /\ q = hand'
  <2>1. nreq \in Nat /\ q.n = nreq + 1
    BY <1>3, HeldTypes DEF ReadRequest, StructInv
  <2>2. r \in Held => r.n <= nreq /\ r.n \in Nat
    BY HeldIsRead
  <2>3. r = hand' => r.n = q.n
    BY <1>3
  <2> QED BY <1>1, <2>1, <2>2, <2>3
<1>4. CASE ReadRequest /\ q \in Held /\ r = hand'
  <2>1. PICK op \in Ops, id \in Ids, arg \in Args :
          /\ hand' = [n |-> nreq', op |-> op, id |-> id, arg |-> arg,
                      tok |-> op = "query" /\ hello]
          /\ IF op = "query" /\ hello THEN BeginQuery(id, nreq')
                                     ELSE UNCHANGED <<registry, cancelled>>
    BY <1>4 DEF ReadRequest
  <2>2. hand'.tok = (op = "query" /\ hello)
    BY <2>1
  <2>3. BeginQuery(id, nreq')
    BY <1>1, <1>4, <2>1, <2>2
  <2> QED BY <1>1, <1>4, <2>3, AllCancelled DEF BeginQuery, HeldQueries
<1> QED BY <1>1, <1>2, <1>3, <1>4

\* The reader leaves through CancelAll, or before it has read anything.
LEMMA TeardownCancelsStep ==
  ASSUME StructInv, CancelReaches, TeardownCancels, [Next]_vars PROVE TeardownCancels'
<1> DEFINE Torn == {"signal", "join", "unsubscribe", "done"}
<1> SUFFICES ASSUME rpc' \in Torn, NEW q \in HeldQueries' PROVE q.n \in cancelled'
  BY DEF TeardownCancels
<1>1. rpc \in Torn \/ CancelAll \/ Spawn
  <2> USE DEF pipeVars, readVars, chanVars, queryVars, resultVars, subVars, workVars
  <2>1. CASE Client \/ ServerDisconnects \/ Read \/ Place \/ TearDown
    BY <2>1 DEF Client, ClientReads, ClientCloses, ServerDisconnects, Read, ReadRequest,
         ReadCancel, ReadViolation, Place, Offer, Busy, MakeRoom, AnswerSuperseded,
         ReaderWriteFails, TearDown, ReadFails, Signal, Join, EndSubscription
  <2>2. ASSUME NEW w \in Workers, WorkerStep(w) PROVE rpc' = rpc
    <3>1. CASE Query(w)
      BY <3>1 DEF Query, QueryRefused, QueryBegin, QueryRun, QueryRecord, QueryCheck,
           QueryBasis, QueryInsert
    <3>2. CASE Dispatch(w) /\ ~Query(w)
      BY <3>2 DEF Dispatch, DispatchDrop, DispatchHello, DispatchStatus, PageLookup,
           PageFill, ResultFree, Subscribe, Attach, Unsubscribe
    <3>3. CASE ~Dispatch(w)
      BY <2>2, <3>3 DEF WorkerStep, TakeSignal, TakeRequest, WriteReply, BreakConnection,
           FinishQuery
    <3> QED BY <3>1, <3>2, <3>3
  <2>3. CASE Ended \/ UNCHANGED vars
    BY <2>3 DEF Ended, vars
  <2> QED BY <2>1, <2>2, <2>3 DEF Next
<1>2. CASE rpc \in Torn
  <2>1. q \in HeldQueries
    BY <1>2, HeldStep DEF HeldQueries, ReadRequest
  <2> QED BY <1>2, <2>1, CancelledGrows DEF TeardownCancels
<1>3. CASE CancelAll
  <2>1. q \in HeldQueries
    BY <1>3, HeldStep DEF HeldQueries, ReadRequest, CancelAll
  <2> QED BY <1>3, <2>1, AllCancelled DEF CancelAll
<1>4. CASE Spawn
  <2>1. rpc = "spawn" /\ ~ReadRequest
    BY <1>4 DEF Spawn, ReadRequest
  <2>2. hand = None /\ queue = <<>> /\ \A w \in Workers : wreq[w] = None
    BY <2>1 DEF StructInv, ControlInv, Placing
  <2>3. q \in Held
    BY <2>1, HeldStep DEF HeldQueries
  <2>4. Held = {}
    BY <2>2 DEF Held
  <2> QED BY <2>3, <2>4
<1> QED BY <1>1, <1>2, <1>3, <1>4

-----------------------------------------------------------------------------
(* The subscription and the results *)

\* The steps that take or release the subscription lock or end a reader.
Subscribes ==
  Spawn \/ EndSubscription \/ \E w \in Workers : Subscribe(w) \/ Attach(w) \/ Unsubscribe(w)

\* Every other step leaves the subscription, its lock and its holder alone.
LEMMA SubscriptionFrame ==
  ASSUME TypeOK, [Next]_vars, ~Subscribes
  PROVE  /\ UNCHANGED <<sub, subLock, subscribers>>
         /\ rpc' \in {"spawn", "done"} => rpc' = rpc
         /\ \A w \in Workers :
              /\ wpc'[w] = "attach" <=> wpc[w] = "attach"
              /\ wpc[w] = "attach" => wbasis'[w] = wbasis[w]
<1> USE DEF Subscribes, pipeVars, readVars, chanVars, queryVars, resultVars, subVars,
       workVars
<1>1. CASE Client \/ ServerDisconnects \/ Read \/ Place \/ TearDown
  BY <1>1 DEF Client, ClientReads, ClientCloses, ServerDisconnects, Read, ReadRequest,
       ReadCancel, ReadViolation, Place, Offer, Busy, MakeRoom, AnswerSuperseded,
       ReaderWriteFails, TearDown, ReadFails, CancelAll, Signal, Join
<1>2. ASSUME NEW v \in Workers, WorkerStep(v)
      PROVE  /\ UNCHANGED <<sub, subLock, subscribers, rpc>>
             /\ wpc'[v] # "attach" /\ wpc[v] # "attach"
             /\ \A w \in Workers \ {v} : wpc'[w] = wpc[w] /\ wbasis'[w] = wbasis[w]
  <2>1. CASE Query(v)
    BY <2>1 DEF Query, QueryRefused, QueryBegin, QueryRun, QueryRecord, QueryCheck,
         QueryBasis, QueryInsert, Dispatching, Reply, TypeOK
  <2>2. CASE Dispatch(v) /\ ~Query(v)
    BY <1>2, <2>2 DEF Dispatch, DispatchDrop, DispatchHello, DispatchStatus, PageLookup,
         PageFill, ResultFree, Dispatching, Reply, TypeOK
  <2>3. CASE ~Dispatch(v)
    BY <1>2, <2>3 DEF WorkerStep, TakeSignal, TakeRequest, WriteReply, BreakConnection,
         FinishQuery, TypeOK
  <2> QED BY <2>1, <2>2, <2>3
<1>3. CASE Ended \/ UNCHANGED vars
  BY <1>3 DEF Ended, vars
<1> QED BY <1>1, <1>2, <1>3 DEF Next

\* Whoever holds the lock is the one worker that may leave a queue behind.
LEMMA SubInvStep ==
  ASSUME StructInv, SubInv, [Next]_vars PROVE SubInv'
<1> USE DEF StructInv, SubInv, pipeVars, readVars, chanVars, queryVars, resultVars,
       subVars, workVars
<1>0. None \notin Nat /\ None \notin Workers
  BY ConnectionAssumption
<1>1. CASE Spawn
  <2>1. UNCHANGED <<sub, subLock, subscribers, wbasis>> /\ sub = None
    BY <1>1 DEF Spawn
  <2>2. \A w \in Workers : wpc[w] # "attach" /\ wpc'[w] # "attach"
    BY <1>1 DEF Spawn, ControlInv
  <2>3. subLock = None
    BY <2>2 DEF TypeOK
  <2> QED BY <1>0, <2>1, <2>2, <2>3
<1>2. CASE EndSubscription
  BY <1>0, <1>2 DEF EndSubscription
<1>3. ASSUME NEW w \in Workers, Subscribe(w) PROVE SubInv'
  <2>1. /\ subLock = None /\ rpc' = rpc /\ sub' = sub
        /\ \A v \in Workers \ {w} : wpc'[v] = wpc[v]
        /\ rpc # "spawn" /\ rpc # "done"
    BY <1>3 DEF Subscribe, Dispatching, Reply, TypeOK, ControlInv
  <2>2. CASE sub = None
    <3>1. /\ subLock' = w /\ subscribers' = {nextQueue}
          /\ wpc'[w] = "attach" /\ wbasis'[w] = nextQueue
      BY <1>3, <2>1, <2>2 DEF Subscribe, TypeOK
    <3> QED BY <1>0, <2>1, <2>2, <3>1
  <2>3. CASE sub # None
    <3>1. subLock' = None /\ subscribers' = subscribers /\ wpc'[w] = "reply"
      BY <1>3, <2>1, <2>3 DEF Subscribe, Reply, TypeOK
    <3> QED BY <1>0, <2>1, <2>3, <3>1
  <2> QED BY <2>2, <2>3
<1>4. ASSUME NEW w \in Workers, Attach(w) PROVE SubInv'
  <2>1. /\ subLock = w /\ subLock' = None /\ rpc' = rpc /\ wpc'[w] = "reply"
        /\ \A v \in Workers \ {w} : wpc'[v] = wpc[v]
        /\ rpc # "spawn" /\ rpc # "done"
    BY <1>4 DEF Attach, Reply, TypeOK, ControlInv
  <2>2. sub = None /\ subscribers = {wbasis[w]} /\ wbasis[w] \in Nat
    BY <1>0, <2>1 DEF TypeOK
  <2>3. \/ sub' = wbasis[w] /\ subscribers' = {wbasis[w]}
        \/ sub' = None /\ subscribers' = {}
    BY <1>4, <2>2 DEF Attach
  <2>4. \A v \in Workers \ {w} : wpc'[v] # "attach"
    BY <2>1
  <2> QED BY <1>0, <2>1, <2>2, <2>3, <2>4
<1>5. ASSUME NEW w \in Workers, Unsubscribe(w) PROVE SubInv'
  <2>1. /\ subLock = None /\ subLock' = None /\ rpc' = rpc /\ wpc'[w] = "reply"
        /\ \A v \in Workers \ {w} : wpc'[v] = wpc[v]
        /\ sub' = None /\ subscribers' = {}
    BY <1>5 DEF Unsubscribe, Reply, TypeOK
  <2> QED BY <1>0, <2>1
<1>6. CASE ~Subscribes
  <2>1. /\ UNCHANGED <<sub, subLock, subscribers>>
        /\ rpc' \in {"spawn", "done"} => rpc' = rpc
        /\ \A w \in Workers :
              /\ wpc'[w] = "attach" <=> wpc[w] = "attach"
              /\ wpc[w] = "attach" => wbasis'[w] = wbasis[w]
    BY <1>6, SubscriptionFrame
  <2>2. subLock # None => subLock \in Workers
    BY DEF TypeOK
  <2> QED BY <2>1, <2>2
<1> QED BY <1>1, <1>2, <1>3, <1>4, <1>5, <1>6 DEF Subscribes

\* One queue at most is in the broadcaster, and none when the reader has returned.
LEMMA OneSubscriptionHolds ==
  ASSUME StructInv, SubInv PROVE OneSubscription
<1> USE DEF StructInv, SubInv
<1>1. subscribers = {} \/ \E q \in Nat : subscribers = {q}
  BY DEF TypeOK
<1>2. Cardinality(subscribers) <= 1
  <2>1. Cardinality({}) = 0
    BY FS_EmptySet
  <2>2. \A q \in Nat : Cardinality({q}) = 1
    BY FS_Singleton
  <2>3. Cardinality(subscribers) \in {0, 1}
    BY <1>1, <2>1, <2>2
  <2> QED BY <2>3
<1>3. ASSUME rpc = "done" PROVE subscribers = {}
  <2>1. sub = None /\ \A w \in Workers : wpc[w] # "attach"
    BY <1>3 DEF ControlInv
  <2> QED BY <2>1 DEF TypeOK
<1> QED BY <1>2, <1>3 DEF OneSubscription

\* Touching keeps the number of results, freeing lowers it, recording evicts first.
LEMMA ResultsBoundedStep ==
  ASSUME StructInv, ResultsBounded, [Next]_vars PROVE ResultsBounded'
<1> DEFINE Records(w) == QueryBegin(w) \/ QueryInsert(w) \/ PageLookup(w) \/ ResultFree(w)
<1>1. ASSUME NEW w \in Workers, Records(w) PROVE ResultsBounded'
  <2>1. /\ results \in Seq(Nat) /\ nextId \in Nat /\ Len(results) \in Nat
        /\ MaxResults \in Nat
    BY ConnectionAssumption DEF StructInv, TypeOK
  <2>2. CASE QueryInsert(w)
    BY <2>1, <2>2, EvictedMakesRoom DEF QueryInsert, ResultsBounded
  <2>3. CASE ~QueryInsert(w)
    <3>1. wreq[w].arg \in Nat
      <4>1. wreq[w] # None
        BY <1>1, <2>3 DEF QueryBegin, PageLookup, ResultFree, Dispatching, StructInv,
             ControlInv
      <4> QED BY <4>1, HeldTypes, RequestType DEF StructInv
    <3>2. results' \in {results, Touch(wreq[w].arg), Without(wreq[w].arg)}
      BY <1>1, <2>3 DEF QueryBegin, PageLookup, ResultFree
    <3>3. results' = Touch(wreq[w].arg) => IsResult(wreq[w].arg) \/ results' = results
                                          \/ results' = Without(wreq[w].arg)
      BY <1>1, <2>3 DEF QueryBegin, PageLookup, ResultFree
    <3>4. Len(Without(wreq[w].arg)) <= Len(results)
      <4>1. CASE IsResult(wreq[w].arg)
        <5>1. Len(Without(wreq[w].arg)) = Len(results) - 1
          BY <2>1, <3>1, <4>1, WithoutShorter
        <5> QED BY <2>1, <5>1
      <4>2. CASE ~IsResult(wreq[w].arg)
        <5>1. Len(Without(wreq[w].arg)) = Len(results)
          BY <2>1, <3>1, <4>2, WithoutShorter
        <5> QED BY <2>1, <5>1
      <4> QED BY <4>1, <4>2
    <3>5. Len(results') <= Len(results)
      BY <2>1, <3>1, <3>2, <3>3, <3>4, TouchKeepsCount
    <3>6. Len(results') \in Nat
      BY <2>1, <3>1, <3>2, <3>3, WithoutShorter, TouchKeepsCount
    <3> QED BY <2>1, <3>5, <3>6 DEF ResultsBounded
  <2> QED BY <2>2, <2>3
<1>2. CASE ~ \E w \in Workers : Records(w)
  <2> USE DEF pipeVars, readVars, chanVars, queryVars, resultVars, subVars, workVars
  <2>1. CASE Client \/ ServerDisconnects \/ Spawn \/ Read \/ Place \/ TearDown
    BY <2>1 DEF Client, ClientReads, ClientCloses, ServerDisconnects, Spawn, Read,
         ReadRequest, ReadCancel, ReadViolation, Place, Offer, Busy, MakeRoom,
         AnswerSuperseded, ReaderWriteFails, TearDown, ReadFails, CancelAll, Signal, Join,
         EndSubscription, ResultsBounded
  <2>2. ASSUME NEW w \in Workers, WorkerStep(w) PROVE results' = results
    <3>1. CASE Query(w)
      BY <1>2, <3>1 DEF Query, QueryRefused, QueryRun, QueryRecord, QueryCheck, QueryBasis
    <3>2. CASE Dispatch(w) /\ ~Query(w)
      BY <1>2, <3>2 DEF Dispatch, DispatchDrop, DispatchHello, DispatchStatus, PageFill,
           Subscribe, Attach, Unsubscribe
    <3>3. CASE ~Dispatch(w)
      BY <2>2, <3>3 DEF WorkerStep, TakeSignal, TakeRequest, WriteReply, BreakConnection,
           FinishQuery
    <3> QED BY <3>1, <3>2, <3>3
  <2>3. CASE Ended \/ UNCHANGED vars
    BY <2>3 DEF Ended, vars, ResultsBounded
  <2> QED BY <2>1, <2>2, <2>3 DEF Next, ResultsBounded
<1> QED BY <1>1, <1>2

-----------------------------------------------------------------------------
(* The theorems *)

\* The inductive invariant.
ConnectionInv == StructInv /\ AnswerInv /\ AnsweredOnce /\ QueryInv /\ SubInv /\ ResultsBounded

\* A new connection satisfies the invariant.
LEMMA ConnectionInvInit == Init => ConnectionInv
<1> SUFFICES ASSUME Init PROVE ConnectionInv
  OBVIOUS
<1> USE DEF Init
<1>0. /\ OutCap \in Nat \ {0} /\ MaxRequests \in Nat /\ Receivers \in Nat
      /\ None \notin Nat /\ None \notin Workers
  BY ConnectionAssumption, ReceiversType
<1>1. TypeOK
  <2>1. registry \in [Ids -> 0 .. MaxRequests] /\ nreq \in 0 .. MaxRequests
    BY <1>0
  <2>2. out \in 0 .. OutCap /\ signals \in 0 .. Receivers
    BY <1>0
  <2>3. /\ wpc \in [Workers -> {"exit"}] /\ wstatus \in [Workers -> Statuses]
        /\ wreq \in [Workers -> {None}]
    BY DEF Statuses
  <2>4. answers \in [Numbers -> Seq(Statuses)] /\ queue \in Seq(Request) /\ results \in Seq(Nat)
    OBVIOUS
  <2> QED BY <2>1, <2>2, <2>3, <2>4 DEF TypeOK
<1>2. ControlInv
  BY DEF ControlInv, Placing
<1>3. OrderInv /\ AnswerInv
  BY DEF OrderInv, AnswerInv
<1>4. AnsweredOnce /\ ResultsBounded
  BY ConnectionAssumption DEF AnsweredOnce, ResultsBounded
<1>5. QueryInv
  <2>1. Held = {}
    BY DEF Held
  <2> QED BY <2>1 DEF QueryInv, CancelReaches, LatestQueryWins, TeardownCancels, HeldQueries
<1>6. SubInv
  BY <1>0 DEF SubInv
<1> QED BY <1>1, <1>2, <1>3, <1>4, <1>5, <1>6 DEF ConnectionInv, StructInv

\* Every step preserves the invariant.
LEMMA ConnectionInvStep == ConnectionInv /\ [Next]_vars => ConnectionInv'
<1> SUFFICES ASSUME ConnectionInv, [Next]_vars PROVE ConnectionInv'
  OBVIOUS
<1> USE DEF ConnectionInv
<1>1. StructInv'
  BY TypeOKStep, ControlInvStep, OrderInvStep DEF StructInv
<1>2. AnswerInv' /\ AnsweredOnce'
  BY AnswerInvStep, AnsweredOnceStep
<1>3. QueryInv'
  BY CancelReachesStep, LatestQueryWinsStep, TeardownCancelsStep DEF QueryInv
<1>4. SubInv' /\ ResultsBounded'
  BY SubInvStep, ResultsBoundedStep
<1> QED BY <1>1, <1>2, <1>3, <1>4

\* The invariant holds in every state of a connection.
THEOREM ConnectionInvHolds == Spec => []ConnectionInv
  BY ConnectionInvInit, ConnectionInvStep, PTL DEF Spec

\* Every value a connection holds stays in its range: the pipe and the queues in their
\* capacities, the counters below theirs, the control points among those of the code
\* (server.rs run_connection, dispatch.rs Connection).
THEOREM ConnectionTypeCorrect == Spec => []TypeOK
<1>1. ConnectionInv => TypeOK
  BY DEF ConnectionInv, StructInv
<1> QED BY <1>1, ConnectionInvHolds, PTL

\* A request is answered at most once, whether a worker answers it, the reader refuses
\* it, or the reader displaces it while the workers drain the queue (server.rs
\* run_connection).
THEOREM RequestAnsweredOnce == Spec => []AnsweredOnce
<1>1. ConnectionInv => AnsweredOnce
  BY DEF ConnectionInv
<1> QED BY <1>1, ConnectionInvHolds, PTL

\* A QueryCancel finds its target however the client reuses request ids: a query that is
\* queued or running and not yet cancelled is the one registered under its id (dispatch.rs
\* QueryRegistry::begin and finish).
THEOREM CancelReachesTarget == Spec => []CancelReaches
<1>1. ConnectionInv => CancelReaches
  BY DEF ConnectionInv, QueryInv
<1> QED BY <1>1, ConnectionInvHolds, PTL

\* Of the queries of a connection only the newest may run uncancelled, and none once the
\* reader joins its workers (dispatch.rs QueryRegistry, server.rs run_connection).
THEOREM NewestQueryRuns == Spec => []SupersededIsCancelled
<1>1. ConnectionInv => SupersededIsCancelled
  BY DEF ConnectionInv, QueryInv, SupersededIsCancelled
<1> QED BY <1>1, ConnectionInvHolds, PTL

\* A connection keeps at most MaxResults results and one event queue, and leaves no
\* queue in the broadcaster when its thread returns (dispatch.rs Connection::query,
\* server.rs subscribe and run_connection).
THEOREM ConnectionIsBounded == Spec => []ResourcesBounded
<1>1. ConnectionInv => ResourcesBounded
  BY OneSubscriptionHolds DEF ConnectionInv, ResourcesBounded
<1> QED BY <1>1, ConnectionInvHolds, PTL
=============================================================================
