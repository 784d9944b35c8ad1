--------------------------- MODULE PipeConnection ---------------------------
(***************************************************************************)
(* One client connection of the engine service: the reader thread and the  *)
(* request workers of run_connection (fmf-service server.rs), the bounded  *)
(* request queue between them, and the connection's state in dispatch.rs:  *)
(* the hello handshake, the registry of cancellable queries, the results   *)
(* the client may page through, and the event subscription.                *)
(*                                                                         *)
(* Requests are numbered 1, 2, ... in the order the reader reads them; the *)
(* number stands for the identity of the request and of its cancellation   *)
(* token, while the request id is the client's and may be reused.          *)
(* Payloads are reduced to the result a request names (arg).  The map of   *)
(* results with its use clock is the sequence of result ids from least to  *)
(* most recently used: every tick of the clock is taken under the results  *)
(* lock, so the order of the ticks is the order of the accesses.           *)
(***************************************************************************)
EXTENDS Naturals, Sequences, FiniteSets

CONSTANTS
  Workers,      \* request workers (WORKERS_PER_CONNECTION of them)
  Ids,          \* request ids the client uses
  Ops,          \* operations the client uses
  Args,         \* results a request may name; 0 names none
  None,         \* "absent"
  QueueCap,     \* REQUEST_QUEUE_CAP
  MaxResults,   \* MAX_RESULTS_PER_CONN
  OutCap,       \* frames the pipe buffers before a write blocks
  MaxRequests   \* bound: requests the client sends

\* Every operation but "query", "page" and "free" is answered at once.
\* "bad" is a request no arm of dispatch_inner accepts.
AllOps == {"hello", "badhello", "query", "page", "free", "subscribe",
           "unsubscribe", "status", "bad"}

Numbers == 1 .. MaxRequests

Request == [n : Numbers, op : AllOps, id : Ids, arg : Args, tok : BOOLEAN]

\* codes::OK and codes::CANCELLED; every other code (IO, STALE, INVALID_ARG,
\* QUERY_SYNTAX, PANIC) is "ERROR".
Statuses == {"OK", "CANCELLED", "ERROR"}

\* CANCELLATION_RECEIVERS: one signal for the reader and one for each worker.
Receivers == Cardinality(Workers) + 1

ASSUME ConnectionAssumption ==
  /\ IsFiniteSet(Workers)
  /\ Ops \subseteq AllOps
  /\ Args \subseteq Nat
  /\ QueueCap \in Nat \ {0}
  /\ MaxResults \in Nat \ {0}
  /\ OutCap \in Nat \ {0}
  /\ MaxRequests \in Nat
  /\ None \notin Request
  /\ None \notin Nat
  /\ None \notin Workers

VARIABLES
  up,         \* is the pipe connected?
  out,        \* frames written and not yet read by the client
  \* The reader.
  rpc, hand,  \* control point; the request it is placing or answering
  victim,     \* the queued request it displaced
  nreq,       \* requests read so far
  \* The channels.
  queue, txOpen, signals,
  \* The connection.
  hello,      \* hello_done
  registry,   \* QueryRegistry: request id -> number of its query, 0: none
  cancelled,  \* tokens whose flag is raised
  results, nextId,
  \* The subscription and the queues of this connection in the broadcaster.
  sub, subLock, subscribers, nextQueue,
  \* The workers.
  wpc, wreq, wbasis, wsame, wstatus,
  \* History: the statuses each request was answered with.
  answers

pipeVars   == <<up, out>>
readVars   == <<rpc, hand, victim, nreq>>
chanVars   == <<queue, txOpen, signals>>
queryVars  == <<hello, registry, cancelled>>
resultVars == <<results, nextId>>
subVars    == <<sub, subLock, subscribers, nextQueue>>
workVars   == <<wpc, wreq, wbasis, wsame, wstatus>>
vars == <<pipeVars, readVars, chanVars, queryVars, resultVars, subVars,
          workVars, answers>>

Init ==
  /\ up = TRUE /\ out = 0
  /\ rpc = "spawn" /\ hand = None /\ victim = None /\ nreq = 0
  /\ queue = <<>> /\ txOpen = TRUE /\ signals = 0
  /\ hello = FALSE
  /\ registry = [i \in Ids |-> 0]
  /\ cancelled = {}
  /\ results = <<>> /\ nextId = 1
  /\ sub = None /\ subLock = None /\ subscribers = {} /\ nextQueue = 1
  /\ wpc = [w \in Workers |-> "exit"]
  /\ wreq = [w \in Workers |-> None]
  /\ wbasis = [w \in Workers |-> 0]
  /\ wsame = [w \in Workers |-> FALSE]
  /\ wstatus = [w \in Workers |-> "OK"]
  /\ answers = [n \in Numbers |-> <<>>]

-----------------------------------------------------------------------------
(* The query registry (dispatch.rs QueryRegistry) *)

Registered == {registry[i] : i \in Ids} \ {0}

\* Mutant of BeginQuery: older queries are forgotten, not cancelled.
BeginQueryForgetting(id, n) ==
  /\ registry' = [i \in Ids |-> IF i = id THEN n ELSE 0]
  /\ UNCHANGED cancelled

\* begin: raise every registered flag, forget them, register the new query.
BeginQuery(id, n) ==
  /\ cancelled' = cancelled \cup Registered
  /\ registry' = [i \in Ids |-> IF i = id THEN n ELSE 0]

\* Mutant of Finished: the entry of the id is removed whosever it is.
FinishedById(id, n) == [registry EXCEPT ![id] = 0]

\* finish: remove the entry of the id if it still is this query's.
Finished(id, n) == [registry EXCEPT ![id] = IF @ = n THEN 0 ELSE @]

-----------------------------------------------------------------------------
(* The pipe.  A write takes the writer lock and waits for room in the pipe;   *)
(* whoever else wants to write waits for the same room, so the lock itself    *)
(* need not be modelled.  A write to a disconnected pipe fails.               *)

CanWrite == up /\ out < OutCap

Answer(n, status) ==
  /\ CanWrite
  /\ out' = out + 1
  /\ answers' = [answers EXCEPT ![n] = Append(@, status)]
  /\ UNCHANGED up

\* Mutant of Disconnect: the channel is filled again though it is full.
DisconnectAgain ==
  /\ up' = FALSE
  /\ signals' = signals + Receivers
  /\ UNCHANGED out

\* disconnect(): fill the cancellation channel, break the pipe.
Disconnect ==
  /\ up' = FALSE
  /\ signals' = Receivers
  /\ UNCHANGED out

ClientReads ==
  /\ up
  /\ out > 0
  /\ out' = out - 1
  /\ UNCHANGED <<up, readVars, chanVars, queryVars, resultVars, subVars,
                 workVars, answers>>

ClientCloses ==
  /\ up
  /\ up' = FALSE
  /\ UNCHANGED <<out, readVars, chanVars, queryVars, resultVars, subVars,
                 workVars, answers>>

\* ConnectionRegistry::disconnect_all, when the server stops.
ServerDisconnects ==
  /\ up
  /\ Disconnect
  /\ UNCHANGED <<readVars, queue, txOpen, queryVars, resultVars, subVars,
                 workVars, answers>>

-----------------------------------------------------------------------------
(* The reader (run_connection) *)

\* Thread creation may fail; without a single worker the connection ends.
Spawn ==
  /\ rpc = "spawn"
  /\ \E alive \in SUBSET Workers :
       /\ wpc' = [w \in Workers |-> IF w \in alive THEN "idle" ELSE "exit"]
       /\ IF alive = {}
            THEN rpc' = "done" /\ Disconnect
            ELSE rpc' = "read" /\ UNCHANGED <<pipeVars, signals>>
  /\ UNCHANGED <<hand, victim, nreq, queue, txOpen, queryVars, resultVars,
                 subVars, wreq, wbasis, wsame, wstatus, answers>>

\* A request frame.  A query read after the handshake enters the registry
\* before it enters the queue.
ReadRequest ==
  /\ rpc = "read" /\ up
  /\ nreq < MaxRequests
  /\ nreq' = nreq + 1
  /\ \E op \in Ops, id \in Ids, arg \in Args :
       LET tok == op = "query" /\ hello
       IN /\ op \notin {"query", "page", "free"} => arg = 0
          /\ hand' = [n |-> nreq', op |-> op, id |-> id, arg |-> arg,
                      tok |-> tok]
          /\ IF tok THEN BeginQuery(id, nreq')
                    ELSE UNCHANGED <<registry, cancelled>>
  /\ rpc' = "offer"
  /\ UNCHANGED <<pipeVars, victim, chanVars, hello, resultVars, subVars,
                 workVars, answers>>

\* QueryCancel is handled here and is never queued or answered.
ReadCancel ==
  /\ rpc = "read" /\ up
  /\ hello
  /\ \E id \in Ids :
       /\ registry[id] # 0
       /\ cancelled' = cancelled \cup {registry[id]}
  /\ UNCHANGED <<pipeVars, readVars, chanVars, hello, registry, resultVars,
                 subVars, workVars, answers>>

\* A frame with flags, an oversized frame, a QueryCancel before the handshake:
\* the reader breaks the pipe itself.
ReadViolation ==
  /\ rpc = "read" /\ up
  /\ up' = FALSE
  /\ rpc' = "exit"
  /\ UNCHANGED <<out, hand, victim, nreq, chanVars, queryVars, resultVars,
                 subVars, workVars, answers>>

ReadFails ==
  /\ rpc = "read" /\ ~up
  /\ rpc' = "exit"
  /\ UNCHANGED <<pipeVars, hand, victim, nreq, chanVars, queryVars, resultVars,
                 subVars, workVars, answers>>

\* try_send.
Offer ==
  /\ rpc = "offer"
  /\ IF Len(queue) < QueueCap
       THEN /\ queue' = Append(queue, hand)
            /\ hand' = None
            /\ rpc' = "read"
       ELSE /\ rpc' = IF hand.op = "query" THEN "room" ELSE "busy"
            /\ UNCHANGED <<queue, hand>>
  /\ UNCHANGED <<pipeVars, victim, nreq, txOpen, signals, queryVars,
                 resultVars, subVars, workVars, answers>>

\* Mutant of Busy: the refused request is dropped without a word.
BusySilently ==
  /\ rpc = "busy"
  /\ rpc' = "read"
  /\ hand' = None
  /\ UNCHANGED <<pipeVars, victim, nreq, chanVars, queryVars, resultVars,
                 subVars, workVars, answers>>

\* Full, and not a query: the explicit busy response.
Busy ==
  /\ rpc = "busy"
  /\ Answer(hand.n, "ERROR")
  /\ rpc' = "read"
  /\ hand' = None
  /\ UNCHANGED <<victim, nreq, chanVars, queryVars, resultVars, subVars,
                 workVars>>

\* Mutant of MakeRoom: the oldest request is answered but stays queued.
MakeRoomKeeping ==
  /\ rpc = "room"
  /\ IF queue = <<>>
       THEN rpc' = "offer" /\ UNCHANGED victim
       ELSE rpc' = "superseded" /\ victim' = Head(queue)
  /\ UNCHANGED <<pipeVars, hand, nreq, chanVars, queryVars, resultVars,
                 subVars, workVars, answers>>

\* Full, and a query: the oldest queued request makes room, whatever it is.
\* A worker may have emptied the queue since.
MakeRoom ==
  /\ rpc = "room"
  /\ IF queue = <<>>
       THEN /\ rpc' = "offer"
            /\ UNCHANGED <<victim, queue, registry, cancelled>>
       ELSE LET dropped == Head(queue)
            IN /\ victim' = dropped
               /\ queue' = Tail(queue)
               /\ rpc' = "superseded"
               /\ IF dropped.tok
                    THEN /\ cancelled' = cancelled \cup {dropped.n}
                         /\ registry' = Finished(dropped.id, dropped.n)
                    ELSE UNCHANGED <<registry, cancelled>>
  /\ UNCHANGED <<pipeVars, hand, nreq, txOpen, signals, hello, resultVars,
                 subVars, workVars, answers>>

AnswerSuperseded ==
  /\ rpc = "superseded"
  /\ Answer(victim.n, IF victim.op = "query" THEN "CANCELLED" ELSE "ERROR")
  /\ victim' = None
  /\ rpc' = "offer"
  /\ UNCHANGED <<hand, nreq, chanVars, queryVars, resultVars, subVars,
                 workVars>>

\* A response of the reader cannot be written: it leaves the loop.
ReaderWriteFails ==
  /\ rpc \in {"busy", "superseded"}
  /\ ~up
  /\ hand' = None /\ victim' = None
  /\ rpc' = "exit"
  /\ UNCHANGED <<pipeVars, nreq, chanVars, queryVars, resultVars, subVars,
                 workVars, answers>>

\* Mutant of CancelAll: a dying connection leaves its queries alone.
CancelAllForgetting ==
  /\ rpc = "exit"
  /\ rpc' = "signal"
  /\ UNCHANGED <<pipeVars, hand, victim, nreq, chanVars, queryVars,
                 resultVars, subVars, workVars, answers>>

CancelAll ==
  /\ rpc = "exit"
  /\ cancelled' = cancelled \cup Registered
  /\ registry' = [i \in Ids |-> 0]
  /\ rpc' = "signal"
  /\ UNCHANGED <<pipeVars, hand, victim, nreq, chanVars, hello, resultVars,
                 subVars, workVars, answers>>

\* Every worker is signalled and the sender is dropped.
Signal ==
  /\ rpc = "signal"
  /\ signals' = Receivers
  /\ txOpen' = FALSE
  /\ rpc' = "join"
  /\ UNCHANGED <<pipeVars, hand, victim, nreq, queue, queryVars, resultVars,
                 subVars, workVars, answers>>

\* Mutant of Join: waits for the subscription too, which only the next step
\* gives up.
JoinSubscription ==
  /\ rpc = "join"
  /\ \A w \in Workers : wpc[w] = "exit"
  /\ rpc' = IF sub = None THEN "unsubscribe" ELSE "signal"
  /\ UNCHANGED <<pipeVars, hand, victim, nreq, chanVars, queryVars, resultVars,
                 subVars, workVars, answers>>

Join ==
  /\ rpc = "join"
  /\ \A w \in Workers : wpc[w] = "exit"
  /\ rpc' = "unsubscribe"
  /\ UNCHANGED <<pipeVars, hand, victim, nreq, chanVars, queryVars, resultVars,
                 subVars, workVars, answers>>

\* The subscription goes with the connection.
EndSubscription ==
  /\ rpc = "unsubscribe"
  /\ subLock = None
  /\ subscribers' = subscribers \ {sub}
  /\ sub' = None
  /\ rpc' = "done"
  /\ UNCHANGED <<pipeVars, hand, victim, nreq, chanVars, queryVars, resultVars,
                 subLock, nextQueue, workVars, answers>>

-----------------------------------------------------------------------------
(* The workers: taking a request and answering it *)

\* dequeue_request prefers a cancellation signal to a request.
TakeSignal(w) ==
  /\ wpc[w] = "idle"
  /\ \/ signals > 0 /\ signals' = signals - 1
     \/ signals = 0 /\ queue = <<>> /\ ~txOpen /\ UNCHANGED signals
  /\ wpc' = [wpc EXCEPT ![w] = "exit"]
  /\ UNCHANGED <<pipeVars, readVars, queue, txOpen, queryVars, resultVars,
                 subVars, wreq, wbasis, wsame, wstatus, answers>>

TakeRequest(w) ==
  /\ wpc[w] = "idle"
  /\ signals = 0
  /\ queue # <<>>
  /\ wreq' = [wreq EXCEPT ![w] = Head(queue)]
  /\ queue' = Tail(queue)
  /\ wpc' = [wpc EXCEPT ![w] = "dispatch"]
  /\ UNCHANGED <<pipeVars, readVars, txOpen, signals, queryVars, resultVars,
                 subVars, wbasis, wsame, wstatus, answers>>

\* The outcome of dispatch is Reply(status).
Reply(w, status) ==
  /\ wstatus' = [wstatus EXCEPT ![w] = status]
  /\ wpc' = [wpc EXCEPT ![w] = "reply"]

WriteReply(w) ==
  /\ wpc[w] = "reply"
  /\ Answer(wreq[w].n, wstatus[w])
  /\ wpc' = [wpc EXCEPT ![w] = "finish"]
  /\ UNCHANGED <<readVars, chanVars, queryVars, resultVars, subVars, wreq,
                 wbasis, wsame, wstatus>>

\* The write failed, or the outcome of dispatch is Drop: the worker breaks the
\* connection and returns.
BreakConnection(w) ==
  /\ \/ wpc[w] = "reply" /\ ~up
     \/ wpc[w] = "drop"
  /\ Disconnect
  /\ wpc' = [wpc EXCEPT ![w] = "unwind"]
  /\ UNCHANGED <<readVars, queue, txOpen, queryVars, resultVars, subVars,
                 wreq, wbasis, wsame, wstatus, answers>>

\* QueryGuard: the query leaves the registry when the iteration ends, after
\* its response was written.
FinishQuery(w) ==
  /\ wpc[w] \in {"finish", "unwind"}
  /\ registry' = IF wreq[w].tok THEN Finished(wreq[w].id, wreq[w].n)
                 ELSE registry
  /\ wpc' = [wpc EXCEPT ![w] = IF @ = "finish" THEN "idle" ELSE "exit"]
  /\ wreq' = [wreq EXCEPT ![w] = None]
  /\ wbasis' = [wbasis EXCEPT ![w] = 0]
  /\ wsame' = [wsame EXCEPT ![w] = FALSE]
  /\ wstatus' = [wstatus EXCEPT ![w] = "OK"]
  /\ UNCHANGED <<pipeVars, readVars, chanVars, hello, cancelled, resultVars,
                 subVars, answers>>

-----------------------------------------------------------------------------
(* The workers: dispatch_inner *)

Dispatching(w, op) == wpc[w] = "dispatch" /\ wreq[w].op = op

\* Anything but Hello before the handshake, and anything undecodable.
DispatchDrop(w) ==
  /\ wpc[w] = "dispatch"
  /\ wreq[w].op = "bad" \/ (~hello /\ wreq[w].op \notin {"hello", "badhello"})
  /\ wpc' = [wpc EXCEPT ![w] = "drop"]
  /\ UNCHANGED <<pipeVars, readVars, chanVars, queryVars, resultVars, subVars,
                 wreq, wbasis, wsame, wstatus, answers>>

DispatchHello(w) ==
  /\ \/ Dispatching(w, "hello") /\ hello' = TRUE /\ Reply(w, "OK")
     \/ Dispatching(w, "badhello") /\ UNCHANGED hello /\ Reply(w, "ERROR")
  /\ UNCHANGED <<pipeVars, readVars, chanVars, registry, cancelled, resultVars,
                 subVars, wreq, wbasis, wsame, answers>>

\* ListVolumes, IndexStart, IndexStatus, Stats, ServiceInfo.
DispatchStatus(w) ==
  /\ Dispatching(w, "status") /\ hello
  /\ \E status \in {"OK", "ERROR"} : Reply(w, status)
  /\ UNCHANGED <<pipeVars, readVars, chanVars, queryVars, resultVars, subVars,
                 wreq, wbasis, wsame, answers>>

IsResult(r) == \E i \in 1 .. Len(results) : results[i] = r

\* The results without r; an id names at most one of them.
Without(r) ==
  IF IsResult(r)
    THEN LET i == CHOOSE i \in 1 .. Len(results) : results[i] = r
         IN  SubSeq(results, 1, i - 1) \o SubSeq(results, i + 1, Len(results))
    ELSE results

Touch(r) == Append(Without(r), r)

\* Connection::query up to the engine: a query without a token, an injected
\* fault, a panic or bad options end it here; otherwise the basis is looked up.
QueryRefused(w) ==
  /\ Dispatching(w, "query") /\ hello
  /\ Reply(w, "ERROR")
  /\ UNCHANGED <<pipeVars, readVars, chanVars, queryVars, resultVars, subVars,
                 wreq, wbasis, wsame, answers>>

QueryBegin(w) ==
  /\ Dispatching(w, "query") /\ hello
  /\ wreq[w].tok
  /\ IF IsResult(wreq[w].arg)
       THEN /\ wbasis' = [wbasis EXCEPT ![w] = wreq[w].arg]
            /\ results' = Touch(wreq[w].arg)
       ELSE UNCHANGED <<wbasis, results>>
  /\ wpc' = [wpc EXCEPT ![w] = "run"]
  /\ UNCHANGED <<pipeVars, readVars, chanVars, queryVars, nextId, subVars,
                 wreq, wsame, wstatus, answers>>

\* Engine::query_cancellable stops at its next check of a raised flag, or
\* fails, or passes its last check (search.rs:239).
QueryRun(w) ==
  /\ wpc[w] = "run"
  /\ \/ wreq[w].n \in cancelled /\ Reply(w, "CANCELLED")
     \/ Reply(w, "ERROR")
     \/ /\ wreq[w].n \notin cancelled
        /\ wpc' = [wpc EXCEPT ![w] = "record"]
        /\ UNCHANGED wstatus
  /\ UNCHANGED <<pipeVars, readVars, chanVars, queryVars, resultVars, subVars,
                 wreq, wbasis, wsame, answers>>

\* ... compares the rows with the basis and records the served query in the metrics.
QueryRecord(w) ==
  /\ wpc[w] = "record"
  /\ \E same \in BOOLEAN :
       /\ same => wbasis[w] # 0
       /\ wsame' = [wsame EXCEPT ![w] = same]
  /\ wpc' = [wpc EXCEPT ![w] = "check"]
  /\ UNCHANGED <<pipeVars, readVars, chanVars, queryVars, resultVars, subVars,
                 wreq, wbasis, wstatus, answers>>

QueryCheck(w) ==
  /\ wpc[w] = "check"
  /\ IF wreq[w].n \in cancelled
       THEN Reply(w, "CANCELLED")
       ELSE wpc' = [wpc EXCEPT ![w] = "basis"] /\ UNCHANGED wstatus
  /\ UNCHANGED <<pipeVars, readVars, chanVars, queryVars, resultVars, subVars,
                 wreq, wbasis, wsame, answers>>

QueryBasis(w) ==
  /\ wpc[w] = "basis"
  /\ wsame' = [wsame EXCEPT ![w] = @ /\ IsResult(wbasis[w])]
  /\ wpc' = [wpc EXCEPT ![w] = "insert"]
  /\ UNCHANGED <<pipeVars, readVars, chanVars, queryVars, resultVars, subVars,
                 wreq, wbasis, wstatus, answers>>

\* Mutant of Evicted: the cap is compared with the wrong operator.
EvictedLate(r) == IF Len(r) > MaxResults THEN Tail(r) ELSE r

\* The results after the eviction that makes room for one more.
Evicted(r) == IF Len(r) >= MaxResults THEN Tail(r) ELSE r

QueryInsert(w) ==
  /\ wpc[w] = "insert"
  /\ results' = Append(Evicted(results), nextId)
  /\ nextId' = nextId + 1
  /\ Reply(w, "OK")
  /\ UNCHANGED <<pipeVars, readVars, chanVars, queryVars, subVars, wreq,
                 wbasis, wsame, answers>>

\* Connection::result_page: the result is looked up under the lock ...
PageLookup(w) ==
  /\ Dispatching(w, "page") /\ hello
  /\ IF IsResult(wreq[w].arg)
       THEN /\ results' = Touch(wreq[w].arg)
            /\ wpc' = [wpc EXCEPT ![w] = "fill"]
            /\ UNCHANGED wstatus
       ELSE Reply(w, "ERROR") /\ UNCHANGED results
  /\ UNCHANGED <<pipeVars, readVars, chanVars, queryVars, nextId, subVars,
                 wreq, wbasis, wsame, answers>>

\* ... and the page is built outside it.
PageFill(w) ==
  /\ wpc[w] = "fill"
  /\ \E status \in {"OK", "ERROR"} : Reply(w, status)
  /\ UNCHANGED <<pipeVars, readVars, chanVars, queryVars, resultVars, subVars,
                 wreq, wbasis, wsame, answers>>

ResultFree(w) ==
  /\ Dispatching(w, "free") /\ hello
  /\ results' = Without(wreq[w].arg)
  /\ Reply(w, "OK")
  /\ UNCHANGED <<pipeVars, readVars, chanVars, queryVars, nextId, subVars,
                 wreq, wbasis, wsame, answers>>

\* Mutant of Subscribe: the lock is not held while the queue is created.
SubscribeUnlocked(w) ==
  /\ Dispatching(w, "subscribe") /\ hello
  /\ IF sub = None
       THEN /\ subscribers' = subscribers \cup {nextQueue}
            /\ nextQueue' = nextQueue + 1
            /\ wbasis' = [wbasis EXCEPT ![w] = nextQueue]
            /\ wpc' = [wpc EXCEPT ![w] = "attach"]
            /\ UNCHANGED wstatus
       ELSE Reply(w, "OK") /\ UNCHANGED <<subscribers, nextQueue, wbasis>>
  /\ UNCHANGED <<pipeVars, readVars, chanVars, queryVars, resultVars, sub,
                 subLock, wreq, wsame, answers>>

\* Subscribe is idempotent: under the subscription lock, a queue joins the
\* broadcaster unless the connection has one.  The worker's queue is kept in
\* wbasis, which a subscribe does not use otherwise.
Subscribe(w) ==
  /\ Dispatching(w, "subscribe") /\ hello
  /\ subLock = None
  /\ IF sub = None
       THEN /\ subLock' = w
            /\ subscribers' = subscribers \cup {nextQueue}
            /\ nextQueue' = nextQueue + 1
            /\ wbasis' = [wbasis EXCEPT ![w] = nextQueue]
            /\ wpc' = [wpc EXCEPT ![w] = "attach"]
            /\ UNCHANGED wstatus
       ELSE Reply(w, "OK") /\ UNCHANGED <<subLock, subscribers, nextQueue, wbasis>>
  /\ UNCHANGED <<pipeVars, readVars, chanVars, queryVars, resultVars, sub,
                 wreq, wsame, answers>>

\* The event writer is spawned and the queue becomes the subscription, or the
\* spawn fails and the queue is withdrawn.
Attach(w) ==
  /\ wpc[w] = "attach"
  /\ subLock' = None
  /\ \/ /\ sub' = wbasis[w]
        /\ UNCHANGED subscribers
        /\ Reply(w, "OK")
     \/ /\ subscribers' = subscribers \ {wbasis[w]}
        /\ UNCHANGED sub
        /\ Reply(w, "ERROR")
  /\ UNCHANGED <<pipeVars, readVars, chanVars, queryVars, resultVars,
                 nextQueue, wreq, wbasis, wsame, answers>>

Unsubscribe(w) ==
  /\ Dispatching(w, "unsubscribe") /\ hello
  /\ subLock = None
  /\ subscribers' = subscribers \ {sub}
  /\ sub' = None
  /\ Reply(w, "OK")
  /\ UNCHANGED <<pipeVars, readVars, chanVars, queryVars, resultVars, subLock,
                 nextQueue, wreq, wbasis, wsame, answers>>

-----------------------------------------------------------------------------

Client == ClientReads \/ ClientCloses

\* What the reader does with what it has read, and how it leaves.
Place == Offer \/ Busy \/ MakeRoom \/ AnswerSuperseded \/ ReaderWriteFails

TearDown == ReadFails \/ CancelAll \/ Signal \/ Join \/ EndSubscription

Read == ReadRequest \/ ReadCancel \/ ReadViolation

Query(w) ==
  \/ QueryRefused(w) \/ QueryBegin(w) \/ QueryRun(w) \/ QueryRecord(w)
  \/ QueryCheck(w) \/ QueryBasis(w) \/ QueryInsert(w)

Dispatch(w) ==
  \/ DispatchDrop(w) \/ DispatchHello(w) \/ DispatchStatus(w) \/ Query(w)
  \/ PageLookup(w) \/ PageFill(w) \/ ResultFree(w)
  \/ Subscribe(w) \/ Attach(w) \/ Unsubscribe(w)

WorkerStep(w) ==
  \/ TakeSignal(w) \/ TakeRequest(w) \/ Dispatch(w)
  \/ WriteReply(w) \/ BreakConnection(w) \/ FinishQuery(w)

\* The connection thread has returned.
Ended ==
  /\ rpc = "done"
  /\ UNCHANGED vars

Next ==
  \/ Client \/ ServerDisconnects
  \/ Spawn \/ Read \/ Place \/ TearDown
  \/ \E w \in Workers : WorkerStep(w)
  \/ Ended

Spec == Init /\ [][Next]_vars

\* The connection's own threads run: the reader handles what it has read and
\* tears down, a worker goes on with its request (an engine query returns).
\* Nothing obliges the client to send, to read or to close.
ReaderCan ==
  CASE rpc = "read" -> ~up
    [] rpc \in {"busy", "superseded"} -> CanWrite \/ ~up
    [] rpc = "join" -> \A w \in Workers : wpc[w] = "exit"
    [] rpc = "unsubscribe" -> subLock = None
    [] rpc = "done" -> FALSE
    [] OTHER -> TRUE

WorkerCan(w) ==
  CASE wpc[w] = "idle" -> signals > 0 \/ queue # <<>> \/ ~txOpen
    [] wpc[w] = "dispatch" ->
         (hello /\ wreq[w].op \in {"subscribe", "unsubscribe"}) => subLock = None
    [] wpc[w] = "reply" -> CanWrite \/ ~up
    [] wpc[w] = "exit" -> FALSE
    [] OTHER -> TRUE

FairSpec ==
  /\ Spec
  /\ []<>~ReaderCan \/ []<><<TRUE>>_rpc
  /\ \A w \in Workers : []<>~WorkerCan(w) \/ []<><<TRUE>>_(wpc[w])

\* ... and the client reads what it is sent.
FairClientSpec == FairSpec /\ WF_vars(ClientReads)

-----------------------------------------------------------------------------
(* Properties *)

\* Type invariant of the connection (server.rs run_connection, dispatch.rs
\* Connection).
TypeOK ==
  /\ up \in BOOLEAN
  /\ out \in 0 .. OutCap
  /\ rpc \in {"spawn", "read", "offer", "busy", "room", "superseded", "exit",
              "signal", "join", "unsubscribe", "done"}
  /\ hand \in Request \cup {None}
  /\ victim \in Request \cup {None}
  /\ nreq \in 0 .. MaxRequests
  /\ queue \in Seq(Request)
  /\ txOpen \in BOOLEAN
  /\ signals \in 0 .. Receivers
  /\ hello \in BOOLEAN
  /\ registry \in [Ids -> 0 .. MaxRequests]
  /\ cancelled \subseteq Numbers
  /\ results \in Seq(Nat)
  /\ nextId \in Nat
  /\ sub \in Nat \cup {None}
  /\ subLock \in Workers \cup {None}
  /\ subscribers \subseteq Nat
  /\ nextQueue \in Nat
  /\ wpc \in [Workers -> {"idle", "dispatch", "run", "record", "check", "basis",
                          "insert", "fill", "attach", "reply", "drop", "finish",
                          "unwind", "exit"}]
  /\ wreq \in [Workers -> Request \cup {None}]
  /\ wbasis \in [Workers -> Nat]
  /\ wsame \in [Workers -> BOOLEAN]
  /\ wstatus \in [Workers -> Statuses]
  /\ answers \in [Numbers -> Seq(Statuses)]

\* The requests the connection still holds: in the reader's hand, in the queue,
\* or with a worker.
Held ==
  ({hand} \cup {wreq[w] : w \in Workers}
          \cup {queue[i] : i \in 1 .. Len(queue)}) \ {None}

HeldQueries == {r \in Held : r.tok}

\* A request is answered at most once, also when the reader displaces it while
\* the workers drain the queue (server.rs:699-765).
AnsweredOnce == \A n \in Numbers : Len(answers[n]) <= 1

\* Latest query wins: of the queries that are queued or running, every one but
\* the newest is cancelled (dispatch.rs:301-305, server.rs:686-688).
LatestQueryWins ==
  \A q, r \in HeldQueries : q.n < r.n => q.n \in cancelled

\* A QueryCancel reaches its target: a query that is queued or running and not
\* yet cancelled is in the registry under its id, even when the client reused
\* the id of a query that is just finishing (dispatch.rs:63-71).
CancelReaches ==
  \A q \in HeldQueries : q.n \notin cancelled => registry[q.id] = q.n

\* Once the reader leaves, no query of the connection runs on uncancelled: the
\* join waits for cancelled work only (server.rs:777).
TeardownCancels ==
  rpc \in {"signal", "join", "unsubscribe", "done"} =>
    \A q \in HeldQueries : q.n \in cancelled

\* The registry of results never exceeds its cap (dispatch.rs:372-383).
ResultsBounded == Len(results) <= MaxResults

\* The broadcaster never feeds two queues of one connection, and none once the
\* connection has ended: racing subscriptions and a failed spawn leave nothing
\* behind (server.rs:587-609, 785-787).
OneSubscription ==
  /\ Cardinality(subscribers) <= 1
  /\ rpc = "done" => subscribers = {}

\* Every request that was read is answered or the connection goes down: a
\* displaced request and a refused one have their response too.
RequestsAnswered ==
  \A n \in Numbers : nreq = n ~> (answers[n] # <<>> \/ ~up)

\* A broken pipe ends the connection thread, whatever its workers were doing and
\* whether or not the client reads (server.rs:777-787).
ConnectionEnds == ~up ~> rpc = "done"

\* Only the newest query of a living connection is left running (dispatch.rs
\* QueryRegistry, server.rs run_connection).
SupersededIsCancelled == LatestQueryWins /\ TeardownCancels

\* However its workers race at the caps, a connection holds a bounded number of
\* results and at most one subscription, and gives the latter up.
ResourcesBounded == ResultsBounded /\ OneSubscription
=============================================================================
