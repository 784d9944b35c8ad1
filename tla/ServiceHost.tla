----------------------------- MODULE ServiceHost -----------------------------
(***************************************************************************)
(* The service process around the engine (fmf-service: svc.rs, host.rs,    *)
(* server.rs, pipe.rs, events.rs): the service thread that brings the      *)
(* engine and the pipe server up, parks, and tears them down; the accept   *)
(* thread; one thread per connection with its event writer; and the        *)
(* broadcaster between the volume threads and the subscribers.             *)
(*                                                                         *)
(* What a connection does with its requests is PipeConnection's; here it   *)
(* runs, may subscribe, and ends once its pipe is disconnected.            *)
(***************************************************************************)
EXTENDS Naturals, Sequences, FiniteSets

CONSTANTS
  Conns,         \* the connections clients may make, each once
  Subscribers,   \* those that subscribe to events, as the app does
  MaxInstances,  \* pipe instances
  MaxAttempts,   \* attempts at the writer lock
  IdleStop,      \* idle_stop_secs is not 0
  QueueCap,      \* EVENT_QUEUE_CAP
  MaxEvents      \* bound on the events emitted

None == "none"

ASSUME HostAssumption ==
  /\ MaxInstances \in Nat \ {0} /\ MaxAttempts \in Nat \ {0}
  /\ QueueCap \in Nat \ {0} /\ MaxEvents \in Nat
  /\ Subscribers \subseteq Conns
  /\ IdleStop \in BOOLEAN
  /\ IsFiniteSet(Conns) /\ None \notin Conns

VARIABLES
  host,      \* the service thread: where it is, what it reported and noted
  stop,      \* the stop flag the SCM, the console and the thread itself raise
  stopEvent, \* the server's Win32 stop event
  engine,    \* writer lock, volume threads, event sink, periodic flusher
  acc,       \* the accept thread, its connection, start signal and flag
  conn,      \* connection -> its pipe and thread
  active,    \* the live-connection count
  feed,      \* connection -> its event queue and writer
  emitted,   \* events emitted so far
  calling    \* a volume thread has cloned the sink and is about to call it

hostVars == <<host, stop, stopEvent, engine, acc, conn, active, feed, emitted, calling>>

HostInit ==
  /\ host = [at |-> "config", scm |-> "StartPending", code |-> None, attempts |-> 0,
             seen |-> FALSE, elapsed |-> FALSE, lost |-> FALSE, stamped |-> FALSE]
  /\ stop = FALSE /\ stopEvent = FALSE
  /\ engine \in [locked : BOOLEAN, workers : {"off"}, sink : {FALSE}, flusher : {"off"}]
  /\ acc = [at |-> "off", c |-> None, ready |-> None, accepting |-> FALSE]
  /\ conn = [c \in Conns |-> [st |-> "away", cut |-> FALSE, registered |-> FALSE,
                              kept |-> FALSE]]
  /\ active = 0
  /\ feed = [c \in Conns |-> [writer |-> "off", queue |-> <<>>, closed |-> FALSE,
                              first |-> 0, sent |-> <<>>]]
  /\ emitted = 0 /\ calling = FALSE

At(step) == host.at = step
Goto(step) == host' = [host EXCEPT !.at = step]
Exit(code) == host' = [host EXCEPT !.at = "stopped", !.scm = "Stopped", !.code = code]

\* ConnectionRegistry::disconnect_all, on the connections it still holds.
DisconnectAll ==
  conn' = [c \in Conns |-> [conn[c] EXCEPT !.cut = @ \/ conn[c].registered]]

----------------------------------------------------------------------------
(***************************************************************************)
(* The service thread, starting: service_main and serve.                   *)
(***************************************************************************)
LoadConfig ==   \* the trusted root, service.json and its authorized SIDs
  /\ At("config")
  /\ Goto("engine") \/ Exit("io")
  /\ UNCHANGED <<stop, stopEvent, engine, acc, conn, active, feed, emitted, calling>>

\* create_engine_with_retry: the stop flag is read only after an attempt.
CreateEngine ==
  /\ At("engine")
  /\ IF ~engine.locked
     THEN host' = [host EXCEPT !.at = "index", !.attempts = 0] \/ Exit("io")
     ELSE IF host.attempts + 1 >= MaxAttempts \/ stop THEN Exit("locked")
     ELSE host' = [host EXCEPT !.attempts = @ + 1]
  /\ UNCHANGED <<stop, stopEvent, engine, acc, conn, active, feed, emitted, calling>>

IndexStart ==
  /\ At("index")
  /\ Goto("server")
  /\ engine' = [engine EXCEPT !.workers = "scan"]
  /\ UNCHANGED <<stop, stopEvent, acc, conn, active, feed, emitted, calling>>

\* Server::start: the sink is installed, the accept thread spawned, or neither.
StartServer ==
  /\ At("server")
  /\ \/ /\ Goto("await")
        /\ engine' = [engine EXCEPT !.sink = TRUE]
        /\ acc' = [acc EXCEPT !.at = "security", !.accepting = TRUE]
     \/ /\ Exit("io")
        /\ UNCHANGED <<engine, acc>>
  /\ UNCHANGED <<stop, stopEvent, conn, active, feed, emitted, calling>>

\* The accept thread reports listening, a failure, or nothing for 5 seconds.
ServerReady ==
  /\ At("await") /\ acc.ready = "ok"
  /\ Goto("flusher")
  /\ UNCHANGED <<stop, stopEvent, engine, acc, conn, active, feed, emitted, calling>>

ServerNotReady ==
  /\ At("await") /\ acc.ready # "ok"
  /\ Goto("abandon")
  /\ stopEvent' = (acc.ready = None)
  /\ engine' = [engine EXCEPT !.sink = FALSE]
  /\ UNCHANGED <<stop, acc, conn, active, feed, emitted, calling>>

AbandonServer ==
  /\ At("abandon") /\ acc.at = "gone"
  /\ Exit("io")
  /\ UNCHANGED <<stop, stopEvent, engine, acc, conn, active, feed, emitted, calling>>

\* The flusher thread, or a teardown without a final flush.
StartFlusher ==
  /\ At("flusher")
  /\ \/ /\ Goto("publish")
        /\ engine' = [engine EXCEPT !.flusher = "run"]
        /\ UNCHANGED <<stopEvent, conn>>
     \/ /\ Goto("failed join accept")
        /\ stopEvent' = TRUE
        /\ DisconnectAll
        /\ UNCHANGED engine
  /\ UNCHANGED <<stop, acc, active, feed, emitted, calling>>

\* on_ready: Running is reported, or the start is undone.
PublishRunning ==
  /\ At("publish")
  /\ \/ /\ host' = [host EXCEPT !.at = "park", !.scm = "Running"]
        /\ UNCHANGED <<stop, stopEvent, conn>>
     \/ /\ Goto("failed join accept")
        /\ stop' = TRUE /\ stopEvent' = TRUE
        /\ DisconnectAll
  /\ UNCHANGED <<engine, acc, active, feed, emitted, calling>>

----------------------------------------------------------------------------
(***************************************************************************)
(* Parked: one turn of the loop every 200 ms.                              *)
(***************************************************************************)
\* Mutant: the listener is looked at only once a client has been seen.
ListenerLostOnceSeen ==
  /\ At("park") /\ ~stop /\ ~acc.accepting /\ host.seen
  /\ host' = [host EXCEPT !.at = "stamp", !.lost = TRUE]
  /\ stop' = TRUE
  /\ UNCHANGED <<stopEvent, engine, acc, conn, active, feed, emitted, calling>>

ListenerLost ==
  /\ At("park") /\ ~stop /\ ~acc.accepting
  /\ host' = [host EXCEPT !.at = "stamp", !.lost = TRUE]
  /\ stop' = TRUE
  /\ UNCHANGED <<stopEvent, engine, acc, conn, active, feed, emitted, calling>>

SeeClients ==
  /\ At("park") /\ ~stop /\ acc.accepting /\ IdleStop /\ active > 0
  /\ host' = [host EXCEPT !.seen = TRUE, !.elapsed = FALSE]
  /\ UNCHANGED <<stop, stopEvent, engine, acc, conn, active, feed, emitted, calling>>

\* Mutant: idle_since is reset before it is compared.
IdleAfterReset ==
  /\ At("park") /\ ~stop /\ acc.accepting /\ IdleStop /\ active = 0
  /\ host.seen /\ host.elapsed
  /\ host' = [host EXCEPT !.elapsed = FALSE]
  /\ UNCHANGED <<stop, stopEvent, engine, acc, conn, active, feed, emitted, calling>>

\* idle_should_stop: nobody for the whole timeout, and no scan holds it off.
IdleShouldStop ==
  /\ At("park") /\ ~stop /\ acc.accepting /\ IdleStop /\ active = 0
  /\ host.seen /\ host.elapsed
  /\ IF engine.workers = "scan"
     THEN host' = [host EXCEPT !.elapsed = FALSE] /\ UNCHANGED stop
     ELSE Goto("stamp") /\ stop' = TRUE
  /\ UNCHANGED <<stopEvent, engine, acc, conn, active, feed, emitted, calling>>

StopSeen ==
  /\ At("park") /\ stop
  /\ Goto("stamp")
  /\ UNCHANGED <<stop, stopEvent, engine, acc, conn, active, feed, emitted, calling>>

\* An idle timeout passes since idle_since.
TimePasses ==
  /\ At("park") /\ IdleStop /\ ~host.elapsed
  /\ host' = [host EXCEPT !.elapsed = TRUE]
  /\ UNCHANGED <<stop, stopEvent, engine, acc, conn, active, feed, emitted, calling>>

----------------------------------------------------------------------------
(***************************************************************************)
(* The teardown: stamp, stop accepting, join, flush, shut down.            *)
(***************************************************************************)
Stamp ==   \* stamp_last_use may fail
  /\ At("stamp")
  /\ \E ok \in BOOLEAN : host' = [host EXCEPT !.at = "join accept", !.stamped = ok]
  /\ stopEvent' = TRUE
  /\ DisconnectAll
  /\ UNCHANGED <<stop, engine, acc, active, feed, emitted, calling>>

Failing == host.at \in {"failed join accept", "failed join conns", "failed join flusher"}
After(step, failed) == Goto(IF Failing THEN failed ELSE step)

\* Mutant: the connections stop found are the only ones disconnected.
JoinAcceptOnly ==
  /\ host.at \in {"join accept", "failed join accept"} /\ acc.at = "gone"
  /\ After("join conns", "failed join conns")
  /\ UNCHANGED <<stop, stopEvent, engine, acc, conn, active, feed, emitted, calling>>

\* Mutant: the connections are joined without joining the accept thread first.
JoinAcceptUnwaited ==
  /\ host.at \in {"join accept", "failed join accept"}
  /\ After("join conns", "failed join conns")
  /\ DisconnectAll
  /\ UNCHANGED <<stop, stopEvent, engine, acc, active, feed, emitted, calling>>

\* join_all_threads: no accept can race the second disconnect.
JoinAccept ==
  /\ host.at \in {"join accept", "failed join accept"} /\ acc.at = "gone"
  /\ After("join conns", "failed join conns")
  /\ DisconnectAll
  /\ UNCHANGED <<stop, stopEvent, engine, acc, active, feed, emitted, calling>>

JoinConns ==
  /\ host.at \in {"join conns", "failed join conns"}
  /\ \A c \in Conns : conn[c].kept => conn[c].st = "ended"
  /\ After("join flusher", "failed join flusher")
  /\ conn' = [c \in Conns |-> [conn[c] EXCEPT !.kept = FALSE]]
  /\ UNCHANGED <<stop, stopEvent, engine, acc, active, feed, emitted, calling>>

JoinFlusher ==
  /\ host.at \in {"join flusher", "failed join flusher"} /\ engine.flusher # "run"
  /\ After("flush", "failed shutdown")
  /\ UNCHANGED <<stop, stopEvent, engine, acc, conn, active, feed, emitted, calling>>

FlushAndClear ==
  /\ At("flush")
  /\ Goto("shutdown")
  /\ engine' = [engine EXCEPT !.sink = FALSE]
  /\ UNCHANGED <<stop, stopEvent, acc, conn, active, feed, emitted, calling>>

\* Mutant: only a failed stamp is a failure.
ShutdownHidingLoss ==
  /\ host.at \in {"shutdown", "failed shutdown"} /\ ~calling
  /\ engine' = [engine EXCEPT !.workers = "ended", !.sink = FALSE]
  /\ Exit(IF At("shutdown") /\ host.stamped THEN "ok" ELSE "io")
  /\ UNCHANGED <<stop, stopEvent, acc, conn, active, feed, emitted, calling>>

\* Engine::shutdown joins the volume threads; the exit code tells a lost
\* listener or stamp from a stop that was asked for.
Shutdown ==
  /\ host.at \in {"shutdown", "failed shutdown"} /\ ~calling
  /\ engine' = [engine EXCEPT !.workers = "ended", !.sink = FALSE]
  /\ Exit(IF At("shutdown") /\ host.stamped /\ ~host.lost THEN "ok" ELSE "io")
  /\ UNCHANGED <<stop, stopEvent, acc, conn, active, feed, emitted, calling>>

\* The periodic flusher leaves its sleep when the flag is up.
FlusherStops ==
  /\ engine.flusher = "run" /\ stop
  /\ engine' = [engine EXCEPT !.flusher = "ended"]
  /\ UNCHANGED <<host, stop, stopEvent, acc, conn, active, feed, emitted, calling>>

----------------------------------------------------------------------------
(***************************************************************************)
(* The accept thread.                                                      *)
(***************************************************************************)
Gone == acc' = [acc EXCEPT !.at = "gone", !.accepting = FALSE, !.c = None]

\* An instance is in use until the connection's thread and its event writer
\* have both let go of the stream.
InUse == {c \in Conns : \/ conn[c].st \in {"started", "live"}
                        \/ feed[c].writer = "run"}

PipeSecurity ==   \* the pipe's descriptor is built, or the start fails
  /\ acc.at = "security"
  /\ acc' \in {[acc EXCEPT !.at = "create"],
               [acc EXCEPT !.at = "gone", !.accepting = FALSE, !.ready = "err"]}
  /\ UNCHANGED <<host, stop, stopEvent, engine, conn, active, feed, emitted, calling>>

\* CreateNamedPipe and ConnectNamedPipe; the first success is the readiness.
Listen ==
  /\ acc.at = "create" /\ Cardinality(InUse) < MaxInstances
  /\ acc' = [acc EXCEPT !.at = "wait", !.ready = IF @ = None THEN "ok" ELSE @]
  /\ UNCHANGED <<host, stop, stopEvent, engine, conn, active, feed, emitted, calling>>

\* The first failure ends the start; a later one, typically every instance in
\* use, is tried again after 250 ms whatever the stop event says.
ListenFails ==
  /\ acc.at = "create"
  /\ acc' = IF acc.ready = None
            THEN [acc EXCEPT !.at = "gone", !.accepting = FALSE, !.ready = "err"]
            ELSE acc
  /\ acc' # acc
  /\ UNCHANGED <<host, stop, stopEvent, engine, conn, active, feed, emitted, calling>>

AcceptStopped ==
  /\ acc.at = "wait" /\ stopEvent
  /\ Gone
  /\ UNCHANGED <<host, stop, stopEvent, engine, conn, active, feed, emitted, calling>>

Accept(c) ==   \* a client connects; it may do so although stop is set
  /\ acc.at = "wait" /\ conn[c].st = "away"
  /\ conn' = [conn EXCEPT ![c].st = "pending"]
  /\ acc' = [acc EXCEPT !.at = "verify", !.c = c]
  /\ UNCHANGED <<host, stop, stopEvent, engine, active, feed, emitted, calling>>

\* The client's token is accepted; or it is refused, or its use cannot be
\* stamped; or the check itself fails and the listener is given up.
Verify ==
  /\ acc.at = "verify"
  /\ \/ acc' = [acc EXCEPT !.at = "register"] /\ UNCHANGED conn
     \/ /\ conn' = [conn EXCEPT ![acc.c].st = "refused"]
        /\ acc' = [acc EXCEPT !.at = "create", !.c = None] \/ Gone
  /\ UNCHANGED <<host, stop, stopEvent, engine, active, feed, emitted, calling>>

\* The connection is registered before its thread exists.
RegisterConnection ==
  /\ acc.at = "register"
  /\ conn' = [conn EXCEPT ![acc.c].registered = TRUE]
  /\ acc' = [acc EXCEPT !.at = "spawn"]
  /\ UNCHANGED <<host, stop, stopEvent, engine, active, feed, emitted, calling>>

\* The thread starts and its handle is kept, finished ones being joined; or
\* the registration is taken back.
Spawn ==
  /\ acc.at = "spawn"
  /\ conn' \in {[c \in Conns |->
                   IF c = acc.c THEN [conn[c] EXCEPT !.st = "started", !.kept = TRUE]
                   ELSE [conn[c] EXCEPT !.kept = @ /\ conn[c].st # "ended"]],
                [conn EXCEPT ![acc.c].st = "refused", ![acc.c].registered = FALSE]}
  /\ acc' = [acc EXCEPT !.at = "create", !.c = None]
  /\ UNCHANGED <<host, stop, stopEvent, engine, active, feed, emitted, calling>>

----------------------------------------------------------------------------
(***************************************************************************)
(* A connection's thread and its event writer.                             *)
(***************************************************************************)
Run(c) ==
  /\ conn[c].st = "started"
  /\ conn' = [conn EXCEPT ![c].st = "live"]
  /\ active' = active + 1
  /\ UNCHANGED <<host, stop, stopEvent, engine, acc, feed, emitted, calling>>

ClientLeaves(c) ==
  /\ conn[c].st \in {"started", "live"} /\ ~conn[c].cut
  /\ conn' = [conn EXCEPT ![c].cut = TRUE]
  /\ UNCHANGED <<host, stop, stopEvent, engine, acc, active, feed, emitted, calling>>

Subscribe(c) ==   \* once per connection, handled by one of its workers
  /\ c \in Subscribers
  /\ conn[c].st = "live" /\ feed[c].writer = "off" /\ ~conn[c].cut
  /\ feed' = [feed EXCEPT ![c].writer = "run", ![c].first = emitted]
  /\ UNCHANGED <<host, stop, stopEvent, engine, acc, conn, active, emitted, calling>>

\* Mutants: the queue stays open; the count is not released.
EndKeepingQueue(c) ==
  /\ conn[c].st = "live" /\ conn[c].cut
  /\ conn' = [conn EXCEPT ![c].st = "ended", ![c].registered = FALSE]
  /\ active' = active - 1
  /\ UNCHANGED <<host, stop, stopEvent, engine, acc, feed, emitted, calling>>

EndKeepingCount(c) ==
  /\ conn[c].st = "live" /\ conn[c].cut
  /\ conn' = [conn EXCEPT ![c].st = "ended", ![c].registered = FALSE]
  /\ feed' = [feed EXCEPT ![c].closed = TRUE]
  /\ UNCHANGED <<host, stop, stopEvent, engine, acc, active, emitted, calling>>

\* The reader fails, the workers are joined, the queue closed and taken off
\* the broadcaster, the count and the registry entry released.
End(c) ==
  /\ conn[c].st = "live" /\ conn[c].cut
  /\ conn' = [conn EXCEPT ![c].st = "ended", ![c].registered = FALSE]
  /\ active' = active - 1
  /\ feed' = [feed EXCEPT ![c].closed = TRUE]
  /\ UNCHANGED <<host, stop, stopEvent, engine, acc, emitted, calling>>

\* Mutant: a full queue refuses the new event.
PushUnlessFull(f, e) ==
  IF f.writer = "off" \/ f.closed \/ Len(f.queue) >= QueueCap THEN f
  ELSE [f EXCEPT !.queue = Append(@, e)]

\* EventQueue::push: a closed queue takes nothing, a full one loses its oldest.
Push(f, e) ==
  IF f.writer = "off" \/ f.closed THEN f
  ELSE [f EXCEPT !.queue = Append(IF Len(@) >= QueueCap THEN Tail(@) ELSE @, e)]

\* A volume thread emits: it clones the sink, then calls it without the lock.
EmitBegin ==
  /\ engine.workers \in {"scan", "tail"} /\ engine.sink /\ ~calling /\ emitted < MaxEvents
  /\ calling' = TRUE
  /\ UNCHANGED <<host, stop, stopEvent, engine, acc, conn, active, feed, emitted>>

EmitCall ==
  /\ calling
  /\ calling' = FALSE /\ emitted' = emitted + 1
  /\ feed' = [c \in Conns |-> Push(feed[c], emitted + 1)]
  /\ UNCHANGED <<host, stop, stopEvent, engine, acc, conn, active>>

ScanDone ==
  /\ engine.workers = "scan"
  /\ engine' = [engine EXCEPT !.workers = "tail"]
  /\ UNCHANGED <<host, stop, stopEvent, acc, conn, active, feed, emitted, calling>>

\* The event writer pops and writes; a failed write or a closed and empty
\* queue ends it.
WriteEvent(c) ==
  /\ feed[c].writer = "run" /\ feed[c].queue # <<>>
  /\ feed' = IF conn[c].cut THEN [feed EXCEPT ![c].writer = "ended"]
             ELSE [feed EXCEPT ![c].queue = Tail(@), ![c].sent = Append(@, Head(feed[c].queue))]
  /\ UNCHANGED <<host, stop, stopEvent, engine, acc, conn, active, emitted, calling>>

WriterEnds(c) ==
  /\ feed[c].writer = "run" /\ feed[c].queue = <<>> /\ feed[c].closed
  /\ feed' = [feed EXCEPT ![c].writer = "ended"]
  /\ UNCHANGED <<host, stop, stopEvent, engine, acc, conn, active, emitted, calling>>

----------------------------------------------------------------------------
\* The SCM or the console asks for a stop.
StopAsked ==
  /\ ~stop /\ ~At("stopped")
  /\ stop' = TRUE
  /\ UNCHANGED <<host, stopEvent, engine, acc, conn, active, feed, emitted, calling>>

\* Another process releases the writer lock.
LockFreed ==
  /\ engine.locked
  /\ engine' = [engine EXCEPT !.locked = FALSE]
  /\ UNCHANGED <<host, stop, stopEvent, acc, conn, active, feed, emitted, calling>>

Terminated == At("stopped") /\ UNCHANGED hostVars

HostStep ==
  \/ LoadConfig \/ CreateEngine \/ IndexStart \/ StartServer
  \/ ServerReady \/ AbandonServer \/ StartFlusher \/ PublishRunning
  \/ ListenerLost \/ SeeClients \/ IdleShouldStop \/ StopSeen
  \/ Stamp \/ JoinAccept \/ JoinConns \/ JoinFlusher \/ FlushAndClear \/ Shutdown
AcceptStep == PipeSecurity \/ Listen \/ AcceptStopped \/ Verify \/ RegisterConnection \/ Spawn
ConnStep(c) == Run(c) \/ End(c)
WriterStep(c) == WriteEvent(c) \/ WriterEnds(c)

HostNext ==
  \/ HostStep \/ ServerNotReady \/ TimePasses \/ FlusherStops
  \/ AcceptStep \/ ListenFails
  \/ EmitBegin \/ EmitCall \/ ScanDone
  \/ \E c \in Conns : \/ Accept(c) \/ ClientLeaves(c) \/ Subscribe(c)
                      \/ ConnStep(c) \/ WriterStep(c)
  \/ StopAsked \/ LockFreed \/ Terminated

\* Threads are scheduled; time passes; a service that waits for the accept
\* thread's signal gives up after 5 seconds.
Fairness ==
  /\ WF_hostVars(HostStep) /\ WF_hostVars(ServerNotReady) /\ WF_hostVars(FlusherStops)
  /\ WF_hostVars(AcceptStep) /\ WF_hostVars(TimePasses) /\ WF_hostVars(EmitCall)
  /\ \A c \in Conns : WF_hostVars(ConnStep(c)) /\ WF_hostVars(WriterStep(c))

HostSpec == HostInit /\ [][HostNext]_hostVars /\ Fairness

----------------------------------------------------------------------------
(***************************************************************************)
(* Properties                                                              *)
(***************************************************************************)

\* Variables stay in their domains; the counts agree with the threads.
HostTypeOK ==
  /\ host.scm \in {"StartPending", "Running", "Stopped"}
  /\ host.code \in {None, "ok", "io", "locked"}
  /\ acc.c \in Conns \cup {None}
  /\ \A c \in Conns : /\ conn[c].st \in {"away", "pending", "refused", "started", "live", "ended"}
                      /\ feed[c].writer \in {"off", "run", "ended"}
                      /\ Len(feed[c].queue) <= QueueCap
  /\ active = Cardinality({c \in Conns : conn[c].st = "live"})

\* Once the teardown has joined the connections no connection thread runs and
\* none can start, whatever was being accepted when stop was raised: the final
\* flush and the engine's shutdown never overlap a request.
QuietTeardown ==
  host.at \in {"join flusher", "failed join flusher", "flush", "shutdown", "failed shutdown"}
    => /\ acc.at = "gone"
       /\ \A c \in Conns : conn[c].st \notin {"pending", "started", "live"} /\ ~conn[c].registered

\* A clean exit code means somebody asked for the stop, or the service was
\* idle, and the use stamp was written: a service that lost its listener never
\* reports one.
HonestExit ==
  host.code = "ok" => host.stamped /\ ~host.lost /\ engine.workers = "ended"

\* A subscriber is sent events in the order they were emitted, and an overflow
\* never costs it the newest one: while its queue is open, the last event
\* emitted since it subscribed is waiting or written.
NewestEventKept ==
  \A c \in Conns :
    LET all == feed[c].sent \o feed[c].queue
    IN  /\ \A i, j \in DOMAIN all : i < j => all[i] < all[j]
        /\ (feed[c].writer = "run" /\ ~feed[c].closed /\ emitted > feed[c].first)
             => all # <<>> /\ all[Len(all)] = emitted

\* Running is reported only with a listener behind the pipe, and a listener
\* lost while Running does not leave the service up: it stops.
LostListenerStops == (host.scm = "Running" /\ ~acc.accepting) ~> (host.scm = "Stopped")

\* Clients that connected after the stop had disconnected the others hold
\* every pipe instance, and the accept thread only retries.
TakenAfterStop ==
  /\ acc.at = "create" /\ stopEvent
  /\ Cardinality(InUse) >= MaxInstances /\ \A c \in InUse : ~conn[c].cut

\* A stop, whenever it is raised, ends in Stopped: no join waits for a
\* connection that was never disconnected.  The one exception the code has is
\* TakenAfterStop, which lasts until one of those clients leaves.
StopCompletes == stop ~> (host.scm = "Stopped" \/ TakenAfterStop)

\* A client that reaches the pipe is served, refused or disconnected, and its
\* pipe instance is free again once it has gone.
InstanceFreed == \A c \in Conns : conn[c].cut ~> (c \notin InUse)

\* A service whose clients have all left stops by itself, unless a client is
\* connected or a scan runs again and again.
IdleServiceStops ==
  (IdleStop /\ <>[](host.seen /\ active = 0 /\ engine.workers # "scan")) => <>(stop)

\* A teardown is quiet and its exit code honest, and the counts it goes by are right.
StopsCleanly == HostTypeOK /\ QuietTeardown /\ HonestExit

\* Whatever is asked to end ends: a stopped service, one without a listener, a
\* connection cut off.
ServiceEnds == StopCompletes /\ LostListenerStops /\ InstanceFreed
==============================================================================
