------------------------------ MODULE FfiHandles ------------------------------
(***************************************************************************)
(* The in-process C ABI over the engine (fmf-ffi): opaque engine, result   *)
(* and query-control ids in process-wide registries, calls counted into an *)
(* engine while it accepts them, the event callback and its quiescence     *)
(* barrier, destruction, and the per-thread error detail.                  *)
(*                                                                         *)
(* Each registry lock is one step.  A call looks its engine up, is         *)
(* admitted, works and returns in separate steps, so destruction and the   *)
(* other callers run between any two of them.                              *)
(***************************************************************************)
EXTENDS Naturals, FiniteSets

CONSTANTS
  Engines,     \* engine handles, created before the run starts
  Callers,     \* foreign threads
  MaxHandles,  \* bound on the result and control ids handed out
  MaxOwned,    \* bound on the page and blob owner ids handed out
  MaxSinks     \* bound on the callback registrations

\* 0 names no handle.
None == 0

ASSUME FfiAssumption ==
  /\ IsFiniteSet(Callers) /\ Callers # {} /\ None \notin Callers
  /\ IsFiniteSet(Engines) /\ None \notin Engines
  /\ MaxHandles \in Nat /\ MaxOwned \in Nat /\ MaxSinks \in Nat

Handles == 1..MaxHandles

VARIABLES
  live,       \* ids in ENGINES
  accepting, inFlight,  \* engine -> Lifecycle
  down,       \* engines shut down
  keep,       \* engine -> thread holding _sink_keepalive, or None
  registered, \* engine -> the CallbackSink kept alive, or None
  sink,       \* engine -> the sink the engine's closure dispatches to
  sinks,      \* registrations made so far
  cbOpen, cbIn,   \* sink -> accepting, in_flight
  retired,    \* sinks whose replacement, clearing or destruction returned
  volume,     \* engine -> its volume thread: [at, s]
  nextId, controls, cancelled, results,  \* handle ids; id -> e; set tokens; id -> e
  nextOwner, owned,  \* owner ids; id -> "page" or "blob"
  call,       \* caller -> the call in progress
  detail, owed \* caller -> LAST_ERROR; the detail its last query left

regVars == <<nextId, controls, cancelled, results, nextOwner, owned>>
cbVars  == <<keep, registered, sink, sinks, cbOpen, cbIn, retired>>
lifeVars == <<live, accepting, inFlight, down>>
errVars == <<detail, owed>>
vars == <<lifeVars, cbVars, volume, regVars, call, errVars>>

Quiet == [op |-> "none", at |-> "none", e |-> None, ctl |-> None, s |-> None]

Init ==
  /\ live = Engines /\ accepting = [e \in Engines |-> TRUE]
  /\ inFlight = [e \in Engines |-> 0] /\ down = {}
  /\ keep = [e \in Engines |-> None] /\ registered = [e \in Engines |-> None]
  /\ sink = [e \in Engines |-> None] /\ sinks = 0
  /\ cbOpen = [s \in 1..MaxSinks |-> FALSE] /\ cbIn = [s \in 1..MaxSinks |-> 0]
  /\ retired = {}
  /\ volume = [e \in Engines |-> [at |-> "run", s |-> None]]
  /\ nextId = 1 /\ controls = <<>> /\ cancelled = {} /\ results = <<>>
  /\ nextOwner = 1 /\ owned = <<>>
  /\ call = [t \in Callers |-> Quiet]
  /\ detail = [t \in Callers |-> "none"] /\ owed = [t \in Callers |-> "none"]

----------------------------------------------------------------------------
(***************************************************************************)
(* guard: the detail of the previous call is cleared, a failure sets its   *)
(* own.  The detail a query left is owed to its caller until the next call *)
(* that is not the freeing of a control.                                   *)
(***************************************************************************)
Enter(t, c) ==
  /\ call[t].op = "none"
  /\ call' = [call EXCEPT ![t] = c]
  /\ detail' = [detail EXCEPT ![t] = "none"]
  /\ owed' = [owed EXCEPT ![t] = "none"]

Step(t, at) == call' = [call EXCEPT ![t].at = at]
In(t, op, at) == call[t].op = op /\ call[t].at = at

Return(t, err) ==
  /\ call' = [call EXCEPT ![t] = Quiet]
  /\ detail' = [detail EXCEPT ![t] = err]
  /\ owed' = [owed EXCEPT ![t] = IF call[t].op = "query" THEN err ELSE @]

\* A call that is over in one step, its registry lock included.
Whole(t, err) ==
  /\ call[t].op = "none"
  /\ detail' = [detail EXCEPT ![t] = err]
  /\ owed' = [owed EXCEPT ![t] = "none"]
  /\ UNCHANGED call

\* Mutant: the freeing of a control runs under the plain guard.
WholeCleanupClearing(t, err) ==
  /\ call[t].op = "none"
  /\ detail' = [detail EXCEPT ![t] = err]
  /\ owed' = [owed EXCEPT ![t] = IF err = "none" THEN @ ELSE "none"]
  /\ UNCHANGED call

\* guard_cleanup: a success restores the detail it found.
WholeCleanup(t, err) ==
  /\ call[t].op = "none"
  /\ detail' = [detail EXCEPT ![t] = IF err = "none" THEN @ ELSE err]
  /\ owed' = [owed EXCEPT ![t] = IF err = "none" THEN @ ELSE "none"]
  /\ UNCHANGED call

Without(f, ids) == [i \in DOMAIN f \ ids |-> f[i]]
With(f, i, v) == [j \in DOMAIN f \cup {i} |-> IF j = i THEN v ELSE f[j]]

----------------------------------------------------------------------------
(***************************************************************************)
(* Admission.  Every engine call but destroy looks the engine up, then is  *)
(* counted in while the engine accepts; it is counted out on every return. *)
(***************************************************************************)
Begin(t, op, e, ctl) ==
  /\ IF e \in live
     THEN Enter(t, [Quiet EXCEPT !.op = op, !.at = "admit", !.e = e, !.ctl = ctl])
     ELSE Whole(t, "invalid")
  /\ UNCHANGED <<lifeVars, cbVars, volume, regVars>>

\* Mutant: a call counts itself in without asking whether destroy has begun.
AdmitAlways(t) ==
  /\ call[t].at = "admit" /\ call[t].op # "destroy"
  /\ inFlight' = [inFlight EXCEPT ![call[t].e] = @ + 1]
  /\ Step(t, "work") /\ UNCHANGED errVars
  /\ UNCHANGED <<live, accepting, down, cbVars, volume, regVars>>

Admit(t) ==
  /\ call[t].at = "admit" /\ call[t].op # "destroy"
  /\ IF accepting[call[t].e]
     THEN /\ inFlight' = [inFlight EXCEPT ![call[t].e] = @ + 1]
          /\ Step(t, "work") /\ UNCHANGED errVars
     ELSE Return(t, "invalid") /\ UNCHANGED inFlight
  /\ UNCHANGED <<live, accepting, down, cbVars, volume, regVars>>

Leave(t, err) ==
  /\ inFlight' = [inFlight EXCEPT ![call[t].e] = @ - 1]
  /\ Return(t, err)

\* fmf_flush, fmf_index_start and fmf_index_status only use the engine.
Use(t) ==
  /\ In(t, "use", "work")
  /\ Leave(t, "none")
  /\ UNCHANGED <<live, accepting, down, cbVars, volume, regVars>>

\* fmf_engine_stats publishes a blob.
Stats(t) ==
  /\ In(t, "stats", "work")
  /\ nextOwner' = nextOwner + 1
  /\ owned' = With(owned, nextOwner, "blob")
  /\ Leave(t, "none")
  /\ UNCHANGED <<live, accepting, down, cbVars, volume, nextId, controls, cancelled, results>>

----------------------------------------------------------------------------
(***************************************************************************)
(* Query controls and queries.                                             *)
(***************************************************************************)
CreateControl(t) ==
  /\ In(t, "control", "work")
  /\ nextId' = nextId + 1
  /\ controls' = With(controls, nextId, call[t].e)
  /\ Leave(t, "none")
  /\ UNCHANGED <<live, accepting, down, cbVars, volume, cancelled, results, nextOwner, owned>>

CancelControl(t, id) ==
  /\ IF id \in DOMAIN controls
     THEN cancelled' = cancelled \cup {id} /\ Whole(t, "none")
     ELSE UNCHANGED cancelled /\ Whole(t, "invalid")
  /\ UNCHANGED <<lifeVars, cbVars, volume, nextId, controls, results, nextOwner, owned>>

FreeControl(t, id) ==
  /\ controls' = Without(controls, {id})
  /\ WholeCleanup(t, IF id \in DOMAIN controls THEN "none" ELSE "invalid")
  /\ UNCHANGED <<lifeVars, cbVars, volume, nextId, cancelled, results, nextOwner, owned>>

\* The query takes its control's token under the registry lock.
QueryStart(t) ==
  LET id == call[t].ctl
  IN  /\ In(t, "query", "work")
      /\ IF id \in DOMAIN controls /\ controls[id] = call[t].e
         THEN Step(t, "run") /\ UNCHANGED <<inFlight, errVars>>
         ELSE Leave(t, "query")
      /\ UNCHANGED <<live, accepting, down, cbVars, volume, regVars>>

\* The token outlives its control: destruction sets it, freeing does not.
Cancelled(t) == call[t].ctl \in cancelled

\* query_cancellable: an answer or an error; what it says of the basis is
\* QueryEngine's subject.
QueryRun(t) ==
  /\ In(t, "query", "run")
  /\ \/ Step(t, "answer") /\ UNCHANGED <<inFlight, errVars>>
     \/ Leave(t, "query")
  /\ UNCHANGED <<live, accepting, down, cbVars, volume, regVars>>

\* A cancellation that arrives after the answer still wins.
QueryAnswered(t) ==
  /\ In(t, "query", "answer")
  /\ IF Cancelled(t) THEN Leave(t, "query")
     ELSE Step(t, "insert") /\ UNCHANGED <<inFlight, errVars>>
  /\ UNCHANGED <<live, accepting, down, cbVars, volume, regVars>>

QueryInsert(t) ==
  /\ In(t, "query", "insert")
  /\ nextId' = nextId + 1
  /\ results' = With(results, nextId, call[t].e)
  /\ Leave(t, "none")
  /\ UNCHANGED <<live, accepting, down, cbVars, volume, controls, cancelled, nextOwner, owned>>

FreeResult(t, id) ==
  /\ results' = Without(results, {id})
  /\ Whole(t, IF id \in DOMAIN results THEN "none" ELSE "invalid")
  /\ UNCHANGED <<lifeVars, cbVars, volume, nextId, controls, cancelled, nextOwner, owned>>

\* fmf_result_page takes the result without entering the engine: the rows are
\* read from the Arc it cloned, whatever is freed or destroyed meanwhile.
PageStart(t, id) ==
  /\ IF id \in DOMAIN results
     THEN Enter(t, [Quiet EXCEPT !.op = "page", !.at = "fill"])
     ELSE Whole(t, "invalid")
  /\ UNCHANGED <<lifeVars, cbVars, volume, regVars>>

PageFill(t) ==   \* stale rows, or a page of the caller's
  /\ In(t, "page", "fill")
  /\ \/ /\ nextOwner' = nextOwner + 1
        /\ owned' = With(owned, nextOwner, "page")
        /\ Return(t, "none")
     \/ Return(t, "invalid") /\ UNCHANGED <<nextOwner, owned>>
  /\ UNCHANGED <<lifeVars, cbVars, volume, nextId, controls, cancelled, results>>

\* fmf_page_free and fmf_blob_free: an id of the other kind is refused.
FreeOwned(t, id, kind) ==
  LET mine == id \in DOMAIN owned /\ owned[id] = kind
  IN  /\ owned' = IF mine THEN Without(owned, {id}) ELSE owned
      /\ Whole(t, IF mine THEN "none" ELSE "invalid")
      /\ UNCHANGED <<lifeVars, cbVars, volume, nextId, controls, cancelled, results, nextOwner>>

----------------------------------------------------------------------------
(***************************************************************************)
(* The event callback.  fmf_set_event_callback is an admitted call; it and *)
(* destroy detach the closure, close the sink and wait for the callbacks   *)
(* that are running.                                                       *)
(***************************************************************************)
Clears(t) == \/ In(t, "callback", "work")
             \/ In(t, "destroy", "clear")

Detach(t) ==
  /\ Clears(t) /\ keep[call[t].e] = None
  /\ LET e == call[t].e
         s == registered[e]
     IN  /\ keep' = [keep EXCEPT ![e] = t]
         /\ sink' = [sink EXCEPT ![e] = None]
         /\ registered' = [registered EXCEPT ![e] = None]
         /\ cbOpen' = [i \in DOMAIN cbOpen |-> cbOpen[i] /\ i # s]
         /\ call' = [call EXCEPT ![t].at = "quiesce", ![t].s = s]
  /\ UNCHANGED <<lifeVars, sinks, cbIn, retired, volume, regVars, errVars>>

\* Mutant: the old sink is closed but nobody waits for its callbacks.
QuiescentAtOnce(t) == TRUE

\* deactivate_and_wait
Quiescent(t) == call[t].s # None => cbIn[call[t].s] = 0

Retire(t) == retired' = retired \cup ({call[t].s} \ {None})

\* The new callback, if any, is installed; the call returns.
Install(t) ==
  /\ In(t, "callback", "quiesce") /\ Quiescent(t)
  /\ keep' = [keep EXCEPT ![call[t].e] = None]
  /\ Retire(t)
  /\ \/ /\ sinks < MaxSinks
        /\ sinks' = sinks + 1
        /\ cbOpen' = [cbOpen EXCEPT ![sinks + 1] = TRUE]
        /\ sink' = [sink EXCEPT ![call[t].e] = sinks + 1]
        /\ registered' = [registered EXCEPT ![call[t].e] = sinks + 1]
     \/ UNCHANGED <<sinks, cbOpen, sink, registered>>
  /\ Leave(t, "none")
  /\ UNCHANGED <<live, accepting, down, cbIn, volume, regVars>>

\* The volume thread emits: it clones the closure, and calls it.
Emit(e) ==
  /\ volume[e].at = "run" /\ sink[e] # None
  /\ volume' = [volume EXCEPT ![e] = [at |-> "cloned", s |-> sink[e]]]
  /\ UNCHANGED <<lifeVars, cbVars, regVars, call, errVars>>

\* CallbackSink::invoke: a sink that was closed meanwhile is not called.
Invoke(e) ==
  LET s == volume[e].s
  IN  /\ volume[e].at = "cloned"
      /\ IF cbOpen[s]
         THEN /\ cbIn' = [cbIn EXCEPT ![s] = @ + 1]
              /\ volume' = [volume EXCEPT ![e].at = "callback"]
         ELSE volume' = [volume EXCEPT ![e] = [at |-> "run", s |-> None]] /\ UNCHANGED cbIn
      /\ UNCHANGED <<lifeVars, keep, registered, sink, sinks, cbOpen, retired,
                     regVars, call, errVars>>

\* Mutant: a callback may destroy its engine or replace itself.
ClearInCallbackWaits(e) ==
  /\ volume[e].at = "callback" /\ e \in live
  /\ volume' = [volume EXCEPT ![e].at = "waits for itself"]
  /\ UNCHANGED <<lifeVars, cbVars, regVars, call, errVars>>

\* Inside a callback a lifecycle call is refused, an ordinary one admitted.
CallbackClears(e) ==
  /\ volume[e].at = "callback" /\ e \in live
  /\ volume' = [volume EXCEPT ![e].at = "callback refused"]
  /\ UNCHANGED <<lifeVars, cbVars, regVars, call, errVars>>

CallbackEnters(e) ==
  /\ volume[e].at = "callback" /\ e \in live /\ accepting[e]
  /\ inFlight' = [inFlight EXCEPT ![e] = @ + 1]
  /\ volume' = [volume EXCEPT ![e].at = "callback in call"]
  /\ UNCHANGED <<live, accepting, down, cbVars, regVars, call, errVars>>

\* Mutant: a call that returns inside a callback is not counted out.
CallbackLeavesCounted(e) ==
  /\ volume[e].at = "callback in call"
  /\ volume' = [volume EXCEPT ![e].at = "callback"]
  /\ UNCHANGED <<lifeVars, cbVars, regVars, call, errVars>>

CallbackLeaves(e) ==
  /\ volume[e].at = "callback in call"
  /\ inFlight' = [inFlight EXCEPT ![e] = @ - 1]
  /\ volume' = [volume EXCEPT ![e].at = "callback"]
  /\ UNCHANGED <<live, accepting, down, cbVars, regVars, call, errVars>>

CallbackReturns(e) ==
  /\ volume[e].at \in {"callback", "callback refused"}
  /\ cbIn' = [cbIn EXCEPT ![volume[e].s] = @ - 1]
  /\ volume' = [volume EXCEPT ![e] = [at |-> "run", s |-> None]]
  /\ UNCHANGED <<lifeVars, keep, registered, sink, sinks, cbOpen, retired,
                 regVars, call, errVars>>

----------------------------------------------------------------------------
(***************************************************************************)
(* fmf_engine_destroy.                                                     *)
(***************************************************************************)
\* cancel_engine
SweepControls(e) ==
  LET swept == {i \in DOMAIN controls : controls[i] = e}
  IN  controls' = Without(controls, swept) /\ cancelled' = cancelled \cup swept

DestroyStart(t, e) ==
  /\ IF e \in live
     THEN /\ Enter(t, [Quiet EXCEPT !.op = "destroy", !.at = "sweep", !.e = e])
          /\ live' = live \ {e}
     ELSE Whole(t, "invalid") /\ UNCHANGED live
  /\ UNCHANGED <<accepting, inFlight, down, cbVars, volume, regVars>>

DestroySweep(t) ==
  /\ In(t, "destroy", "sweep")
  /\ SweepControls(call[t].e)
  /\ Step(t, "close")
  /\ UNCHANGED <<lifeVars, cbVars, volume, nextId, results, nextOwner, owned, errVars>>

DestroyClose(t) ==
  /\ In(t, "destroy", "close")
  /\ accepting' = [accepting EXCEPT ![call[t].e] = FALSE]
  /\ Step(t, "drain")
  /\ UNCHANGED <<live, inFlight, down, cbVars, volume, regVars, errVars>>

\* Mutant: the controls are swept once, before the calls have drained.
DestroyDrainOnly(t) ==
  /\ In(t, "destroy", "drain") /\ inFlight[call[t].e] = 0
  /\ Step(t, "clear")
  /\ UNCHANGED <<lifeVars, cbVars, volume, regVars, errVars>>

\* Admitted calls have left: the controls they may have made are swept too.
DestroyDrained(t) ==
  /\ In(t, "destroy", "drain") /\ inFlight[call[t].e] = 0
  /\ SweepControls(call[t].e)
  /\ Step(t, "clear")
  /\ UNCHANGED <<lifeVars, cbVars, volume, nextId, results, nextOwner, owned, errVars>>

DestroyPurge(t) ==
  /\ In(t, "destroy", "quiesce") /\ Quiescent(t)
  /\ keep' = [keep EXCEPT ![call[t].e] = None]
  /\ Retire(t)
  /\ results' = Without(results, {i \in DOMAIN results : results[i] = call[t].e})
  /\ Step(t, "shutdown")
  /\ UNCHANGED <<lifeVars, registered, sink, sinks, cbOpen, cbIn, volume,
                 nextId, controls, cancelled, nextOwner, owned, errVars>>

\* Engine::shutdown joins the volume threads.
DestroyShutdown(t) ==
  /\ In(t, "destroy", "shutdown") /\ volume[call[t].e].at = "run"
  /\ volume' = [volume EXCEPT ![call[t].e].at = "ended"]
  /\ down' = down \cup {call[t].e}
  /\ Return(t, "none")
  /\ UNCHANGED <<live, accepting, inFlight, cbVars, regVars>>

----------------------------------------------------------------------------
\* The bounds count the ids that calls in progress may still hand out.
Pending(ops) == Cardinality({t \in Callers : call[t].op \in ops})
MayIssue == nextId + Pending({"control", "query"}) <= MaxHandles
MayOwn == nextOwner + Pending({"stats", "page"}) <= MaxOwned

CallerBegins(t) ==
  \/ \E e \in Engines :
       \/ Begin(t, "use", e, None)
       \/ MayOwn /\ Begin(t, "stats", e, None)
       \/ MayIssue /\ Begin(t, "control", e, None)
       \/ Begin(t, "callback", e, None)
       \/ DestroyStart(t, e)
       \/ \E c \in DOMAIN controls : MayIssue /\ Begin(t, "query", e, c)
  \/ \E id \in Handles : \/ CancelControl(t, id) \/ FreeControl(t, id)
                         \/ FreeResult(t, id) \/ (MayOwn /\ PageStart(t, id))
  \/ \E id \in 1..MaxOwned : \E kind \in {"page", "blob"} : FreeOwned(t, id, kind)

CallerStep(t) ==
  \/ Admit(t) \/ Use(t) \/ Stats(t)
  \/ CreateControl(t)
  \/ QueryStart(t) \/ QueryRun(t) \/ QueryAnswered(t) \/ QueryInsert(t) \/ PageFill(t)
  \/ Detach(t) \/ Install(t)
  \/ DestroySweep(t) \/ DestroyClose(t) \/ DestroyDrained(t) \/ DestroyPurge(t)
  \/ DestroyShutdown(t)

VolumeStep(e) == Invoke(e) \/ CallbackLeaves(e) \/ CallbackReturns(e)

Next ==
  \/ \E t \in Callers : CallerBegins(t) \/ CallerStep(t)
  \/ \E e \in Engines : \/ Emit(e) \/ VolumeStep(e)
                        \/ CallbackEnters(e) \/ CallbackClears(e)

\* Threads run, queries end, callbacks return; the keepalive mutex is
\* parking_lot's, whose unlocking is eventually fair.
Fairness == /\ \A t \in Callers : WF_vars(CallerStep(t)) /\ SF_vars(Detach(t))
            /\ \A e \in Engines : WF_vars(VolumeStep(e)) /\ SF_vars(CallbackReturns(e))

Spec == Init /\ [][Next]_vars /\ Fairness

----------------------------------------------------------------------------
(***************************************************************************)
(* Properties                                                              *)
(***************************************************************************)
CallbackAt == {"callback", "callback in call", "callback refused", "waits for itself"}

Admitted(e) == {t \in Callers : call[t].e = e /\ call[t].op # "destroy"
                                /\ call[t].at \notin {"none", "admit"}}

\* Ids are issued once and stay in their domains; an engine's count is that of
\* the calls it admitted, those made by its own callback included.
TypeOK ==
  /\ live \subseteq Engines /\ down \subseteq Engines \ live
  /\ DOMAIN controls \cup DOMAIN results \cup cancelled \subseteq 1..(nextId - 1)
  /\ DOMAIN owned \subseteq 1..(nextOwner - 1)
  /\ \A e \in Engines :
       /\ keep[e] \in Callers \cup {None} /\ {sink[e], registered[e]} \subseteq 0..sinks
       /\ inFlight[e] = Cardinality(Admitted(e))
                        + (IF volume[e].at = "callback in call" THEN 1 ELSE 0)
  /\ \A s \in 1..MaxSinks : cbIn[s] = Cardinality({e \in Engines :
                                         volume[e].at \in CallbackAt /\ volume[e].s = s})

\* The quiescence barrier: once the replacement, the clearing or the
\* destruction that retired a callback has returned, that callback is not
\* running and no closure still leads to it, so its user token may be freed.
NoCallbackAfterReturn ==
  \A e \in Engines : /\ ~(volume[e].at \in CallbackAt /\ volume[e].s \in retired)
                     /\ sink[e] \notin retired
                     /\ keep[e] = None => sink[e] = registered[e]

\* A destroyed engine leaves no query control and no result in the process-wide
\* registries, however late a call admitted before the destruction inserts one.
NoOrphans ==
  /\ \A i \in DOMAIN controls : controls[i] \notin down
  /\ \A i \in DOMAIN results : results[i] \notin down

\* No call works on an engine that has been shut down, and no callback runs.
NoWorkAfterDown ==
  \A e \in down : Admitted(e) = {} /\ volume[e].at = "ended" /\ sink[e] = None

\* The reason a query failed is still what fmf_last_error answers after its
\* control has been freed.
DetailSurvivesCleanup ==
  \A t \in Callers : (call[t].op = "none" /\ owed[t] # "none") => detail[t] = owed[t]

\* Every call returns: destruction, replacement and callbacks, each of which
\* waits for others, never wait for each other.
CallsReturn == \A t \in Callers : call[t].op # "none" ~> call[t].op = "none"

\* What a caller may rely on once its call has returned: the counts are right, a
\* retired callback is quiet, a destroyed engine is gone with all that hung on it,
\* and the detail of a failure is still there.
ReturnedMeansDone ==
  TypeOK /\ NoCallbackAfterReturn /\ NoOrphans /\ NoWorkAfterDown /\ DetailSurvivesCleanup
==============================================================================
