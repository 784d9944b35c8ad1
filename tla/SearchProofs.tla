---------------------------- MODULE SearchProofs ----------------------------
(***************************************************************************)
(* Proofs about the handles of the C interface (FfiHandles), for any finite*)
(* number of engines and foreign threads and any number of handles, owners *)
(* and callback registrations, and about the queries behind them           *)
(* (QueryEngine), for any number of volumes and clients, any rows and any  *)
(* interleaving of queries with the volume workers.                        *)
(*                                                                         *)
(* Destruction shuts an engine down in the order that makes it final: the  *)
(* engine refuses new calls, the admitted ones drain, what they left is    *)
(* swept, the callback is detached and waited for.  The first invariant    *)
(* says at each point of a destruction what can no longer happen to its    *)
(* engine.  The second says what a capture, a cached permutation and a     *)
(* result are worth by comparing their generations with the index.         *)
(***************************************************************************)
EXTENDS FfiHandles, QueryEngine, Integers, FiniteSetTheorems, SequenceTheorems,
        NaturalsInduction, WellFoundedInduction, FunctionTheorems, TLAPS
----------------------------------------------------------------------------
(***************************************************************************)
(* The handles of the C interface.                                         *)
(***************************************************************************)
Op == {"none", "use", "stats", "control", "callback", "query", "page", "destroy"}

Point == {"none", "admit", "work", "run", "answer", "insert", "fill", "quiesce",
          "sweep", "close", "drain", "clear", "shutdown"}

Calls == [op : Op, at : Point, e : Engines \cup {None}, ctl : Nat, s : 0 .. MaxSinks]

VolumeAt == {"run", "cloned", "callback", "callback in call", "callback refused", "ended"}

\* Every value in its range.
Types ==
  /\ live \subseteq Engines /\ down \subseteq Engines
  /\ accepting \in [Engines -> BOOLEAN] /\ inFlight \in [Engines -> Int]
  /\ keep \in [Engines -> Callers \cup {None}]
  /\ registered \in [Engines -> 0 .. MaxSinks] /\ sink \in [Engines -> 0 .. MaxSinks]
  /\ sinks \in 0 .. MaxSinks
  /\ cbOpen \in [1 .. MaxSinks -> BOOLEAN] /\ cbIn \in [1 .. MaxSinks -> Int]
  /\ volume \in [Engines -> [at : VolumeAt, s : 0 .. MaxSinks]]
  /\ nextId \in Nat \ {0} /\ nextOwner \in Nat \ {0}
  /\ call \in [Callers -> Calls]

\* A call's point tells which call it is, and whether it has an engine.
Consistent(c) ==
  /\ c.op = "none" <=> c.at = "none"
  /\ c.op = "page" <=> c.at = "fill"
  /\ c.op \in {"none", "page"} <=> c.e = None
  /\ c.at \in {"admit", "work"} => c.op \in {"use", "stats", "control", "callback", "query"}
  /\ c.at \in {"run", "answer", "insert"} => c.op = "query"
  /\ c.at \in {"sweep", "close", "drain", "clear", "shutdown"} => c.op = "destroy"
  /\ c.at = "quiesce" => c.op \in {"callback", "destroy"}

CallInv == \A t \in Callers : Consistent(call[t])

\* An engine's count is that of the calls it admitted, a callback's that of the
\* volume threads in it.
InCall(v) == IF v.at = "callback in call" THEN 1 ELSE 0

CountInv ==
  /\ \A e \in Engines : inFlight[e] = Cardinality(Admitted(e)) + InCall(volume[e])
  /\ \A s \in 1 .. MaxSinks : cbIn[s] = Cardinality({e \in Engines :
                                          volume[e].at \in CallbackAt /\ volume[e].s = s})

\* Ids are issued once.
IssuedInv ==
  /\ DOMAIN controls \cup DOMAIN results \cup cancelled \subseteq 1 .. nextId - 1
  /\ DOMAIN owned \subseteq 1 .. nextOwner - 1

\* A sink is dispatched to by one engine; one that is being retired by none.
SinkInv ==
  /\ sink = registered
  /\ \A e \in Engines : sink[e] <= sinks
  /\ \A e, f \in Engines : sink[e] = sink[f] /\ sink[e] # None => e = f
  /\ \A s \in 1 .. MaxSinks : s > sinks => ~cbOpen[s]
  /\ retired \subseteq 1 .. sinks
  /\ \A s \in retired : ~cbOpen[s] /\ \A e \in Engines : sink[e] # s
  /\ \A t \in Callers : call[t].at = "quiesce" /\ call[t].s # None =>
       /\ call[t].s <= sinks
       /\ ~cbOpen[call[t].s] /\ \A e \in Engines : sink[e] # call[t].s
  /\ \A e \in Engines :
       /\ volume[e].at \in {"cloned"} \cup CallbackAt => volume[e].s \in 1 .. sinks
       /\ volume[e].at \in CallbackAt => volume[e].s \notin retired

\* No admitted call is in the engine, and none can enter it.
Drained(e) ==
  /\ ~accepting[e] /\ Admitted(e) = {} /\ volume[e].at # "callback in call"
  /\ \A i \in DOMAIN controls : controls[i] # e

NoResults(e) == \A i \in DOMAIN results : results[i] # e

\* What the destruction c has made final, point by point.
Final(c) ==
  /\ c.e \notin live \cup down
  /\ c.at \in {"drain", "clear", "quiesce", "shutdown"} => ~accepting[c.e]
  /\ c.at \in {"clear", "quiesce", "shutdown"} => Drained(c.e)
  /\ c.at \in {"quiesce", "shutdown"} => sink[c.e] = None
  /\ c.at = "shutdown" => NoResults(c.e)

\* An engine has one destruction.
DestroyInv ==
  /\ live \cap down = {}
  /\ \A e \in down : /\ Drained(e) /\ sink[e] = None /\ NoResults(e)
                     /\ volume[e].at = "ended"
  /\ \A t \in Callers : call[t].op = "destroy" => Final(call[t])
  /\ \A t, u \in Callers :
       call[t].op = "destroy" /\ call[u].op = "destroy" /\ call[t].e = call[u].e => t = u

\* A thread in a call is owed nothing.
Reason == {"none", "invalid", "query"}

DetailInv ==
  /\ detail \in [Callers -> Reason] /\ owed \in [Callers -> Reason]
  /\ \A t \in Callers : /\ call[t].op # "none" => owed[t] = "none"
                        /\ owed[t] # "none" => detail[t] = owed[t]

-----------------------------------------------------------------------------
(* How a step moves a call *)

\* The step of a caller that begins or ends a call, and the fields of the call it has.
LEMMA StepType ==
  ASSUME Types, NEW t \in Callers, NEW at \in Point, Step(t, at)
  PROVE  /\ call' \in [Callers -> Calls]
         /\ call'[t].at = at /\ call'[t].op = call[t].op /\ call'[t].e = call[t].e
         /\ call'[t].s = call[t].s /\ call'[t].ctl = call[t].ctl
         /\ \A u \in Callers \ {t} : call'[u] = call[u]
<1>1. call[t] \in Calls
  BY DEF Types
<1>2. [call[t] EXCEPT !.at = at] \in Calls
  BY <1>1 DEF Calls
<1>3. call' = [call EXCEPT ![t] = [call[t] EXCEPT !.at = at]]
  BY DEF Step, Types
<1> QED BY <1>1, <1>2, <1>3 DEF Types, Calls

\* Returning leaves a thread with no call.
LEMMA ReturnType ==
  ASSUME Types, NEW t \in Callers, NEW err, Return(t, err)
  PROVE  /\ call' \in [Callers -> Calls]
         /\ call'[t] = Quiet
         /\ \A u \in Callers \ {t} : call'[u] = call[u]
<1>1. Quiet \in Calls
  BY FfiAssumption DEF Quiet, Calls, Op, Point, None
<1> QED BY <1>1 DEF Return, Types

\* A call that begins has the fields it is given.
LEMMA EnterType ==
  ASSUME Types, NEW t \in Callers, NEW c \in Calls, Enter(t, c)
  PROVE  /\ call' \in [Callers -> Calls]
         /\ call[t].op = "none" /\ call'[t] = c
         /\ \A u \in Callers \ {t} : call'[u] = call[u]
  BY DEF Enter, Types

\* The records of the calls that begin are calls.
LEMMA BegunType ==
  ASSUME NEW op \in Op, NEW e \in Engines, NEW ctl \in Nat
  PROVE  /\ [Quiet EXCEPT !.op = op, !.at = "admit", !.e = e, !.ctl = ctl] \in Calls
         /\ [Quiet EXCEPT !.op = "destroy", !.at = "sweep", !.e = e] \in Calls
         /\ [Quiet EXCEPT !.op = "page", !.at = "fill"] \in Calls
<1>1. None \in Nat /\ None \in 0 .. MaxSinks
  BY FfiAssumption DEF None
<1>2. [Quiet EXCEPT !.op = op, !.at = "admit", !.e = e, !.ctl = ctl] \in Calls
  BY <1>1 DEF Quiet, Calls, Point
<1>3. [Quiet EXCEPT !.op = "destroy", !.at = "sweep", !.e = e] \in Calls
  BY <1>1 DEF Quiet, Calls, Point, Op
<1>4. [Quiet EXCEPT !.op = "page", !.at = "fill"] \in Calls
  BY <1>1 DEF Quiet, Calls, Point, Op
<1> QED BY <1>2, <1>3, <1>4

\* Detaching hands the sink to the call.
LEMMA DetachType ==
  ASSUME Types, NEW t \in Callers, Detach(t), call[t].e \in Engines
  PROVE  /\ call' \in [Callers -> Calls]
         /\ call'[t].at = "quiesce" /\ call'[t].op = call[t].op /\ call'[t].e = call[t].e
         /\ call'[t].s = registered[call[t].e]
         /\ \A u \in Callers \ {t} : call'[u] = call[u]
<1>1. call[t] \in Calls /\ registered[call[t].e] \in 0 .. MaxSinks
  BY DEF Types
<1>2. [call[t] EXCEPT !.at = "quiesce", !.s = registered[call[t].e]] \in Calls
  BY <1>1 DEF Calls, Point
<1>3. call' = [call EXCEPT ![t] = [call[t] EXCEPT !.at = "quiesce", !.s = registered[call[t].e]]]
  BY DEF Detach, Types
<1> QED BY <1>1, <1>2, <1>3 DEF Types, Calls

\* A call moves to a consistent point; the other calls stay where they are.
OwnStep(t) ==
  /\ call' \in [Callers -> Calls]
  /\ Consistent(call'[t])
  /\ \A u \in Callers \ {t} : call'[u] = call[u]

\* A step of a caller is a step of its own call, from one consistent point to another.
LEMMA CallStep ==
  ASSUME Types, CallInv, IssuedInv, NEW t \in Callers, CallerBegins(t) \/ CallerStep(t)
  PROVE  OwnStep(t)
<1> USE DEF OwnStep
<1>0. /\ call[t] \in Calls /\ Consistent(call[t]) /\ None \notin Engines
      /\ call \in [Callers -> Calls] /\ Consistent(Quiet)
  BY FfiAssumption DEF Types, CallInv, Consistent, Quiet
<1>1. ASSUME NEW err, Return(t, err)
      PROVE  OwnStep(t)
  BY <1>0, <1>1, ReturnType
<1>2. ASSUME NEW e \in Engines, NEW op \in {"use", "stats", "control", "callback", "query"},
             NEW ctl \in Nat, Begin(t, op, e, ctl)
      PROVE  OwnStep(t)
  <2> DEFINE c == [Quiet EXCEPT !.op = op, !.at = "admit", !.e = e, !.ctl = ctl]
  <2>1. c \in Calls
    BY BegunType DEF Op
  <2>2. Consistent(c)
    BY <1>0 DEF Consistent, Quiet
  <2> QED BY <1>0, <1>2, <2>1, <2>2, EnterType DEF Begin, Whole
<1>3. ASSUME NEW e \in Engines, DestroyStart(t, e)
      PROVE  OwnStep(t)
  <2> DEFINE c == [Quiet EXCEPT !.op = "destroy", !.at = "sweep", !.e = e]
  <2>1. c \in Calls
    BY BegunType DEF Op
  <2>2. Consistent(c)
    BY <1>0 DEF Consistent, Quiet
  <2> QED BY <1>0, <1>3, <2>1, <2>2, EnterType DEF DestroyStart, Whole
<1>4. ASSUME NEW id, PageStart(t, id)
      PROVE  OwnStep(t)
  <2> DEFINE c == [Quiet EXCEPT !.op = "page", !.at = "fill"]
  <2>1. c \in Calls
    <3>1. None \in Nat /\ None \in 0 .. MaxSinks
      BY FfiAssumption DEF None
    <3> QED BY <3>1 DEF Quiet, Calls, Point, Op
  <2>2. Consistent(c)
    BY <1>0 DEF Consistent, Quiet
  <2> QED BY <1>0, <1>4, <2>1, <2>2, EnterType DEF PageStart, Whole
<1>5. CASE CallerBegins(t)
  <2>1. CASE \E id \in Handles : CancelControl(t, id) \/ FreeControl(t, id) \/ FreeResult(t, id)
    BY <1>0, <2>1 DEF CancelControl, FreeControl, FreeResult, Whole, WholeCleanup
  <2>2. CASE \E id \in 1 .. MaxOwned : \E kind \in {"page", "blob"} : FreeOwned(t, id, kind)
    BY <1>0, <2>2 DEF FreeOwned, Whole
  <2>3. CASE \E id \in Handles : PageStart(t, id)
    BY <2>3, <1>4
  <2>4. CASE \E e \in Engines : DestroyStart(t, e)
    BY <2>4, <1>3
  <2>5. CASE \E e \in Engines : \E c \in DOMAIN controls : Begin(t, "query", e, c)
    <3>1. PICK e \in Engines, c \in DOMAIN controls : Begin(t, "query", e, c)
      BY <2>5
    <3>2. c \in Nat
      BY DEF IssuedInv, Types
    <3> QED BY <3>1, <3>2, <1>2
  <2>6. CASE \E e \in Engines : \E op \in {"use", "stats", "control", "callback"} :
               Begin(t, op, e, None)
    BY <2>6, <1>2 DEF None
  <2> QED BY <1>5, <2>1, <2>2, <2>3, <2>4, <2>5, <2>6 DEF CallerBegins
<1>6. CASE CallerStep(t)
  <2>1. ASSUME NEW at \in Point, Step(t, at),
               \/ call[t].op = "query" /\ at \in {"run", "answer", "insert"}
               \/ call[t].op = "destroy" /\ at \in {"close", "drain", "clear", "shutdown"}
               \/ call[t].at = "admit" /\ at = "work"
        PROVE  OwnStep(t)
    BY <1>0, <2>1, StepType DEF Consistent
  <2>2. CASE Admit(t)
    BY <2>2, <1>1, <2>1 DEF Admit, Point
  <2>3. CASE \/ Use(t) \/ Stats(t) \/ CreateControl(t) \/ QueryInsert(t) \/ PageFill(t)
             \/ Install(t) \/ DestroyShutdown(t)
    BY <2>3, <1>1 DEF Use, Stats, CreateControl, QueryInsert, PageFill, Install,
         DestroyShutdown, Leave
  <2>4. CASE QueryStart(t) \/ QueryRun(t) \/ QueryAnswered(t)
    BY <2>4, <1>1, <2>1 DEF QueryStart, QueryRun, QueryAnswered, Leave, In, Point
  <2>5. CASE DestroySweep(t) \/ DestroyClose(t) \/ DestroyDrained(t) \/ DestroyPurge(t)
    BY <2>5, <2>1 DEF DestroySweep, DestroyClose, DestroyDrained, DestroyPurge, In, Point
  <2>6. CASE Detach(t)
    <3>1. call[t].e \in Engines /\ call[t].op \in {"callback", "destroy"}
      BY <1>0, <2>6 DEF Detach, Clears, In, Consistent, Calls
    <3> QED BY <1>0, <2>6, <3>1, DetachType DEF Consistent
  <2> QED BY <1>6, <2>2, <2>3, <2>4, <2>5, <2>6 DEF CallerStep
<1> QED BY <1>5, <1>6

\* The steps of volume threads leave the calls alone.
LEMMA CallFrame ==
  ASSUME [Next]_vars, \A t \in Callers : ~(CallerBegins(t) \/ CallerStep(t))
  PROVE  UNCHANGED call
<1>1. CASE \E e \in Engines : Emit(e) \/ VolumeStep(e) \/ CallbackEnters(e) \/ CallbackClears(e)
  BY <1>1 DEF Emit, VolumeStep, Invoke, CallbackLeaves, CallbackReturns, CallbackEnters,
       CallbackClears
<1>2. CASE UNCHANGED vars
  BY <1>2 DEF vars
<1> QED BY <1>1, <1>2 DEF Next

\* Every call stays at a point of its own operation.
LEMMA CallInvStep ==
  ASSUME Types, CallInv, IssuedInv, [Next]_vars
  PROVE  CallInv' /\ call' \in [Callers -> Calls]
<1>1. ASSUME NEW t \in Callers, CallerBegins(t) \/ CallerStep(t)
      PROVE  CallInv' /\ call' \in [Callers -> Calls]
  BY <1>1, CallStep DEF OwnStep, CallInv
<1>2. CASE \A t \in Callers : ~(CallerBegins(t) \/ CallerStep(t))
  BY <1>2, CallFrame DEF CallInv, Types
<1> QED BY <1>1, <1>2

-----------------------------------------------------------------------------
(* Which steps change what *)

\* The steps that touch the callbacks, their sinks or the volume threads.
Dispatches ==
  \/ \E t \in Callers : Detach(t) \/ Install(t) \/ DestroyPurge(t) \/ DestroyShutdown(t)
  \/ \E e \in Engines : Emit(e) \/ VolumeStep(e) \/ CallbackEnters(e) \/ CallbackClears(e)

\* Only the steps that dispatch, detach or install a callback touch the sinks.
LEMMA CallbackFrame ==
  ASSUME [Next]_vars, ~Dispatches PROVE UNCHANGED <<cbVars, volume>>
<1> USE DEF Dispatches
<1>1. ASSUME NEW t \in Callers, CallerBegins(t) PROVE UNCHANGED <<cbVars, volume>>
  BY <1>1 DEF CallerBegins, Begin, DestroyStart, CancelControl, FreeControl, FreeResult,
       PageStart, FreeOwned
<1>2. ASSUME NEW t \in Callers, CallerStep(t) PROVE UNCHANGED <<cbVars, volume>>
  BY <1>2 DEF CallerStep, Admit, Use, Stats, CreateControl, QueryStart, QueryRun,
       QueryAnswered, QueryInsert, PageFill, DestroySweep, DestroyClose, DestroyDrained
<1>3. CASE UNCHANGED vars
  BY <1>3 DEF vars
<1> QED BY <1>1, <1>2, <1>3 DEF Next

\* The steps that change which engines are live, accept calls, or count them.
Lives ==
  \/ \E t \in Callers : \/ Admit(t) \/ Use(t) \/ Stats(t) \/ CreateControl(t) \/ QueryStart(t)
                        \/ QueryRun(t) \/ QueryAnswered(t) \/ QueryInsert(t) \/ Install(t)
                        \/ DestroyClose(t) \/ DestroyShutdown(t)
                        \/ \E e \in Engines : DestroyStart(t, e)
  \/ \E e \in Engines : CallbackEnters(e) \/ CallbackLeaves(e)

\* Only admission, return and destruction touch an engine's lifecycle.
LEMMA LifeFrame ==
  ASSUME [Next]_vars, ~Lives PROVE UNCHANGED lifeVars
<1> USE DEF Lives
<1>1. ASSUME NEW t \in Callers, CallerBegins(t) PROVE UNCHANGED lifeVars
  BY <1>1 DEF CallerBegins, Begin, CancelControl, FreeControl, FreeResult, PageStart, FreeOwned
<1>2. ASSUME NEW t \in Callers, CallerStep(t) PROVE UNCHANGED lifeVars
  BY <1>2 DEF CallerStep, PageFill, Detach, DestroySweep, DestroyDrained, DestroyPurge
<1>3. CASE \E e \in Engines : Emit(e) \/ VolumeStep(e) \/ CallbackEnters(e) \/ CallbackClears(e)
  BY <1>3 DEF Emit, VolumeStep, Invoke, CallbackReturns, CallbackClears
<1>4. CASE UNCHANGED vars
  BY <1>4 DEF vars
<1> QED BY <1>1, <1>2, <1>3, <1>4 DEF Next

\* A volume thread moves on with the sink it has cloned.
LEMMA VolumeMoves ==
  ASSUME Types, NEW e \in Engines, NEW at \in VolumeAt,
         volume' = [volume EXCEPT ![e].at = at]
  PROVE  /\ volume' \in [Engines -> [at : VolumeAt, s : 0 .. MaxSinks]]
         /\ volume'[e].at = at /\ volume'[e].s = volume[e].s
         /\ \A f \in Engines \ {e} : volume'[f] = volume[f]
<1>1. volume[e] \in [at : VolumeAt, s : 0 .. MaxSinks]
  BY DEF Types
<1>2. [volume[e] EXCEPT !.at = at] \in [at : VolumeAt, s : 0 .. MaxSinks]
  BY <1>1
<1>3. volume' = [volume EXCEPT ![e] = [volume[e] EXCEPT !.at = at]]
  BY DEF Types
<1> QED BY <1>1, <1>2, <1>3 DEF Types

\* A volume thread takes or drops a sink.
LEMMA VolumeTakes ==
  ASSUME Types, NEW e \in Engines, NEW at \in VolumeAt, NEW s \in 0 .. MaxSinks,
         volume' = [volume EXCEPT ![e] = [at |-> at, s |-> s]]
  PROVE  /\ volume' \in [Engines -> [at : VolumeAt, s : 0 .. MaxSinks]]
         /\ volume'[e].at = at /\ volume'[e].s = s
         /\ \A f \in Engines \ {e} : volume'[f] = volume[f]
  BY DEF Types

\* The lifecycles keep their types.
LEMMA LifeTypeStep ==
  ASSUME Types, CallInv, [Next]_vars
  PROVE  /\ live' \subseteq Engines /\ down' \subseteq Engines
         /\ accepting' \in [Engines -> BOOLEAN] /\ inFlight' \in [Engines -> Int]
<1> USE DEF Types
<1>1. ASSUME NEW t \in Callers, call[t].op \notin {"none", "page"} PROVE call[t].e \in Engines
  BY <1>1 DEF CallInv, Consistent, Calls
<1>2. ASSUME NEW t \in Callers, NEW e \in Engines, DestroyStart(t, e)
      PROVE  UNCHANGED <<accepting, inFlight, down>> /\ live' \subseteq live
  BY <1>2 DEF DestroyStart
<1>3. ASSUME NEW t \in Callers, Use(t) \/ Stats(t) \/ CreateControl(t) \/ QueryInsert(t)
                                \/ Install(t)
      PROVE  UNCHANGED <<accepting, live, down>> /\ inFlight' \in [Engines -> Int]
  BY <1>3 DEF Use, Stats, CreateControl, QueryInsert, Install, Leave
<1>4. ASSUME NEW t \in Callers, Admit(t) \/ QueryStart(t) \/ QueryRun(t) \/ QueryAnswered(t)
      PROVE  UNCHANGED <<accepting, live, down>> /\ inFlight' \in [Engines -> Int]
  <2>1. /\ UNCHANGED <<accepting, live, down>>
        /\ \/ inFlight' = inFlight
           \/ inFlight' = [inFlight EXCEPT ![call[t].e] = @ + 1]
           \/ inFlight' = [inFlight EXCEPT ![call[t].e] = @ - 1]
    BY <1>4 DEF Admit, QueryStart, QueryRun, QueryAnswered, Leave
  <2>2. /\ inFlight \in [Engines -> Int]
        /\ \A f \in Engines : inFlight[f] + 1 \in Int /\ inFlight[f] - 1 \in Int
    OBVIOUS
  <2> HIDE DEF Types
  <2> QED BY <2>1, <2>2
<1>5. ASSUME NEW t \in Callers, DestroyClose(t)
      PROVE  UNCHANGED <<inFlight, live, down>> /\ accepting' \in [Engines -> BOOLEAN]
  BY <1>5 DEF DestroyClose
<1>6. ASSUME NEW t \in Callers, DestroyShutdown(t)
      PROVE  UNCHANGED <<accepting, inFlight, live>> /\ down' \subseteq Engines
  BY <1>1, <1>6 DEF DestroyShutdown, In
<1>7. ASSUME NEW e \in Engines, CallbackEnters(e) \/ CallbackLeaves(e)
      PROVE  UNCHANGED <<accepting, live, down>> /\ inFlight' \in [Engines -> Int]
  <2>1. /\ UNCHANGED <<accepting, live, down>>
        /\ \/ inFlight' = [inFlight EXCEPT ![e] = @ + 1]
           \/ inFlight' = [inFlight EXCEPT ![e] = @ - 1]
    BY <1>7, Zenon DEF CallbackEnters, CallbackLeaves
  <2>2. inFlight[e] + 1 \in Int /\ inFlight[e] - 1 \in Int
    OBVIOUS
  <2> QED BY <2>1, <2>2
<1>8. CASE ~Lives
  BY <1>8, LifeFrame DEF lifeVars
<1> QED BY <1>2, <1>3, <1>4, <1>5, <1>6, <1>7, <1>8 DEF Lives

\* The sinks and the volume threads keep their types.
LEMMA CallbackTypeStep ==
  ASSUME Types, CallInv, SinkInv, [Next]_vars
  PROVE  /\ keep' \in [Engines -> Callers \cup {None}]
         /\ registered' \in [Engines -> 0 .. MaxSinks] /\ sink' \in [Engines -> 0 .. MaxSinks]
         /\ sinks' \in 0 .. MaxSinks
         /\ cbOpen' \in [1 .. MaxSinks -> BOOLEAN] /\ cbIn' \in [1 .. MaxSinks -> Int]
         /\ volume' \in [Engines -> [at : VolumeAt, s : 0 .. MaxSinks]]
<1> USE DEF Types
<1>0. MaxSinks \in Nat /\ None \in 0 .. MaxSinks
  BY FfiAssumption DEF None
<1>1. ASSUME NEW t \in Callers, Detach(t)
      PROVE  /\ UNCHANGED <<sinks, cbIn, volume>>
             /\ keep' \in [Engines -> Callers \cup {None}]
             /\ registered' \in [Engines -> 0 .. MaxSinks] /\ sink' \in [Engines -> 0 .. MaxSinks]
             /\ cbOpen' \in [1 .. MaxSinks -> BOOLEAN]
  <2>1. cbOpen' = [i \in 1 .. MaxSinks |-> cbOpen[i] /\ i # registered[call[t].e]]
    BY <1>1 DEF Detach
  <2> QED BY <1>0, <1>1, <2>1 DEF Detach
<1>2. ASSUME NEW t \in Callers, Install(t)
      PROVE  /\ UNCHANGED <<cbIn, volume>> /\ sinks' \in 0 .. MaxSinks
             /\ keep' \in [Engines -> Callers \cup {None}]
             /\ registered' \in [Engines -> 0 .. MaxSinks] /\ sink' \in [Engines -> 0 .. MaxSinks]
             /\ cbOpen' \in [1 .. MaxSinks -> BOOLEAN]
  <2>1. keep' \in [Engines -> Callers \cup {None}] /\ UNCHANGED <<cbIn, volume>>
    BY <1>2 DEF Install
  <2>2. CASE UNCHANGED <<sinks, cbOpen, sink, registered>>
    BY <2>1, <2>2
  <2>3. CASE /\ sinks < MaxSinks /\ sinks' = sinks + 1
             /\ cbOpen' = [cbOpen EXCEPT ![sinks + 1] = TRUE]
             /\ sink' = [sink EXCEPT ![call[t].e] = sinks + 1]
             /\ registered' = [registered EXCEPT ![call[t].e] = sinks + 1]
    <3>1. sinks + 1 \in 0 .. MaxSinks
      BY <1>0, <2>3
    <3> QED BY <2>1, <2>3, <3>1
  <2> QED BY <1>2, <2>2, <2>3 DEF Install
<1>3. ASSUME NEW t \in Callers, DestroyPurge(t)
      PROVE  /\ UNCHANGED <<registered, sink, sinks, cbOpen, cbIn, volume>>
             /\ keep' \in [Engines -> Callers \cup {None}]
  BY <1>3 DEF DestroyPurge
<1>4. ASSUME NEW t \in Callers, DestroyShutdown(t)
      PROVE  /\ UNCHANGED cbVars
             /\ volume' \in [Engines -> [at : VolumeAt, s : 0 .. MaxSinks]]
  <2>1. call[t].e \in Engines
    BY <1>4 DEF DestroyShutdown, In, CallInv, Consistent, Calls
  <2> QED BY <1>4, <2>1, VolumeMoves DEF DestroyShutdown, VolumeAt
<1>5. ASSUME NEW e \in Engines, Emit(e) \/ CallbackEnters(e) \/ CallbackClears(e)
      PROVE  /\ UNCHANGED cbVars
             /\ volume' \in [Engines -> [at : VolumeAt, s : 0 .. MaxSinks]]
  BY <1>5, VolumeMoves, VolumeTakes DEF Emit, CallbackEnters, CallbackClears, VolumeAt
<1>6. ASSUME NEW e \in Engines, Invoke(e) \/ CallbackLeaves(e) \/ CallbackReturns(e)
      PROVE  /\ UNCHANGED <<keep, registered, sink, sinks, cbOpen>>
             /\ cbIn' \in [1 .. MaxSinks -> Int]
             /\ volume' \in [Engines -> [at : VolumeAt, s : 0 .. MaxSinks]]
  <2>1. UNCHANGED <<keep, registered, sink, sinks, cbOpen>>
    BY <1>6 DEF Invoke, CallbackLeaves, CallbackReturns, cbVars
  <2>2. cbIn' \in [1 .. MaxSinks -> Int]
    <3>1. \/ \E s \in 0 .. MaxSinks : \/ cbIn' = [cbIn EXCEPT ![s] = @ + 1]
                                     \/ cbIn' = [cbIn EXCEPT ![s] = @ - 1]
          \/ cbIn' = cbIn
      <4>1. volume[e].s \in 0 .. MaxSinks
        OBVIOUS
      <4> QED BY <1>6, <4>1 DEF Invoke, CallbackLeaves, CallbackReturns, cbVars
    <3> QED BY <1>0, <3>1
  <2>3. volume' \in [Engines -> [at : VolumeAt, s : 0 .. MaxSinks]]
    BY <1>0, <1>6, VolumeMoves, VolumeTakes DEF Invoke, CallbackLeaves, CallbackReturns,
       VolumeAt
  <2> QED BY <2>1, <2>2, <2>3
<1>7. CASE ~Dispatches
  BY <1>7, CallbackFrame DEF cbVars
<1> QED BY <1>1, <1>2, <1>3, <1>4, <1>5, <1>6, <1>7 DEF Dispatches, VolumeStep, cbVars

\* Every step keeps every value in its range.
LEMMA TypesStep ==
  ASSUME Types, CallInv, IssuedInv, SinkInv, [Next]_vars PROVE Types'
<1>1. nextId' \in {nextId, nextId + 1} /\ nextOwner' \in {nextOwner, nextOwner + 1}
  <2> USE DEF regVars
  <2>1. ASSUME NEW t \in Callers, CallerBegins(t) PROVE UNCHANGED <<nextId, nextOwner>>
    BY <2>1 DEF CallerBegins, Begin, DestroyStart, CancelControl, FreeControl, FreeResult,
         PageStart, FreeOwned
  <2>2. ASSUME NEW t \in Callers, CallerStep(t)
        PROVE  nextId' \in {nextId, nextId + 1} /\ nextOwner' \in {nextOwner, nextOwner + 1}
    BY <2>2 DEF CallerStep, Admit, Use, Stats, CreateControl, QueryStart, QueryRun,
         QueryAnswered, QueryInsert, PageFill, Detach, Install, DestroySweep, DestroyClose,
         DestroyDrained, DestroyPurge, DestroyShutdown
  <2>3. CASE \E e \in Engines : Emit(e) \/ VolumeStep(e) \/ CallbackEnters(e) \/ CallbackClears(e)
    BY <2>3 DEF Emit, VolumeStep, Invoke, CallbackLeaves, CallbackReturns, CallbackEnters,
         CallbackClears
  <2>4. CASE UNCHANGED vars
    BY <2>4 DEF vars
  <2> QED BY <2>1, <2>2, <2>3, <2>4 DEF Next
<1>2. nextId' \in Nat \ {0} /\ nextOwner' \in Nat \ {0}
  BY <1>1 DEF Types
<1>3. call' \in [Callers -> Calls]
  BY CallInvStep
<1> QED BY <1>2, <1>3, LifeTypeStep, CallbackTypeStep DEF Types

-----------------------------------------------------------------------------
(* The counts *)

\* Does this call count as one the engine has admitted?
Counted(c, e) == c.e = e /\ c.op # "destroy" /\ c.at \notin {"none", "admit"}

\* The admitted calls of an engine are finitely many.
LEMMA AdmittedFinite ==
  ASSUME NEW e PROVE IsFiniteSet(Admitted(e)) /\ Cardinality(Admitted(e)) \in Nat
<1>1. Admitted(e) \subseteq Callers
  BY DEF Admitted
<1> QED BY <1>1, FfiAssumption, FS_Subset, FS_CardinalityType

\* The admitted calls of an engine, when one call moves.
LEMMA AdmittedMoves ==
  ASSUME NEW t \in Callers, NEW e, \A u \in Callers \ {t} : call'[u] = call[u]
  PROVE  /\ (Counted(call[t], e) <=> Counted(call'[t], e)) => Admitted(e)' = Admitted(e)
         /\ ~Counted(call[t], e) /\ Counted(call'[t], e) =>
              Cardinality(Admitted(e)') = Cardinality(Admitted(e)) + 1
         /\ Counted(call[t], e) /\ ~Counted(call'[t], e) =>
              /\ Cardinality(Admitted(e)') = Cardinality(Admitted(e)) - 1
              /\ Admitted(e)' \subseteq Admitted(e)
<1>1. /\ Admitted(e) = {u \in Callers : Counted(call[u], e)}
      /\ Admitted(e)' = {u \in Callers : Counted(call'[u], e)}
  BY DEF Admitted, Counted
<1>2. (Counted(call[t], e) <=> Counted(call'[t], e)) => Admitted(e)' = Admitted(e)
  BY <1>1
<1>3. CASE ~Counted(call[t], e) /\ Counted(call'[t], e)
  <2>1. Admitted(e)' = Admitted(e) \cup {t} /\ t \notin Admitted(e)
    BY <1>1, <1>3
  <2> QED BY <1>3, <2>1, AdmittedFinite, FS_AddElement
<1>4. CASE Counted(call[t], e) /\ ~Counted(call'[t], e)
  <2>1. Admitted(e)' = Admitted(e) \ {t} /\ t \in Admitted(e)
    BY <1>1, <1>4
  <2> QED BY <1>4, <2>1, AdmittedFinite, FS_RemoveElement
<1> QED BY <1>2, <1>3, <1>4

\* A call is counted from its admission to its return.
LEMMA CountedStep ==
  ASSUME Types, CallInv, IssuedInv, NEW t \in Callers, CallerBegins(t) \/ CallerStep(t)
  PROVE  \/ /\ inFlight' = inFlight
            /\ \A e \in Engines : Counted(call[t], e) <=> Counted(call'[t], e)
         \/ /\ inFlight' = [inFlight EXCEPT ![call[t].e] = @ + 1]
            /\ Admit(t) /\ accepting[call[t].e]
            /\ ~Counted(call[t], call[t].e) /\ call'[t].e = call[t].e
            /\ Counted(call'[t], call[t].e)
         \/ /\ inFlight' = [inFlight EXCEPT ![call[t].e] = @ - 1]
            /\ Counted(call[t], call[t].e) /\ call'[t] = Quiet
<1>0. /\ Consistent(call[t]) /\ None \notin Engines /\ call \in [Callers -> Calls]
      /\ \A e \in Engines : ~Counted(Quiet, e)
  BY FfiAssumption DEF CallInv, Counted, Quiet, Types
<1> DEFINE Same == /\ inFlight' = inFlight
                   /\ \A e \in Engines : Counted(call[t], e) <=> Counted(call'[t], e)
           Left == /\ inFlight' = [inFlight EXCEPT ![call[t].e] = @ - 1]
                   /\ Counted(call[t], call[t].e) /\ call'[t] = Quiet
<1>1. CASE CallerBegins(t)
  <2>1. inFlight' = inFlight
    BY <1>1 DEF CallerBegins, Begin, DestroyStart, CancelControl, FreeControl, FreeResult,
       PageStart, FreeOwned, lifeVars
  <2>2. \A e \in Engines : ~Counted(call[t], e)
    <3>1. call[t].op = "none"
      BY <1>1 DEF CallerBegins, Begin, DestroyStart, CancelControl, FreeControl, FreeResult,
         PageStart, FreeOwned, Enter, Whole, WholeCleanup
    <3> QED BY <1>0, <3>1 DEF Consistent, Counted
  <2>3. \/ call'[t] = call[t]
        \/ call'[t].at \in {"admit", "sweep", "fill"}
    <3>1. ASSUME NEW c, Enter(t, c) PROVE call'[t] = c
      BY <1>0, <3>1 DEF Enter
    <3>2. ASSUME NEW e, NEW op, NEW ctl, Begin(t, op, e, ctl)
          PROVE  call'[t] = call[t] \/ call'[t].at = "admit"
      BY <3>1, <3>2 DEF Begin, Whole, Quiet
    <3>3. ASSUME NEW e, DestroyStart(t, e)
          PROVE  call'[t] = call[t] \/ call'[t].at = "sweep"
      BY <3>1, <3>3 DEF DestroyStart, Whole, Quiet
    <3>4. ASSUME NEW id, PageStart(t, id)
          PROVE  call'[t] = call[t] \/ call'[t].at = "fill"
      BY <3>1, <3>4 DEF PageStart, Whole, Quiet
    <3>5. CASE \E id : \E kind : CancelControl(t, id) \/ FreeControl(t, id)
                                 \/ FreeResult(t, id) \/ FreeOwned(t, id, kind)
      BY <3>5 DEF CancelControl, FreeControl, FreeResult, FreeOwned, Whole, WholeCleanup
    <3> QED BY <1>1, <3>2, <3>3, <3>4, <3>5 DEF CallerBegins
  <2>4. Consistent(call'[t])
    BY <1>1, CallStep DEF OwnStep
  <2> QED BY <2>1, <2>2, <2>3, <2>4, <1>0 DEF Consistent, Counted
<1>2. CASE CallerStep(t)
  <2>1. ASSUME NEW err, Leave(t, err), Counted(call[t], call[t].e) PROVE Left
    BY <1>0, <2>1, ReturnType DEF Leave
  <2>2. CASE Admit(t)
    <3>1. CASE accepting[call[t].e]
      <4>1. Step(t, "work") /\ inFlight' = [inFlight EXCEPT ![call[t].e] = @ + 1]
        BY <2>2, <3>1 DEF Admit
      <4>2. call'[t].at = "work" /\ call'[t].e = call[t].e /\ call'[t].op = call[t].op
        BY <4>1, StepType DEF Point
      <4> QED BY <2>2, <3>1, <4>1, <4>2 DEF Admit, Counted
    <3>2. CASE ~accepting[call[t].e]
      <4>1. inFlight' = inFlight /\ call'[t] = Quiet
        BY <2>2, <3>2, ReturnType DEF Admit
      <4> QED BY <1>0, <2>2, <4>1 DEF Admit, Counted
    <3> QED BY <3>1, <3>2
  <2>3. CASE Use(t) \/ Stats(t) \/ CreateControl(t) \/ QueryInsert(t) \/ Install(t)
    <3>1. Counted(call[t], call[t].e) /\ \E err : Leave(t, err)
      BY <2>3 DEF Use, Stats, CreateControl, QueryInsert, Install, In, Counted
    <3> QED BY <2>1, <3>1
  <2>4. CASE QueryStart(t) \/ QueryRun(t) \/ QueryAnswered(t)
    <3>1. /\ Counted(call[t], call[t].e) /\ call[t].op = "query"
          /\ \/ \E err : Leave(t, err)
             \/ inFlight' = inFlight /\ \E at \in {"run", "answer", "insert"} : Step(t, at)
      BY <2>4 DEF QueryStart, QueryRun, QueryAnswered, In, Counted
    <3>2. ASSUME inFlight' = inFlight, NEW at \in {"run", "answer", "insert"}, Step(t, at)
          PROVE  Same
      BY <3>1, <3>2, StepType DEF Point, Counted
    <3> QED BY <2>1, <3>1, <3>2
  <2>5. CASE DestroySweep(t) \/ DestroyClose(t) \/ DestroyDrained(t) \/ DestroyPurge(t)
    <3>1. /\ call[t].op = "destroy" /\ inFlight' = inFlight
          /\ \E at \in {"close", "drain", "clear", "shutdown"} : Step(t, at)
      BY <2>5 DEF DestroySweep, DestroyClose, DestroyDrained, DestroyPurge, In, lifeVars
    <3>2. call'[t].op = "destroy"
      BY <3>1, StepType DEF Point
    <3> QED BY <3>1, <3>2 DEF Counted
  <2>6. CASE Detach(t)
    <3>1. /\ call[t].e \in Engines /\ call[t].at \in {"work", "clear"}
          /\ inFlight' = inFlight
      BY <1>0, <2>6 DEF Detach, Clears, In, Consistent, Calls, lifeVars
    <3>2. call'[t].at = "quiesce" /\ call'[t].e = call[t].e /\ call'[t].op = call[t].op
      BY <2>6, <3>1, DetachType
    <3> QED BY <3>1, <3>2 DEF Counted
  <2>7. CASE PageFill(t)
    <3>1. call[t].e = None /\ inFlight' = inFlight
      BY <1>0, <2>7 DEF PageFill, In, Consistent, lifeVars
    <3>2. call'[t] = Quiet
      BY <2>7, ReturnType DEF PageFill
    <3> QED BY <1>0, <3>1, <3>2 DEF Counted
  <2>8. CASE DestroyShutdown(t)
    <3>1. call[t].op = "destroy" /\ inFlight' = inFlight
      BY <2>8 DEF DestroyShutdown, In
    <3>2. call'[t] = Quiet
      BY <2>8, ReturnType DEF DestroyShutdown
    <3> QED BY <1>0, <3>1, <3>2 DEF Counted
  <2> QED BY <1>2, <2>2, <2>3, <2>4, <2>5, <2>6, <2>7, <2>8 DEF CallerStep
<1> QED BY <1>1, <1>2

\* Callers leave the callbacks that are running to run.
LEMMA CallerLeavesVolume ==
  ASSUME Types, CallInv, NEW t \in Callers, CallerBegins(t) \/ CallerStep(t)
  PROVE  /\ cbIn' = cbIn
         /\ \A e \in Engines : /\ volume'[e].at \in CallbackAt <=> volume[e].at \in CallbackAt
                               /\ volume'[e].at = "callback in call"
                                    <=> volume[e].at = "callback in call"
                               /\ volume'[e].s = volume[e].s
<1>1. CASE DestroyShutdown(t)
  <2>1. call[t].e \in Engines
    BY <1>1 DEF DestroyShutdown, In, CallInv, Consistent, Types, Calls
  <2>2. volume[call[t].e].at = "run"
    BY <1>1 DEF DestroyShutdown
  <2>3. volume' = [volume EXCEPT ![call[t].e].at = "ended"] /\ cbIn' = cbIn
    BY <1>1 DEF DestroyShutdown, cbVars
  <2>4. /\ volume'[call[t].e].at = "ended" /\ volume'[call[t].e].s = volume[call[t].e].s
        /\ \A f \in Engines \ {call[t].e} : volume'[f] = volume[f]
    BY <2>1, <2>3, VolumeMoves DEF VolumeAt
  <2> QED BY <2>2, <2>3, <2>4 DEF CallbackAt
<1>2. CASE CallerStep(t) /\ ~DestroyShutdown(t)
  BY <1>2 DEF CallerStep, Admit, Use, Stats, CreateControl, QueryStart, QueryRun,
       QueryAnswered, QueryInsert, PageFill, Detach, Install, DestroySweep, DestroyClose,
       DestroyDrained, DestroyPurge, cbVars
<1>3. CASE CallerBegins(t)
  BY <1>3 DEF CallerBegins, Begin, DestroyStart, CancelControl, FreeControl, FreeResult,
       PageStart, FreeOwned, cbVars
<1> QED BY <1>1, <1>2, <1>3

\* The volume threads in a callback.
InCallback(s) == {e \in Engines : volume[e].at \in CallbackAt /\ volume[e].s = s}

\* A step that moves a count moves the calls or the callbacks it counts.
LEMMA CountInvStep ==
  ASSUME Types, CallInv, IssuedInv, CountInv, SinkInv, [Next]_vars PROVE CountInv'
<1>0. \A s : IsFiniteSet(InCallback(s)) /\ Cardinality(InCallback(s)) \in Nat
  <2>1. \A s : InCallback(s) \subseteq Engines
    BY DEF InCallback
  <2> QED BY <2>1, FfiAssumption, FS_Subset, FS_CardinalityType
<1>1. ASSUME NEW t \in Callers, CallerBegins(t) \/ CallerStep(t)
      PROVE  CountInv'
  <2>1. OwnStep(t) /\ \A u \in Callers \ {t} : call'[u] = call[u]
    BY <1>1, CallStep DEF OwnStep
  <2>2. ASSUME NEW e \in Engines
        PROVE  inFlight'[e] = Cardinality(Admitted(e)') + InCall(volume'[e])
    <3>1. /\ inFlight[e] = Cardinality(Admitted(e)) + InCall(volume[e])
          /\ Cardinality(Admitted(e)) \in Nat
      BY AdmittedFinite DEF CountInv
    <3>5. InCall(volume'[e]) = InCall(volume[e]) /\ InCall(volume[e]) \in Nat
      BY <1>1, CallerLeavesVolume DEF InCall
    <3>2. CASE Counted(call[t], e) <=> Counted(call'[t], e)
      <4>1. Admitted(e)' = Admitted(e)
        BY <2>1, <3>2, AdmittedMoves
      <4>2. inFlight'[e] = inFlight[e]
        <5>1. Counted(call[t], call[t].e) /\ call'[t] = Quiet => e # call[t].e
          BY <3>2 DEF Counted, Quiet
        <5>2. ~Counted(call[t], call[t].e) /\ Counted(call'[t], call[t].e) => e # call[t].e
          BY <3>2
        <5> QED BY <1>1, <5>1, <5>2, CountedStep DEF Types
      <4> QED BY <3>1, <3>5, <4>1, <4>2
    <3>3. CASE ~Counted(call[t], e) /\ Counted(call'[t], e)
      <4>1. Cardinality(Admitted(e)') = Cardinality(Admitted(e)) + 1
        BY <2>1, <3>3, AdmittedMoves
      <4>2. inFlight' = [inFlight EXCEPT ![call[t].e] = @ + 1] /\ e = call[t].e
        BY <1>1, <3>3, CountedStep DEF Counted, Quiet
      <4>3. inFlight'[e] = inFlight[e] + 1
        BY <4>2 DEF Types
      <4> QED BY <3>1, <3>5, <4>1, <4>3
    <3>4. CASE Counted(call[t], e) /\ ~Counted(call'[t], e)
      <4>1. Cardinality(Admitted(e)') = Cardinality(Admitted(e)) - 1
        BY <2>1, <3>4, AdmittedMoves
      <4>2. inFlight' = [inFlight EXCEPT ![call[t].e] = @ - 1] /\ e = call[t].e
        BY <1>1, <3>4, CountedStep DEF Counted, Quiet
      <4>3. inFlight'[e] = inFlight[e] - 1
        BY <4>2 DEF Types
      <4> QED BY <3>1, <3>5, <4>1, <4>3
    <3> QED BY <3>2, <3>3, <3>4
  <2>3. /\ cbIn' = cbIn /\ \A s : InCallback(s)' = InCallback(s)
    BY <1>1, CallerLeavesVolume DEF InCallback
  <2> QED BY <2>2, <2>3 DEF CountInv, InCallback
<1>2. ASSUME NEW e \in Engines, UNCHANGED <<call, cbIn, inFlight>>,
             \A f \in Engines \ {e} : volume'[f] = volume[f], volume'[e].s = volume[e].s \/
                /\ volume[e].at \notin CallbackAt /\ volume'[e].at \notin CallbackAt,
             volume'[e].at \in CallbackAt <=> volume[e].at \in CallbackAt,
             volume'[e].at = "callback in call" <=> volume[e].at = "callback in call"
      PROVE  CountInv'
  <2>1. \A f : Admitted(f)' = Admitted(f)
    BY <1>2 DEF Admitted
  <2>2. \A s : InCallback(s)' = InCallback(s)
    BY <1>2 DEF InCallback
  <2>3. \A f \in Engines : InCall(volume'[f]) = InCall(volume[f])
    BY <1>2 DEF InCall
  <2> QED BY <1>2, <2>1, <2>2, <2>3 DEF CountInv, InCallback
<1>3. ASSUME NEW e \in Engines, Emit(e) \/ CallbackClears(e)
      PROVE  CountInv'
  <2>1. UNCHANGED <<call, cbIn, inFlight>>
    BY <1>3 DEF Emit, CallbackClears, lifeVars, cbVars
  <2>2. CASE Emit(e)
    BY <1>2, <2>1, <2>2, VolumeTakes, ZenonT(60) DEF Emit, Types, VolumeAt, CallbackAt
  <2>3. CASE CallbackClears(e)
    <3>1. volume' = [volume EXCEPT ![e].at = "callback refused"] /\ volume[e].at = "callback"
      BY <2>3 DEF CallbackClears
    <3> QED BY <1>2, <2>1, <3>1, VolumeMoves DEF VolumeAt, CallbackAt
  <2> QED BY <1>3, <2>2, <2>3
<1>4. ASSUME NEW e \in Engines, Invoke(e) PROVE CountInv'
  <2>1. UNCHANGED <<call, inFlight>> /\ volume[e].at = "cloned" /\ volume[e].s \in 1 .. MaxSinks
    <3>1. volume[e].s \in 1 .. sinks /\ sinks \in 0 .. MaxSinks
      BY <1>4 DEF Invoke, SinkInv, Types
    <3> QED BY <1>4, <3>1, FfiAssumption DEF Invoke, lifeVars
  <2> PICK s \in 1 .. MaxSinks : s = volume[e].s
    BY <2>1
  <2>2. CASE cbOpen[s]
    <3>1. cbIn' = [cbIn EXCEPT ![s] = @ + 1] /\ volume' = [volume EXCEPT ![e].at = "callback"]
      BY <1>4, <2>2 DEF Invoke
    <3>2. /\ volume'[e].at = "callback" /\ volume'[e].s = s
          /\ \A f \in Engines \ {e} : volume'[f] = volume[f]
      BY <3>1, VolumeMoves DEF VolumeAt
    <3>3. InCallback(s)' = InCallback(s) \cup {e} /\ e \notin InCallback(s)
      BY <2>1, <3>2 DEF InCallback, CallbackAt
    <3>4. \A r : r # s => InCallback(r)' = InCallback(r)
      BY <2>1, <3>2 DEF InCallback, CallbackAt
    <3>5. Cardinality(InCallback(s)') = Cardinality(InCallback(s)) + 1
      BY <1>0, <3>3, FS_AddElement
    <3>6. \A r \in 1 .. MaxSinks : cbIn'[r] = Cardinality(InCallback(r)')
      BY <2>1, <3>1, <3>4, <3>5 DEF CountInv, InCallback, Types
    <3>7. \A f : Admitted(f)' = Admitted(f)
      BY <2>1 DEF Admitted
    <3>8. \A f \in Engines : InCall(volume'[f]) = InCall(volume[f])
      BY <2>1, <3>2 DEF InCall
    <3> QED BY <2>1, <3>6, <3>7, <3>8 DEF CountInv, InCallback
  <2>3. CASE ~cbOpen[s]
    <3>1. cbIn' = cbIn /\ volume' = [volume EXCEPT ![e] = [at |-> "run", s |-> None]]
      BY <1>4, <2>3 DEF Invoke
    <3>2. /\ volume'[e].at = "run" /\ \A f \in Engines \ {e} : volume'[f] = volume[f]
      <4>1. None \in 0 .. MaxSinks
        BY FfiAssumption DEF None
      <4> QED BY <3>1, <4>1, VolumeTakes DEF VolumeAt
    <3> QED BY <1>2, <2>1, <3>1, <3>2 DEF CallbackAt
  <2> QED BY <2>2, <2>3
<1>5. ASSUME NEW e \in Engines, CallbackReturns(e) PROVE CountInv'
  <2>1. /\ UNCHANGED <<call, inFlight>> /\ volume[e].at \in CallbackAt \ {"callback in call"}
        /\ volume[e].s \in 1 .. MaxSinks
    <3>1. volume[e].at \in CallbackAt \ {"callback in call"}
      BY <1>5 DEF CallbackReturns, CallbackAt
    <3>2. volume[e].s \in 1 .. sinks /\ sinks \in 0 .. MaxSinks
      BY <3>1 DEF SinkInv, Types
    <3>3. volume[e].s \in 1 .. MaxSinks
      BY <3>2, FfiAssumption
    <3>4. UNCHANGED <<call, inFlight>>
      BY <1>5 DEF CallbackReturns, lifeVars
    <3> QED BY <3>1, <3>3, <3>4
  <2> PICK s \in 1 .. MaxSinks : s = volume[e].s
    BY <2>1
  <2>2. /\ cbIn' = [cbIn EXCEPT ![s] = @ - 1]
        /\ volume' = [volume EXCEPT ![e] = [at |-> "run", s |-> None]]
    BY <1>5 DEF CallbackReturns
  <2>3. /\ volume'[e].at = "run" /\ \A f \in Engines \ {e} : volume'[f] = volume[f]
    <3>1. None \in 0 .. MaxSinks
      BY FfiAssumption DEF None
    <3> QED BY <2>2, <3>1, VolumeTakes DEF VolumeAt
  <2>4. InCallback(s)' = InCallback(s) \ {e} /\ e \in InCallback(s)
    BY <2>1, <2>3 DEF InCallback, CallbackAt
  <2>5. \A r : r # s => InCallback(r)' = InCallback(r)
    BY <2>1, <2>3 DEF InCallback, CallbackAt
  <2>6. Cardinality(InCallback(s)') = Cardinality(InCallback(s)) - 1
    BY <1>0, <2>4, FS_RemoveElement
  <2>7. \A r \in 1 .. MaxSinks : cbIn'[r] = Cardinality(InCallback(r)')
    BY <2>1, <2>2, <2>5, <2>6 DEF CountInv, InCallback, Types
  <2>8. \A f : Admitted(f)' = Admitted(f)
    BY <2>1 DEF Admitted
  <2>9. \A f \in Engines : InCall(volume'[f]) = InCall(volume[f])
    BY <2>1, <2>3 DEF InCall, CallbackAt
  <2> QED BY <2>1, <2>7, <2>8, <2>9 DEF CountInv, InCallback
<1>6. ASSUME NEW e \in Engines, CallbackEnters(e) \/ CallbackLeaves(e) PROVE CountInv'
  <2>1. UNCHANGED <<call, cbIn>>
    BY <1>6 DEF CallbackEnters, CallbackLeaves, cbVars
  <2>2. /\ volume'[e].s = volume[e].s
        /\ volume[e].at \in CallbackAt /\ volume'[e].at \in CallbackAt
        /\ \A f \in Engines \ {e} : volume'[f] = volume[f] /\ inFlight'[f] = inFlight[f]
        /\ \/ /\ volume[e].at # "callback in call" /\ volume'[e].at = "callback in call"
              /\ inFlight'[e] = inFlight[e] + 1
           \/ /\ volume[e].at = "callback in call" /\ volume'[e].at # "callback in call"
              /\ inFlight'[e] = inFlight[e] - 1
    <3>1. CASE CallbackEnters(e)
      <4>1. /\ volume' = [volume EXCEPT ![e].at = "callback in call"] /\ volume[e].at = "callback"
            /\ inFlight' = [inFlight EXCEPT ![e] = @ + 1]
        BY <3>1 DEF CallbackEnters
      <4>2. \A f \in Engines : inFlight'[f] = IF f = e THEN inFlight[e] + 1 ELSE inFlight[f]
        BY <4>1 DEF Types
      <4>3. /\ volume'[e].s = volume[e].s /\ volume'[e].at = "callback in call"
            /\ \A f \in Engines \ {e} : volume'[f] = volume[f]
        BY <4>1, VolumeMoves DEF VolumeAt
      <4> QED BY <4>1, <4>2, <4>3 DEF CallbackAt
    <3>2. CASE CallbackLeaves(e)
      <4>1. /\ volume' = [volume EXCEPT ![e].at = "callback"] /\ volume[e].at = "callback in call"
            /\ inFlight' = [inFlight EXCEPT ![e] = @ - 1]
        BY <3>2 DEF CallbackLeaves
      <4>2. \A f \in Engines : inFlight'[f] = IF f = e THEN inFlight[e] - 1 ELSE inFlight[f]
        BY <4>1 DEF Types
      <4>3. /\ volume'[e].s = volume[e].s /\ volume'[e].at = "callback"
            /\ \A f \in Engines \ {e} : volume'[f] = volume[f]
        BY <4>1, VolumeMoves DEF VolumeAt
      <4> QED BY <4>1, <4>2, <4>3 DEF CallbackAt
    <3> QED BY <1>6, <3>1, <3>2
  <2>3. \A s : InCallback(s)' = InCallback(s)
    BY <2>2 DEF InCallback
  <2>4. \A f : Admitted(f)' = Admitted(f) /\ Cardinality(Admitted(f)) \in Nat
    BY <2>1, AdmittedFinite DEF Admitted
  <2>6. /\ \A f \in Engines : InCall(volume[f]) \in Nat
        /\ \A f \in Engines \ {e} : InCall(volume'[f]) = InCall(volume[f])
        /\ \/ InCall(volume'[e]) = InCall(volume[e]) + 1 /\ inFlight'[e] = inFlight[e] + 1
           \/ InCall(volume'[e]) = InCall(volume[e]) - 1 /\ inFlight'[e] = inFlight[e] - 1
    <3>1. /\ \A f \in Engines : InCall(volume[f]) \in Nat
          /\ \A f \in Engines \ {e} : InCall(volume'[f]) = InCall(volume[f])
      BY <2>2 DEF InCall
    <3>2. CASE volume[e].at # "callback in call"
      <4>1. InCall(volume[e]) = 0 /\ InCall(volume'[e]) = 1
        BY <2>2, <3>2 DEF InCall
      <4>2. inFlight'[e] = inFlight[e] + 1
        BY <2>2, <3>2
      <4>3. InCall(volume'[e]) = InCall(volume[e]) + 1
        BY <4>1
      <4> QED BY <3>1, <4>2, <4>3
    <3>3. CASE volume[e].at = "callback in call"
      <4>1. InCall(volume[e]) = 1 /\ InCall(volume'[e]) = 0
        BY <2>2, <3>3 DEF InCall
      <4>2. inFlight'[e] = inFlight[e] - 1
        BY <2>2, <3>3
      <4>3. InCall(volume'[e]) = InCall(volume[e]) - 1
        BY <4>1
      <4> QED BY <3>1, <4>2, <4>3
    <3> QED BY <3>2, <3>3
  <2>5. \A f \in Engines : inFlight'[f] = Cardinality(Admitted(f)) + InCall(volume'[f])
    <3>1. ASSUME NEW f \in Engines \ {e}
          PROVE  inFlight'[f] = Cardinality(Admitted(f)) + InCall(volume'[f])
      BY <2>2, <2>4, <2>6 DEF CountInv
    <3>2. inFlight'[e] = Cardinality(Admitted(e)) + InCall(volume'[e])
      BY <2>4, <2>6 DEF CountInv
    <3> QED BY <3>1, <3>2
  <2> QED BY <2>1, <2>3, <2>4, <2>5 DEF CountInv, InCallback
<1>7. CASE UNCHANGED vars
  <2>1. \A f : Admitted(f)' = Admitted(f)
    BY <1>7 DEF Admitted, vars
  <2> QED BY <1>7, <2>1 DEF CountInv, vars, lifeVars, cbVars
<1> QED BY <1>1, <1>3, <1>4, <1>5, <1>6, <1>7 DEF Next, VolumeStep

-----------------------------------------------------------------------------
(* The registries *)

\* The steps that change a registry.
Registers ==
  \E t \in Callers :
     \/ Stats(t) \/ CreateControl(t) \/ QueryInsert(t) \/ PageFill(t)
     \/ DestroySweep(t) \/ DestroyDrained(t) \/ DestroyPurge(t)
     \/ \E id \in Handles : CancelControl(t, id) \/ FreeControl(t, id) \/ FreeResult(t, id)
     \/ \E id \in 1 .. MaxOwned : \E kind \in {"page", "blob"} : FreeOwned(t, id, kind)

\* Only the steps that insert, free or sweep touch the registries.
LEMMA RegistryFrame ==
  ASSUME [Next]_vars, ~Registers PROVE UNCHANGED regVars
<1> USE DEF Registers
<1>1. ASSUME NEW t \in Callers, CallerBegins(t) PROVE UNCHANGED regVars
  BY <1>1 DEF CallerBegins, Begin, DestroyStart, PageStart
<1>2. ASSUME NEW t \in Callers, CallerStep(t) PROVE UNCHANGED regVars
  BY <1>2 DEF CallerStep, Admit, Use, QueryStart, QueryRun, QueryAnswered, Detach, Install,
       DestroyClose, DestroyShutdown
<1>3. CASE \E e \in Engines : Emit(e) \/ VolumeStep(e) \/ CallbackEnters(e) \/ CallbackClears(e)
  BY <1>3 DEF Emit, VolumeStep, Invoke, CallbackLeaves, CallbackReturns, CallbackEnters,
       CallbackClears
<1>4. CASE UNCHANGED vars
  BY <1>4 DEF vars
<1> QED BY <1>1, <1>2, <1>3, <1>4 DEF Next

\* What entering an id into a registry and removing ids from it leave there.
LEMMA RegistryEdits ==
  ASSUME NEW f, NEW i, NEW v, NEW ids
  PROVE  /\ DOMAIN With(f, i, v) = DOMAIN f \cup {i}
         /\ \A j \in DOMAIN With(f, i, v) : With(f, i, v)[j] = IF j = i THEN v ELSE f[j]
         /\ DOMAIN Without(f, ids) = DOMAIN f \ ids
         /\ \A j \in DOMAIN Without(f, ids) : Without(f, ids)[j] = f[j]
  BY DEF With, Without

\* The ids that entering and removing leave registered.
LEMMA RegistryDomain ==
  ASSUME NEW f, NEW g
  PROVE  /\ \A i, v : g = With(f, i, v) => DOMAIN g = DOMAIN f \cup {i}
         /\ \A ids : g = Without(f, ids) => DOMAIN g \subseteq DOMAIN f
<1>1. ASSUME NEW i, NEW v, g = With(f, i, v) PROVE DOMAIN g = DOMAIN f \cup {i}
  BY <1>1, RegistryEdits
<1>2. ASSUME NEW ids, g = Without(f, ids) PROVE DOMAIN g \subseteq DOMAIN f
  <2>1. DOMAIN g = DOMAIN f \ ids
    BY <1>2, RegistryEdits
  <2> QED BY <2>1
<1> QED BY <1>1, <1>2

\* An id enters a registry when it is issued.
LEMMA IssuedInvStep ==
  ASSUME Types, CallInv, IssuedInv, [Next]_vars PROVE IssuedInv'
<1>0. nextId \in Nat \ {0} /\ nextOwner \in Nat \ {0}
  BY DEF Types
<1>1. ASSUME NEW t \in Callers, Stats(t) \/ PageFill(t) PROVE IssuedInv'
  <2>1. /\ UNCHANGED <<nextId, controls, results, cancelled>>
        /\ \/ UNCHANGED <<nextOwner, owned>>
           \/ /\ nextOwner' = nextOwner + 1
              /\ \E v : owned' = With(owned, nextOwner, v)
    BY <1>1 DEF Stats, PageFill
  <2>2. CASE UNCHANGED <<nextOwner, owned>>
    BY <2>1, <2>2 DEF IssuedInv
  <2>3. CASE nextOwner' = nextOwner + 1 /\ \E v : owned' = With(owned, nextOwner, v)
    <3>1. DOMAIN owned' = DOMAIN owned \cup {nextOwner}
      BY <2>3, RegistryDomain
    <3> QED BY <1>0, <2>1, <2>3, <3>1 DEF IssuedInv
  <2> QED BY <2>1, <2>2, <2>3
<1>2. ASSUME NEW t \in Callers, CreateControl(t) \/ QueryInsert(t) PROVE IssuedInv'
  <2>1. /\ nextId' = nextId + 1 /\ UNCHANGED <<cancelled, nextOwner, owned>>
        /\ \/ controls' = With(controls, nextId, call[t].e) /\ results' = results
           \/ results' = With(results, nextId, call[t].e) /\ controls' = controls
    BY <1>2 DEF CreateControl, QueryInsert
  <2>2. DOMAIN controls' \cup DOMAIN results' \cup cancelled'
          \subseteq DOMAIN controls \cup DOMAIN results \cup cancelled \cup {nextId}
    <3>1. \/ DOMAIN controls' = DOMAIN controls \cup {nextId} /\ results' = results
          \/ DOMAIN results' = DOMAIN results \cup {nextId} /\ controls' = controls
      <4>1. ASSUME NEW f PROVE DOMAIN With(f, nextId, call[t].e) = DOMAIN f \cup {nextId}
        BY RegistryEdits
      <4> QED BY <2>1, <4>1
    <3> QED BY <2>1, <3>1
  <2> QED BY <1>0, <2>1, <2>2 DEF IssuedInv
<1>3. ASSUME UNCHANGED <<nextId, nextOwner>>, DOMAIN results' \subseteq DOMAIN results,
             DOMAIN controls' \subseteq DOMAIN controls, DOMAIN owned' \subseteq DOMAIN owned,
             cancelled' \subseteq cancelled \cup DOMAIN controls
      PROVE  IssuedInv'
  BY <1>3 DEF IssuedInv
<1>4. ASSUME NEW t \in Callers, DestroySweep(t) \/ DestroyDrained(t) \/ DestroyPurge(t)
      PROVE  IssuedInv'
  <2>1. /\ UNCHANGED <<nextId, nextOwner, owned>>
        /\ results' = results \/ \E ids : results' = Without(results, ids)
        /\ controls' = controls \/ \E ids : controls' = Without(controls, ids)
        /\ cancelled' \subseteq cancelled \cup DOMAIN controls
    BY <1>4 DEF DestroySweep, DestroyDrained, DestroyPurge, SweepControls
  <2> QED BY <1>3, <2>1, RegistryDomain
<1>5. ASSUME NEW t \in Callers, NEW id,
             CancelControl(t, id) \/ FreeControl(t, id) \/ FreeResult(t, id)
      PROVE  IssuedInv'
  <2>1. /\ UNCHANGED <<nextId, nextOwner, owned>>
        /\ results' = results \/ \E ids : results' = Without(results, ids)
        /\ controls' = controls \/ \E ids : controls' = Without(controls, ids)
        /\ cancelled' \subseteq cancelled \cup DOMAIN controls
    BY <1>5 DEF CancelControl, FreeControl, FreeResult
  <2> QED BY <1>3, <2>1, RegistryDomain
<1>6. ASSUME NEW t \in Callers, NEW id, NEW kind, FreeOwned(t, id, kind) PROVE IssuedInv'
  <2>1. /\ UNCHANGED <<nextId, nextOwner, controls, cancelled, results>>
        /\ owned' = owned \/ \E ids : owned' = Without(owned, ids)
    BY <1>6 DEF FreeOwned
  <2> QED BY <1>3, <2>1, RegistryDomain
<1>7. CASE ~Registers
  BY <1>7, RegistryFrame DEF regVars, IssuedInv
<1> QED BY <1>1, <1>2, <1>4, <1>5, <1>6, <1>7 DEF Registers

-----------------------------------------------------------------------------
(* The error detail *)

\* Only a returned query leaves a debt, and only the freeing of a control keeps it.
LEMMA DetailInvStep ==
  ASSUME Types, CallInv, DetailInv, [Next]_vars PROVE DetailInv'
<1> USE DEF errVars
<1>0. call \in [Callers -> Calls] /\ Quiet.op = "none" /\ {"none", "invalid", "query"} = Reason
  BY DEF Types, Quiet, Reason
<1>1. ASSUME NEW t \in Callers, NEW c, Enter(t, c) PROVE DetailInv'
  BY <1>0, <1>1 DEF Enter, DetailInv
<1>2. ASSUME NEW t \in Callers, NEW err \in Reason, Whole(t, err) PROVE DetailInv'
  BY <1>0, <1>2 DEF Whole, DetailInv
<1>3. ASSUME NEW t \in Callers, NEW err \in Reason, WholeCleanup(t, err) PROVE DetailInv'
  <2>1. CASE err = "none"
    <3>1. UNCHANGED <<call, detail, owed>>
      BY <1>3, <2>1 DEF WholeCleanup, DetailInv
    <3> QED BY <3>1 DEF DetailInv
  <2>2. CASE err # "none"
    BY <1>0, <1>3, <2>2 DEF WholeCleanup, DetailInv
  <2> QED BY <2>1, <2>2
<1>4. ASSUME NEW t \in Callers, NEW err \in Reason, Return(t, err), call[t].op # "none"
      PROVE  DetailInv'
  <2>1. detail' \in [Callers -> Reason] /\ owed' \in [Callers -> Reason]
    BY <1>4 DEF Return, DetailInv
  <2>2. call'[t].op = "none" /\ detail'[t] = err /\ owed'[t] \in {err, "none"}
    BY <1>0, <1>4 DEF Return, DetailInv
  <2>3. \A u \in Callers \ {t} : /\ call'[u] = call[u]
                                 /\ detail'[u] = detail[u] /\ owed'[u] = owed[u]
    BY <1>0, <1>4 DEF Return, DetailInv
  <2> QED BY <2>1, <2>2, <2>3 DEF DetailInv
<1>5. ASSUME NEW t \in Callers, UNCHANGED errVars, call'[t].op = call[t].op,
             \A u \in Callers \ {t} : call'[u] = call[u]
      PROVE  DetailInv'
  BY <1>5 DEF DetailInv
<1>6. ASSUME NEW t \in Callers, CallerBegins(t) PROVE DetailInv'
  <2>1. ASSUME NEW e, NEW op, NEW ctl, Begin(t, op, e, ctl) PROVE DetailInv'
    BY <1>0, <1>1, <1>2, <2>1 DEF Begin
  <2>2. ASSUME NEW e, DestroyStart(t, e) PROVE DetailInv'
    BY <1>0, <1>1, <1>2, <2>2 DEF DestroyStart
  <2>3. ASSUME NEW id, PageStart(t, id) \/ CancelControl(t, id) \/ FreeResult(t, id)
        PROVE  DetailInv'
    BY <1>0, <1>1, <1>2, <2>3 DEF PageStart, CancelControl, FreeResult
  <2>4. ASSUME NEW id, FreeControl(t, id) PROVE DetailInv'
    BY <1>0, <1>3, <2>4 DEF FreeControl
  <2>5. ASSUME NEW id, NEW kind, FreeOwned(t, id, kind) PROVE DetailInv'
    <3>1. Whole(t, "none") \/ Whole(t, "invalid")
      BY <2>5 DEF FreeOwned
    <3> QED BY <1>0, <1>2, <3>1
  <2> QED BY <1>6, <2>1, <2>2, <2>3, <2>4, <2>5 DEF CallerBegins
<1>7. ASSUME NEW t \in Callers, CallerStep(t) PROVE DetailInv'
  <2>1. CASE \E err \in Reason : Return(t, err) /\ call[t].op # "none"
    BY <1>4, <2>1
  <2>2. CASE UNCHANGED errVars /\ \E at \in Point : Step(t, at)
    BY <1>5, <2>2, StepType
  <2>3. CASE Detach(t)
    <3>1. call[t].e \in Engines /\ UNCHANGED errVars
      BY <2>3 DEF Detach, Clears, In, CallInv, Consistent, Types, Calls
    <3> QED BY <1>5, <2>3, <3>1, DetachType
  <2>4. CASE Admit(t)
    <3>1. call[t].op # "none"
      BY <2>4 DEF Admit, CallInv, Consistent
    <3> QED BY <1>0, <2>1, <2>2, <2>4, <3>1 DEF Admit, Point
  <2>5. CASE Use(t) \/ Stats(t) \/ CreateControl(t) \/ QueryInsert(t) \/ Install(t)
             \/ PageFill(t) \/ DestroyShutdown(t)
    BY <1>0, <2>1, <2>5 DEF Use, Stats, CreateControl, QueryInsert, Install, PageFill,
         DestroyShutdown, Leave, In
  <2>6. CASE QueryStart(t) \/ QueryRun(t) \/ QueryAnswered(t)
    BY <1>0, <2>1, <2>2, <2>6 DEF QueryStart, QueryRun, QueryAnswered, Leave, In, Point
  <2>7. CASE DestroySweep(t) \/ DestroyClose(t) \/ DestroyDrained(t) \/ DestroyPurge(t)
    BY <2>2, <2>7 DEF DestroySweep, DestroyClose, DestroyDrained, DestroyPurge, Point
  <2> QED BY <1>7, <2>3, <2>4, <2>5, <2>6, <2>7 DEF CallerStep
<1>8. CASE \E e \in Engines : Emit(e) \/ VolumeStep(e) \/ CallbackEnters(e) \/ CallbackClears(e)
  BY <1>8 DEF Emit, VolumeStep, Invoke, CallbackLeaves, CallbackReturns, CallbackEnters,
       CallbackClears, DetailInv
<1>9. CASE UNCHANGED vars
  BY <1>9 DEF vars, DetailInv
<1> QED BY <1>6, <1>7, <1>8, <1>9 DEF Next

-----------------------------------------------------------------------------
(* Sinks *)

\* A sink is closed before it is retired, and retired before it is forgotten.
LEMMA SinkInvStep ==
  ASSUME Types, CallInv, IssuedInv, CountInv, SinkInv, [Next]_vars PROVE SinkInv'
<1> USE DEF Types
<1>0. /\ MaxSinks \in Nat /\ None = 0 /\ sinks \in Nat
      /\ \A t \in Callers : call[t].s \in 0 .. MaxSinks
      /\ \A t \in Callers : call[t].op \notin {"none", "page"} => call[t].e \in Engines
      /\ \A e \in Engines : registered[e] \in 0 .. MaxSinks /\ volume[e].s \in 0 .. MaxSinks
      /\ call \in [Callers -> Calls]
  BY FfiAssumption DEF None, Calls, CallInv, Consistent
\* A call that is waiting for a sink was already waiting for it.
<1>1. ASSUME UNCHANGED <<registered, sink, sinks, cbOpen, retired, volume>>,
             NEW t \in Callers, \A u \in Callers \ {t} : call'[u] = call[u],
             call'[t].at = "quiesce" => call[t].at = "quiesce" /\ call'[t].s = call[t].s
      PROVE  SinkInv'
  <2>1. \A u \in Callers : call'[u].at = "quiesce" =>
          call[u].at = "quiesce" /\ call'[u].s = call[u].s
    BY <1>1
  <2> HIDE DEF Types
  <2>2. \A u \in Callers : call'[u].at = "quiesce" /\ call'[u].s # None =>
          /\ call'[u].s <= sinks
          /\ ~cbOpen[call'[u].s] /\ \A e \in Engines : sink[e] # call'[u].s
    BY <2>1 DEF SinkInv
  <2> QED BY <1>1, <2>2 DEF SinkInv
<1>2. ASSUME NEW t \in Callers, CallerBegins(t) \/ CallerStep(t),
             ~Detach(t), ~Install(t), ~DestroyPurge(t), ~DestroyShutdown(t)
      PROVE  SinkInv'
  <2>1. UNCHANGED <<registered, sink, sinks, cbOpen, retired, volume>>
    <3>1. CASE CallerBegins(t)
      BY <3>1 DEF CallerBegins, Begin, DestroyStart, CancelControl, FreeControl, FreeResult,
         PageStart, FreeOwned, cbVars
    <3>2. CASE CallerStep(t)
      BY <1>2, <3>2 DEF CallerStep, Admit, Use, Stats, CreateControl, QueryStart, QueryRun,
         QueryAnswered, QueryInsert, PageFill, DestroySweep, DestroyClose, DestroyDrained, cbVars
    <3> QED BY <1>2, <3>1, <3>2
  <2>2. \A u \in Callers \ {t} : call'[u] = call[u]
    BY <1>2, CallStep DEF OwnStep
  <2>3. call'[t].at = "quiesce" => call[t].at = "quiesce" /\ call'[t].s = call[t].s
    <3>1. CASE CallerBegins(t)
      <4>1. ASSUME NEW c, Enter(t, c) PROVE call'[t] = c
        BY <1>0, <4>1 DEF Enter
      <4>2. ASSUME NEW e, NEW op, NEW ctl, Begin(t, op, e, ctl)
            PROVE  call'[t] = call[t] \/ call'[t].at = "admit"
        BY <4>1, <4>2 DEF Begin, Whole, Quiet
      <4>3. ASSUME NEW e, DestroyStart(t, e)
            PROVE  call'[t] = call[t] \/ call'[t].at = "sweep"
        BY <4>1, <4>3 DEF DestroyStart, Whole, Quiet
      <4>4. ASSUME NEW id, PageStart(t, id)
            PROVE  call'[t] = call[t] \/ call'[t].at = "fill"
        BY <4>1, <4>4 DEF PageStart, Whole, Quiet
      <4>5. CASE \E id : \E kind : CancelControl(t, id) \/ FreeControl(t, id)
                                   \/ FreeResult(t, id) \/ FreeOwned(t, id, kind)
        BY <4>5 DEF CancelControl, FreeControl, FreeResult, FreeOwned, Whole, WholeCleanup
      <4> QED BY <3>1, <4>2, <4>3, <4>4, <4>5 DEF CallerBegins
    <3>2. CASE CallerStep(t)
      <4>1. ASSUME NEW err, Return(t, err) PROVE call'[t].at = "none"
        BY <4>1, ReturnType DEF Quiet
      <4>2. ASSUME NEW at \in Point \ {"quiesce"}, Step(t, at) PROVE call'[t].at # "quiesce"
        BY <4>2, StepType
      <4>3. CASE Admit(t) \/ Use(t) \/ Stats(t) \/ CreateControl(t) \/ QueryInsert(t) \/ PageFill(t)
        BY <4>1, <4>2, <4>3 DEF Admit, Use, Stats, CreateControl, QueryInsert, PageFill, Leave,
           Point
      <4>4. CASE QueryStart(t) \/ QueryRun(t) \/ QueryAnswered(t)
        BY <4>1, <4>2, <4>4 DEF QueryStart, QueryRun, QueryAnswered, Leave, Point
      <4>5. CASE DestroySweep(t) \/ DestroyClose(t) \/ DestroyDrained(t)
        BY <4>2, <4>5 DEF DestroySweep, DestroyClose, DestroyDrained, Point
      <4> QED BY <1>2, <3>2, <4>3, <4>4, <4>5 DEF CallerStep
    <3> QED BY <1>2, <3>1, <3>2
  <2> QED BY <1>1, <2>1, <2>2, <2>3
<1>3. ASSUME NEW t \in Callers, Detach(t) PROVE SinkInv'
  <2>1. call[t].e \in Engines
    BY <1>0, <1>3 DEF Detach, Clears, In
  <2> PICK e \in Engines : e = call[t].e
    BY <2>1
  <2> PICK s \in 0 .. MaxSinks : s = registered[e]
    BY <1>0
  <2>2. /\ sink' = [sink EXCEPT ![e] = None] /\ registered' = [registered EXCEPT ![e] = None]
        /\ UNCHANGED <<sinks, retired, volume>>
    BY <1>3 DEF Detach
  <2>3. \A i \in 1 .. MaxSinks : cbOpen'[i] = (cbOpen[i] /\ i # s)
    BY <1>3 DEF Detach
  <2>4. /\ call'[t].at = "quiesce" /\ call'[t].s = s
        /\ \A u \in Callers \ {t} : call'[u] = call[u]
    BY <1>3, <2>1, DetachType
  <2>5. \A f \in Engines : sink'[f] = IF f = e THEN None ELSE sink[f]
    BY <2>2
  <2>6. sink[e] = s /\ sink' = registered'
    BY <2>2 DEF SinkInv
  <2>7. s # None => s <= sinks /\ ~cbOpen'[s] /\ \A f \in Engines : sink'[f] # s
    <3>1. \A f \in Engines : f # e /\ s # None => sink[f] # s
      BY <2>6 DEF SinkInv
    <3>2. s # None => s \in 1 .. MaxSinks
      BY <1>0
    <3>3. sink[e] <= sinks
      BY DEF SinkInv
    <3>4. s # None => ~cbOpen'[s]
      BY <2>3, <3>2
    <3>5. s # None => \A f \in Engines : sink'[f] # s
      BY <2>5, <3>1
    <3> QED BY <2>6, <3>3, <3>4, <3>5
  <2>8. \A u \in Callers \ {t} : call[u].at = "quiesce" /\ call[u].s # None =>
          /\ call[u].s <= sinks /\ ~cbOpen'[call[u].s] /\ \A f \in Engines : sink'[f] # call[u].s
    <3> TAKE u \in Callers \ {t}
    <3> HAVE call[u].at = "quiesce" /\ call[u].s # None
    <3>1. call[u].s \in 1 .. MaxSinks
      BY <1>0
    <3>2. /\ call[u].s <= sinks /\ ~cbOpen[call[u].s]
          /\ \A f \in Engines : sink[f] # call[u].s
      BY DEF SinkInv
    <3> QED BY <2>3, <2>5, <3>1, <3>2
  <2>9. \A r \in retired : ~cbOpen'[r] /\ \A f \in Engines : sink'[f] # r
    <3> TAKE r \in retired
    <3>1. r \in 1 .. MaxSinks /\ r # None
      BY <1>0 DEF SinkInv
    <3>2. ~cbOpen[r] /\ \A f \in Engines : sink[f] # r
      BY DEF SinkInv
    <3>3. ~cbOpen'[r]
      BY <2>3, <3>1, <3>2
    <3>4. \A f \in Engines : sink'[f] # r
      BY <2>5, <3>1, <3>2
    <3> QED BY <3>3, <3>4
  <2>10. /\ \A f \in Engines : sink'[f] <= sinks
         /\ \A f, g \in Engines : sink'[f] = sink'[g] /\ sink'[f] # None => f = g
         /\ \A i \in 1 .. MaxSinks : i > sinks => ~cbOpen'[i]
    <3>1. \A f \in Engines : sink'[f] <= sinks
      <4>1. ASSUME NEW f \in Engines PROVE sink[f] <= sinks
        BY DEF SinkInv
      <4>2. None <= sinks
        BY <1>0
      <4> QED BY <2>5, <4>1, <4>2
    <3>2. \A f, g \in Engines : sink'[f] = sink'[g] /\ sink'[f] # None => f = g
      BY <2>5 DEF SinkInv
    <3>3. \A i \in 1 .. MaxSinks : i > sinks => ~cbOpen'[i]
      BY <2>3 DEF SinkInv
    <3> QED BY <3>1, <3>2, <3>3
  <2>11. /\ sinks' = sinks /\ retired' = retired /\ retired \subseteq 1 .. sinks
         /\ \A f \in Engines :
              /\ volume'[f].at \in {"cloned"} \cup CallbackAt => volume'[f].s \in 1 .. sinks
              /\ volume'[f].at \in CallbackAt => volume'[f].s \notin retired
    BY <2>2 DEF SinkInv
  <2>12. \A u \in Callers : call'[u].at = "quiesce" /\ call'[u].s # None =>
            /\ call'[u].s <= sinks /\ ~cbOpen'[call'[u].s]
            /\ \A f \in Engines : sink'[f] # call'[u].s
    BY <2>4, <2>7, <2>8
  <2> HIDE DEF Types
  <2> QED BY <2>6, <2>9, <2>10, <2>11, <2>12 DEF SinkInv
<1>4. ASSUME NEW t \in Callers, Quiescent(t), Retire(t), call[t].at = "quiesce"
      PROVE  /\ retired' \subseteq 1 .. sinks
             /\ \A s \in retired' : ~cbOpen[s] /\ \A e \in Engines : sink[e] # s
             /\ \A e \in Engines : volume[e].at \in CallbackAt => volume[e].s \notin retired'
  <2>1. CASE call[t].s = None
    <3>1. retired' = retired
      BY <1>4, <2>1 DEF Retire
    <3> QED BY <3>1 DEF SinkInv
  <2>2. CASE call[t].s # None
    <3> PICK r \in 1 .. MaxSinks : r = call[t].s
      BY <1>0, <2>2
    <3>1. retired' = retired \cup {r} /\ cbIn[r] = 0
      BY <1>4, <2>2 DEF Retire, Quiescent
    <3>2. r \in 1 .. sinks /\ ~cbOpen[r] /\ \A e \in Engines : sink[e] # r
      BY <1>0, <1>4, <2>2 DEF SinkInv
    <3>3. \A e \in Engines : volume[e].at \in CallbackAt => volume[e].s # r
      <4>1. Cardinality(InCallback(r)) = 0 /\ InCallback(r) \subseteq Engines
        BY <3>1 DEF CountInv, InCallback
      <4>2. InCallback(r) = {}
        BY <4>1, FfiAssumption, FS_Subset, FS_EmptySet
      <4> QED BY <4>2 DEF InCallback
    <3> QED BY <3>1, <3>2, <3>3 DEF SinkInv
  <2> QED BY <2>1, <2>2
<1>5. ASSUME NEW t \in Callers, DestroyPurge(t) PROVE SinkInv'
  <2>1. /\ UNCHANGED <<registered, sink, sinks, cbOpen, volume>>
        /\ call[t].at = "quiesce" /\ Quiescent(t) /\ Retire(t) /\ Step(t, "shutdown")
    BY <1>5 DEF DestroyPurge, In
  <2>2. call'[t].at = "shutdown" /\ \A u \in Callers \ {t} : call'[u] = call[u]
    BY <2>1, StepType DEF Point
  <2>3. /\ retired' \subseteq 1 .. sinks
        /\ \A s \in retired' : ~cbOpen[s] /\ \A e \in Engines : sink[e] # s
        /\ \A e \in Engines : volume[e].at \in CallbackAt => volume[e].s \notin retired'
    BY <1>4, <2>1
  <2> HIDE DEF Types
  <2> QED BY <2>1, <2>2, <2>3 DEF SinkInv
<1>6. ASSUME NEW t \in Callers, Install(t) PROVE SinkInv'
  <2>1. /\ UNCHANGED volume
        /\ call[t].at = "quiesce" /\ Quiescent(t) /\ Retire(t) /\ Return(t, "none")
    BY <1>6 DEF Install, In, Leave
  <2>2. call'[t].at = "none" /\ \A u \in Callers \ {t} : call'[u] = call[u]
    BY <2>1, ReturnType DEF Quiet
  <2>3. /\ retired' \subseteq 1 .. sinks
        /\ \A s \in retired' : ~cbOpen[s] /\ \A e \in Engines : sink[e] # s
        /\ \A e \in Engines : volume[e].at \in CallbackAt => volume[e].s \notin retired'
    BY <1>4, <2>1
  <2>4. CASE UNCHANGED <<sinks, cbOpen, sink, registered>>
    <3> HIDE DEF Types
    <3> QED BY <2>1, <2>2, <2>3, <2>4 DEF SinkInv
  <2>5. CASE /\ sinks < MaxSinks /\ sinks' = sinks + 1
             /\ cbOpen' = [cbOpen EXCEPT ![sinks + 1] = TRUE]
             /\ sink' = [sink EXCEPT ![call[t].e] = sinks + 1]
             /\ registered' = [registered EXCEPT ![call[t].e] = sinks + 1]
    <3>1. call[t].e \in Engines
      BY <1>0, <1>6 DEF Install, In
    <3> PICK e \in Engines : e = call[t].e
      BY <3>1
    <3> PICK n \in 1 .. MaxSinks : n = sinks + 1 /\ n > sinks
      BY <1>0, <2>5
    <3>2. \A f \in Engines : sink'[f] = IF f = e THEN n ELSE sink[f]
      BY <2>5
    <3>3. \A i \in 1 .. MaxSinks : cbOpen'[i] = IF i = n THEN TRUE ELSE cbOpen[i]
      BY <2>5
    <3>4. \A f \in Engines : sink[f] <= sinks /\ sink[f] # n /\ sink[f] \in Nat
      BY <1>0 DEF SinkInv
    <3>5. \A s \in retired' : s \in 1 .. MaxSinks /\ s \in 1 .. sinks' /\ s # n
      BY <1>0, <2>3, <2>5
    <3>6. \A u \in Callers \ {t} : call[u].at = "quiesce" /\ call[u].s # None =>
             call[u].s \in 1 .. MaxSinks /\ call[u].s <= sinks /\ call[u].s # n
      BY <1>0 DEF SinkInv
    <3>7. \A u \in Callers : call'[u].at = "quiesce" /\ call'[u].s # None =>
            /\ call'[u].s <= sinks' /\ ~cbOpen'[call'[u].s]
            /\ \A f \in Engines : sink'[f] # call'[u].s
      <4>1. SUFFICES ASSUME NEW u \in Callers \ {t}, call[u].at = "quiesce", call[u].s # None
                     PROVE  /\ call[u].s <= sinks' /\ ~cbOpen'[call[u].s]
                            /\ \A f \in Engines : sink'[f] # call[u].s
        BY <2>2
      <4>2. call[u].s \in 1 .. MaxSinks /\ call[u].s <= sinks /\ call[u].s # n
        BY <3>6, <4>1
      <4>3. ~cbOpen[call[u].s] /\ \A f \in Engines : sink[f] # call[u].s
        BY <4>1 DEF SinkInv
      <4>4. call[u].s <= sinks'
        BY <1>0, <2>5, <4>2
      <4> QED BY <3>2, <3>3, <4>2, <4>3, <4>4
    <3>8. \A f, g \in Engines : sink'[f] = sink'[g] /\ sink'[f] # None => f = g
      <4>1. \A f, g \in Engines : sink[f] = sink[g] /\ sink[f] # None => f = g
        BY DEF SinkInv
      <4>2. n # None
        BY <1>0
      <4> QED BY <3>2, <3>4, <4>1, <4>2
    <3>9. \A f \in Engines : sink'[f] <= sinks'
      BY <1>0, <2>5, <3>2, <3>4
    <3>10. \A i \in 1 .. MaxSinks : i > sinks' => ~cbOpen'[i]
      BY <1>0, <2>5, <3>3 DEF SinkInv
    <3>11. \A s \in retired' : ~cbOpen'[s] /\ \A f \in Engines : sink'[f] # s
      BY <2>3, <3>2, <3>3, <3>5
    <3>12. \A f \in Engines :
             /\ volume'[f].at \in {"cloned"} \cup CallbackAt => volume'[f].s \in 1 .. sinks'
             /\ volume'[f].at \in CallbackAt => volume'[f].s \notin retired'
      <4>1. \A i \in 1 .. sinks : i \in 1 .. sinks'
        BY <1>0, <2>5
      <4> QED BY <2>1, <2>3, <4>1 DEF SinkInv
    <3>13. sink' = registered' /\ retired' \subseteq 1 .. sinks'
      BY <2>5, <3>5 DEF SinkInv
    <3> HIDE DEF Types
    <3> QED BY <3>7, <3>8, <3>9, <3>10, <3>11, <3>12, <3>13 DEF SinkInv
  <2> QED BY <1>6, <2>4, <2>5 DEF Install
\* A volume thread that moves on keeps the sink it had, takes the engine's, or drops it.
<1>7. ASSUME UNCHANGED <<registered, sink, sinks, cbOpen, retired, call>>, NEW e \in Engines,
             \A f \in Engines \ {e} : volume'[f] = volume[f],
             volume'[e].at \in {"cloned"} \cup CallbackAt => volume'[e].s \in 1 .. sinks,
             volume'[e].at \in CallbackAt => volume'[e].s \notin retired
      PROVE  SinkInv'
  <2> HIDE DEF Types
  <2> QED BY <1>7 DEF SinkInv
<1>8. ASSUME NEW e \in Engines, Emit(e) PROVE SinkInv'
  <2>1. /\ UNCHANGED <<registered, sink, sinks, cbOpen, retired, call>> /\ sink[e] # None
        /\ volume' = [volume EXCEPT ![e] = [at |-> "cloned", s |-> sink[e]]]
    BY <1>8 DEF Emit, cbVars
  <2>2. /\ volume'[e].at = "cloned" /\ volume'[e].s = sink[e]
        /\ \A f \in Engines \ {e} : volume'[f] = volume[f]
    BY <2>1, VolumeTakes DEF VolumeAt
  <2>3. sink[e] \in 1 .. sinks
    BY <1>0, <2>1 DEF SinkInv
  <2> QED BY <1>7, <2>1, <2>2, <2>3 DEF CallbackAt
<1>9. ASSUME NEW e \in Engines, Invoke(e) PROVE SinkInv'
  <2>1. UNCHANGED <<registered, sink, sinks, cbOpen, retired, call>> /\ volume[e].at = "cloned"
    BY <1>9 DEF Invoke
  <2>2. CASE cbOpen[volume[e].s]
    <3>1. volume' = [volume EXCEPT ![e].at = "callback"]
      BY <1>9, <2>2 DEF Invoke
    <3>2. /\ volume'[e].at = "callback" /\ volume'[e].s = volume[e].s
          /\ \A f \in Engines \ {e} : volume'[f] = volume[f]
      BY <3>1, VolumeMoves DEF VolumeAt
    <3>3. volume[e].s \in 1 .. sinks /\ volume[e].s \notin retired
      BY <2>1, <2>2 DEF SinkInv
    <3> QED BY <1>7, <2>1, <3>2, <3>3
  <2>3. CASE ~cbOpen[volume[e].s]
    <3>1. volume' = [volume EXCEPT ![e] = [at |-> "run", s |-> None]]
      BY <1>9, <2>3 DEF Invoke
    <3>2. volume'[e].at = "run" /\ \A f \in Engines \ {e} : volume'[f] = volume[f]
      <4>1. None \in 0 .. MaxSinks
        BY <1>0
      <4> QED BY <3>1, <4>1, VolumeTakes DEF VolumeAt
    <3> QED BY <1>7, <2>1, <3>2 DEF CallbackAt
  <2> QED BY <2>2, <2>3
<1>10. ASSUME NEW e \in Engines, CallbackReturns(e) PROVE SinkInv'
  <2>1. /\ UNCHANGED <<registered, sink, sinks, cbOpen, retired, call>>
        /\ volume' = [volume EXCEPT ![e] = [at |-> "run", s |-> None]]
    BY <1>10 DEF CallbackReturns
  <2>2. volume'[e].at = "run" /\ \A f \in Engines \ {e} : volume'[f] = volume[f]
    <3>1. None \in 0 .. MaxSinks
      BY <1>0
    <3> QED BY <2>1, <3>1, VolumeTakes DEF VolumeAt
  <2> QED BY <1>7, <2>1, <2>2 DEF CallbackAt
<1>11. ASSUME NEW e \in Engines, NEW at \in VolumeAt,
              UNCHANGED <<registered, sink, sinks, cbOpen, retired, call>>,
              volume[e].at \in CallbackAt \/ at = "ended",
              volume' = [volume EXCEPT ![e].at = at]
       PROVE  SinkInv'
  <2>1. /\ volume'[e].at = at /\ volume'[e].s = volume[e].s
        /\ \A f \in Engines \ {e} : volume'[f] = volume[f]
    BY <1>11, VolumeMoves
  <2>2. volume[e].at \in CallbackAt => volume[e].s \in 1 .. sinks /\ volume[e].s \notin retired
    BY DEF SinkInv
  <2>3. "ended" \notin {"cloned"} \cup CallbackAt
    BY DEF CallbackAt
  <2> QED BY <1>7, <1>11, <2>1, <2>2, <2>3
<1>12. ASSUME NEW e \in Engines, CallbackEnters(e) \/ CallbackLeaves(e) \/ CallbackClears(e)
       PROVE  SinkInv'
  <2>1. /\ UNCHANGED <<registered, sink, sinks, cbOpen, retired, call>>
        /\ volume[e].at \in CallbackAt
        /\ \E at \in VolumeAt : volume' = [volume EXCEPT ![e].at = at]
    BY <1>12, Zenon DEF CallbackEnters, CallbackLeaves, CallbackClears, cbVars, CallbackAt, VolumeAt
  <2> QED BY <1>11, <2>1
<1>13. ASSUME NEW t \in Callers, DestroyShutdown(t) PROVE SinkInv'
  <2>1. UNCHANGED <<registered, sink, sinks, cbOpen, retired>> /\ Return(t, "none")
    BY <1>13 DEF DestroyShutdown, cbVars
  <2>2. call'[t].at = "none" /\ \A u \in Callers \ {t} : call'[u] = call[u]
    BY <2>1, ReturnType DEF Quiet
  <2>3. /\ call[t].e \in Engines
        /\ volume' = [volume EXCEPT ![call[t].e].at = "ended"]
    BY <1>0, <1>13 DEF DestroyShutdown, In
  <2>4. /\ volume'[call[t].e].at = "ended"
        /\ \A f \in Engines \ {call[t].e} : volume'[f] = volume[f]
    BY <2>3, VolumeMoves DEF VolumeAt
  <2>5. \A f \in Engines :
          /\ volume'[f].at \in {"cloned"} \cup CallbackAt => volume'[f].s \in 1 .. sinks
          /\ volume'[f].at \in CallbackAt => volume'[f].s \notin retired
    BY <2>3, <2>4 DEF SinkInv, CallbackAt
  <2> HIDE DEF Types
  <2> QED BY <2>1, <2>2, <2>5 DEF SinkInv
<1>14. CASE UNCHANGED vars
  <2> HIDE DEF Types
  <2> QED BY <1>14 DEF vars, cbVars, SinkInv
<1> QED BY <1>2, <1>3, <1>5, <1>6, <1>8, <1>9, <1>10, <1>12, <1>13, <1>14 DEF Next, VolumeStep

-----------------------------------------------------------------------------
(* Destruction *)

\* A registry without entries of an engine gets none but by entering one.
LEMMA EngineGone ==
  ASSUME NEW f, NEW g, NEW e, \A i \in DOMAIN f : f[i] # e
  PROVE  /\ \A i, v : v # e /\ g = With(f, i, v) => \A j \in DOMAIN g : g[j] # e
         /\ \A ids : g = Without(f, ids) => \A j \in DOMAIN g : g[j] # e
<1>1. ASSUME NEW i, NEW v, v # e, g = With(f, i, v), NEW j \in DOMAIN g PROVE g[j] # e
  <2>1. DOMAIN g = DOMAIN f \cup {i} /\ g[j] = IF j = i THEN v ELSE f[j]
    BY <1>1 DEF With
  <2> QED BY <1>1, <2>1
<1>2. ASSUME NEW ids, g = Without(f, ids), NEW j \in DOMAIN g PROVE g[j] # e
  <2>1. DOMAIN g = DOMAIN f \ ids /\ g[j] = f[j]
    BY <1>2 DEF Without
  <2> QED BY <1>2, <2>1
<1> QED BY <1>1, <1>2

\* The admitted calls are the counted ones.
LEMMA AdmittedCounted ==
  ASSUME NEW e
  PROVE  /\ Admitted(e) = {} <=> \A t \in Callers : ~Counted(call[t], e)
         /\ Admitted(e)' = {} <=> \A t \in Callers : ~Counted(call'[t], e)
  BY DEF Admitted, Counted

\* An engine that refuses calls never accepts one again.
LEMMA AcceptingFalls ==
  ASSUME Types, [Next]_vars, NEW e \in Engines, ~accepting[e] PROVE ~accepting'[e]
<1>1. CASE \E t \in Callers : DestroyClose(t)
  BY <1>1 DEF DestroyClose, Types
<1>2. CASE \E t \in Callers : \E f \in Engines : DestroyStart(t, f)
  BY <1>2 DEF DestroyStart
<1>3. CASE \E t \in Callers : \/ Admit(t) \/ Use(t) \/ Stats(t) \/ CreateControl(t)
             \/ QueryStart(t) \/ QueryRun(t) \/ QueryAnswered(t) \/ QueryInsert(t)
             \/ Install(t) \/ DestroyShutdown(t)
  BY <1>3 DEF Admit, Use, Stats, CreateControl, QueryStart, QueryRun, QueryAnswered,
     QueryInsert, Install, DestroyShutdown
<1>4. CASE \E f \in Engines : CallbackEnters(f) \/ CallbackLeaves(f)
  BY <1>4 DEF CallbackEnters, CallbackLeaves
<1>5. CASE ~Lives
  BY <1>5, LifeFrame DEF lifeVars
<1> QED BY <1>1, <1>2, <1>3, <1>4, <1>5 DEF Lives

\* A drained engine is entered by nobody.
LEMMA StaysEmpty ==
  ASSUME Types, CallInv, IssuedInv, [Next]_vars, NEW e \in Engines, ~accepting[e],
         Admitted(e) = {}
  PROVE  Admitted(e)' = {}
<1>1. ASSUME NEW t \in Callers, CallerBegins(t) \/ CallerStep(t) PROVE Admitted(e)' = {}
  <2>1. \A u \in Callers : ~Counted(call[u], e)
    BY AdmittedCounted
  <2>2. ~Counted(call'[t], e)
    <3>1. ASSUME Counted(call'[t], e) PROVE call'[t] # Quiet /\ call'[t].e = e
      BY <3>1 DEF Counted, Quiet
    <3> QED BY <1>1, <2>1, <3>1, CountedStep
  <2>3. \A u \in Callers \ {t} : call'[u] = call[u]
    BY <1>1, CallStep DEF OwnStep
  <2>4. \A u \in Callers : ~Counted(call'[u], e)
    BY <2>1, <2>2, <2>3
  <2> QED BY <2>4, AdmittedCounted
<1>2. CASE \A t \in Callers : ~(CallerBegins(t) \/ CallerStep(t))
  BY <1>2, CallFrame DEF Admitted
<1> QED BY <1>1, <1>2

\* Of a drained engine no call is left to make a control or a result, or to
\* install a callback.
LEMMA DrainedStays ==
  ASSUME Types, CallInv, IssuedInv, [Next]_vars, NEW e \in Engines, Drained(e)
  PROVE  /\ Drained(e)'
         /\ NoResults(e) => NoResults(e)'
         /\ sink[e] = None => sink'[e] = None
<1>1. ~accepting'[e] /\ Admitted(e)' = {} /\ \A t \in Callers : ~Counted(call[t], e)
  BY AcceptingFalls, StaysEmpty, AdmittedCounted DEF Drained
<1>2. volume'[e].at # "callback in call"
  <2>1. ASSUME NEW t \in Callers, CallerBegins(t) \/ CallerStep(t)
        PROVE  volume'[e].at # "callback in call"
    BY <2>1, CallerLeavesVolume DEF Drained
  <2>2. ASSUME NEW f \in Engines, CallbackEnters(f) PROVE volume'[e].at # "callback in call"
    <3>1. e # f /\ volume' = [volume EXCEPT ![f].at = "callback in call"]
      BY <2>2 DEF CallbackEnters, Drained
    <3> QED BY <3>1, VolumeMoves DEF VolumeAt, Drained
  <2>3. ASSUME NEW f \in Engines, NEW at \in VolumeAt \ {"callback in call"},
               volume' = [volume EXCEPT ![f].at = at]
        PROVE  volume'[e].at # "callback in call"
    BY <2>3, VolumeMoves DEF Drained
  <2>4. ASSUME NEW f \in Engines, NEW at \in VolumeAt \ {"callback in call"},
               NEW s \in 0 .. MaxSinks,
               volume' = [volume EXCEPT ![f] = [at |-> at, s |-> s]]
        PROVE  volume'[e].at # "callback in call"
    BY <2>4, VolumeTakes DEF Drained
  <2>5. None \in 0 .. MaxSinks /\ \A f \in Engines : sink[f] \in 0 .. MaxSinks
    BY FfiAssumption DEF None, Types
  <2>6. ASSUME NEW f \in Engines, Emit(f) \/ Invoke(f) \/ CallbackReturns(f)
                                  \/ CallbackLeaves(f) \/ CallbackClears(f)
        PROVE  volume'[e].at # "callback in call"
    BY <2>3, <2>4, <2>5, <2>6 DEF Emit, Invoke, CallbackReturns, CallbackLeaves,
         CallbackClears, VolumeAt
  <2>7. CASE UNCHANGED vars
    BY <2>7 DEF vars, Drained
  <2> QED BY <2>1, <2>2, <2>6, <2>7 DEF Next, VolumeStep
<1>3. \A i \in DOMAIN controls' : controls'[i] # e
  <2>1. CASE \E t \in Callers : CreateControl(t)
    <3>1. PICK t \in Callers : CreateControl(t)
      BY <2>1
    <3>2. Counted(call[t], call[t].e) /\ controls' = With(controls, nextId, call[t].e)
      BY <3>1 DEF CreateControl, In, Counted
    <3>3. call[t].e # e
      BY <1>1, <3>2
    <3> QED BY <3>2, <3>3, EngineGone DEF Drained
  <2>2. CASE controls' = controls \/ \E ids : controls' = Without(controls, ids)
    BY <2>2, EngineGone DEF Drained
  <2>3. CASE ~Registers
    BY <2>2, <2>3, RegistryFrame DEF regVars
  <2>4. ASSUME NEW t \in Callers,
               \/ Stats(t) \/ QueryInsert(t) \/ PageFill(t)
               \/ DestroySweep(t) \/ DestroyDrained(t) \/ DestroyPurge(t)
        PROVE  controls' = controls \/ \E ids : controls' = Without(controls, ids)
    BY <2>4 DEF Stats, QueryInsert, PageFill, DestroySweep, DestroyDrained, DestroyPurge,
       SweepControls
  <2>5. ASSUME NEW t \in Callers, NEW id, NEW kind,
               \/ CancelControl(t, id) \/ FreeControl(t, id) \/ FreeResult(t, id)
               \/ FreeOwned(t, id, kind)
        PROVE  controls' = controls \/ \E ids : controls' = Without(controls, ids)
    BY <2>5 DEF CancelControl, FreeControl, FreeResult, FreeOwned
  <2> QED BY <2>1, <2>2, <2>3, <2>4, <2>5 DEF Registers
<1>4. ASSUME NoResults(e) PROVE \A i \in DOMAIN results' : results'[i] # e
  <2>1. CASE \E t \in Callers : QueryInsert(t)
    <3>1. PICK t \in Callers : QueryInsert(t)
      BY <2>1
    <3>2. Counted(call[t], call[t].e) /\ results' = With(results, nextId, call[t].e)
      BY <3>1 DEF QueryInsert, In, Counted
    <3>3. call[t].e # e
      BY <1>1, <3>2
    <3> QED BY <1>4, <3>2, <3>3, EngineGone DEF NoResults
  <2>2. CASE results' = results \/ \E ids : results' = Without(results, ids)
    BY <1>4, <2>2, EngineGone DEF NoResults
  <2>3. CASE ~Registers
    BY <2>2, <2>3, RegistryFrame DEF regVars
  <2>4. ASSUME NEW t \in Callers,
               \/ Stats(t) \/ CreateControl(t) \/ PageFill(t)
               \/ DestroySweep(t) \/ DestroyDrained(t) \/ DestroyPurge(t)
        PROVE  results' = results \/ \E ids : results' = Without(results, ids)
    BY <2>4 DEF Stats, CreateControl, PageFill, DestroySweep, DestroyDrained, DestroyPurge
  <2>5. ASSUME NEW t \in Callers, NEW id, NEW kind,
               \/ CancelControl(t, id) \/ FreeControl(t, id) \/ FreeResult(t, id)
               \/ FreeOwned(t, id, kind)
        PROVE  results' = results \/ \E ids : results' = Without(results, ids)
    BY <2>5 DEF CancelControl, FreeControl, FreeResult, FreeOwned
  <2> QED BY <2>1, <2>2, <2>3, <2>4, <2>5 DEF Registers
<1>5. ASSUME sink[e] = None PROVE sink'[e] = None
  <2>1. ASSUME NEW t \in Callers, Install(t) PROVE sink'[e] = None
    <3>1. Counted(call[t], call[t].e)
      BY <2>1 DEF Install, In, Counted
    <3>2. call[t].e # e
      BY <1>1, <3>1
    <3> QED BY <1>5, <2>1, <3>2 DEF Install, Types
  <2>2. ASSUME NEW t \in Callers, Detach(t) PROVE sink'[e] = None
    <3>1. sink' = [sink EXCEPT ![call[t].e] = None]
      BY <2>2 DEF Detach
    <3> QED BY <1>5, <3>1 DEF Types
  <2>3. CASE \E t \in Callers : DestroyPurge(t) \/ DestroyShutdown(t)
    BY <1>5, <2>3 DEF DestroyPurge, DestroyShutdown, cbVars
  <2>4. CASE \E f \in Engines : Emit(f) \/ VolumeStep(f) \/ CallbackEnters(f) \/ CallbackClears(f)
    BY <1>5, <2>4 DEF Emit, VolumeStep, Invoke, CallbackLeaves, CallbackReturns,
       CallbackEnters, CallbackClears, cbVars
  <2>5. CASE ~Dispatches
    BY <1>5, <2>5, CallbackFrame DEF cbVars
  <2> QED BY <2>1, <2>2, <2>3, <2>4, <2>5 DEF Dispatches
<1> QED BY <1>1, <1>2, <1>3, <1>4, <1>5 DEF Drained, NoResults

\* A volume thread that has ended stays so.
LEMMA EndedStays ==
  ASSUME Types, CallInv, [Next]_vars, NEW e \in Engines, volume[e].at = "ended"
  PROVE  volume'[e].at = "ended"
<1>1. ASSUME NEW f \in Engines, volume[f].at # "ended",
             \A g \in Engines \ {f} : volume'[g] = volume[g]
      PROVE  volume'[e].at = "ended"
  BY <1>1
<1>2. None \in 0 .. MaxSinks /\ \A f \in Engines : sink[f] \in 0 .. MaxSinks
  BY FfiAssumption DEF None, Types
<1>3. ASSUME NEW f \in Engines, Emit(f) \/ VolumeStep(f) \/ CallbackEnters(f) \/ CallbackClears(f)
      PROVE  volume'[e].at = "ended"
  <2>1. volume[f].at # "ended"
    BY <1>3 DEF Emit, VolumeStep, Invoke, CallbackLeaves, CallbackReturns, CallbackEnters,
       CallbackClears
  <2>2. \/ \E at \in VolumeAt : volume' = [volume EXCEPT ![f].at = at]
        \/ \E at \in VolumeAt, s \in 0 .. MaxSinks :
              volume' = [volume EXCEPT ![f] = [at |-> at, s |-> s]]
    BY <1>2, <1>3 DEF Emit, VolumeStep, Invoke, CallbackLeaves, CallbackReturns,
       CallbackEnters, CallbackClears, VolumeAt
  <2> QED BY <1>1, <2>1, <2>2, VolumeMoves, VolumeTakes
<1>4. ASSUME NEW t \in Callers, DestroyShutdown(t) PROVE volume'[e].at = "ended"
  <2>1. /\ call[t].e \in Engines /\ volume[call[t].e].at # "ended"
        /\ volume' = [volume EXCEPT ![call[t].e].at = "ended"]
    BY <1>4 DEF DestroyShutdown, In, CallInv, Consistent, Types, Calls
  <2> QED BY <1>1, <2>1, VolumeMoves DEF VolumeAt
<1>5. CASE \E t \in Callers : Detach(t) \/ Install(t) \/ DestroyPurge(t)
  BY <1>5 DEF Detach, Install, DestroyPurge
<1>6. CASE ~Dispatches
  BY <1>6, CallbackFrame
<1> QED BY <1>3, <1>4, <1>5, <1>6 DEF Dispatches

\* Which engines are live and which are down changes at both ends of a destruction.
LEMMA LiveAndDown ==
  ASSUME [Next]_vars
  PROVE  /\ live' \subseteq live
         /\ (\A t \in Callers : ~DestroyShutdown(t)) => down' = down
<1>1. CASE \E t \in Callers : \/ DestroyClose(t) \/ DestroyShutdown(t)
                              \/ \E e \in Engines : DestroyStart(t, e)
  BY <1>1 DEF DestroyClose, DestroyShutdown, DestroyStart
<1>2. CASE \E t \in Callers : \/ Admit(t) \/ Use(t) \/ Stats(t) \/ CreateControl(t)
             \/ QueryStart(t) \/ QueryRun(t) \/ QueryAnswered(t) \/ QueryInsert(t) \/ Install(t)
  BY <1>2 DEF Admit, Use, Stats, CreateControl, QueryStart, QueryRun, QueryAnswered,
     QueryInsert, Install
<1>3. CASE \E f \in Engines : CallbackEnters(f) \/ CallbackLeaves(f)
  BY <1>3 DEF CallbackEnters, CallbackLeaves
<1>4. CASE ~Lives
  BY <1>4, LifeFrame DEF lifeVars
<1> QED BY <1>1, <1>2, <1>3, <1>4 DEF Lives

\* A caller that is not destroying does not come to, but through DestroyStart.
LEMMA DestroysKeep ==
  ASSUME Types, CallInv, NEW t \in Callers, CallerBegins(t) \/ CallerStep(t),
         \A e \in Engines : ~DestroyStart(t, e), call'[t].op = "destroy"
  PROVE  /\ call[t].op = "destroy" /\ call'[t].e = call[t].e
         /\ \/ DestroySweep(t) \/ DestroyClose(t) \/ DestroyDrained(t) \/ Detach(t)
            \/ DestroyPurge(t) \/ call'[t] = call[t]
<1>0. call \in [Callers -> Calls] /\ Quiet.op = "none" /\ None \notin Engines
  BY FfiAssumption DEF Types, Quiet
<1>1. CASE CallerBegins(t)
  <2>1. ASSUME NEW c, Enter(t, c) PROVE call'[t] = c
    BY <1>0, <2>1 DEF Enter
  <2>2. ASSUME NEW e, NEW op, NEW ctl, Begin(t, op, e, ctl), op # "destroy"
        PROVE  call'[t] = call[t]
    <3>1. [Quiet EXCEPT !.op = op, !.at = "admit", !.e = e, !.ctl = ctl].op = op
      BY DEF Quiet
    <3> QED BY <2>1, <2>2, <3>1 DEF Begin, Whole
  <2>3. ASSUME NEW id, PageStart(t, id) PROVE call'[t] = call[t]
    <3>1. [Quiet EXCEPT !.op = "page", !.at = "fill"].op = "page"
      BY DEF Quiet
    <3> QED BY <2>1, <2>3, <3>1 DEF PageStart, Whole
  <2>5. call'[t] = call[t]
    <3>1. CASE \E e \in Engines : \E op \in {"use", "stats", "control", "callback"} :
                 Begin(t, op, e, None)
      BY <2>2, <3>1
    <3>2. CASE \E e \in Engines : \E c \in DOMAIN controls : Begin(t, "query", e, c)
      BY <2>2, <3>2
    <3>3. CASE \E id \in Handles : PageStart(t, id)
      BY <2>3, <3>3
    <3>4. CASE \E id \in Handles : CancelControl(t, id) \/ FreeControl(t, id) \/ FreeResult(t, id)
      BY <3>4 DEF CancelControl, FreeControl, FreeResult, Whole, WholeCleanup
    <3>5. CASE \E id \in 1 .. MaxOwned : \E kind \in {"page", "blob"} : FreeOwned(t, id, kind)
      BY <3>5 DEF FreeOwned, Whole
    <3> QED BY <1>1, <3>1, <3>2, <3>3, <3>4, <3>5 DEF CallerBegins
  <2> QED BY <2>5
<1>2. CASE CallerStep(t)
  <2>1. ASSUME NEW err, Return(t, err) PROVE FALSE
    BY <1>0, <2>1, ReturnType
  <2>2. CASE \E at \in Point : Step(t, at)
    <3>1. call'[t].op = call[t].op /\ call'[t].e = call[t].e
      BY <2>2, StepType
    <3>2. call[t].op = "destroy" /\ call[t].at \notin {"admit", "run", "answer", "insert"}
      BY <3>1 DEF CallInv, Consistent
    <3> QED BY <1>2, <2>1, <3>1, <3>2 DEF CallerStep, Admit, Use, Stats, CreateControl,
          QueryStart, QueryRun, QueryAnswered, QueryInsert, PageFill, Install,
          DestroyShutdown, Leave, In
  <2>3. CASE Detach(t)
    <3>1. call[t].e \in Engines
      BY <1>0, <2>3 DEF Detach, Clears, In, CallInv, Consistent, Calls
    <3> QED BY <2>3, <3>1, DetachType
  <2>4. CASE ~Detach(t) /\ ~ \E at \in Point : Step(t, at)
    BY <1>2, <2>1, <2>4 DEF CallerStep, Admit, Use, Stats, CreateControl, QueryStart,
       QueryRun, QueryAnswered, QueryInsert, PageFill, Install, DestroySweep, DestroyClose,
       DestroyDrained, DestroyPurge, DestroyShutdown, Leave, Point
  <2> QED BY <2>2, <2>3, <2>4
<1> QED BY <1>1, <1>2

\* Each step of a destruction makes its part final, and no other step undoes it.
LEMMA DestroyInvStep ==
  ASSUME Types, CallInv, IssuedInv, CountInv, DestroyInv, [Next]_vars PROVE DestroyInv'
<1>1. ASSUME NEW e \in Engines, Drained(e), sink[e] = None, NoResults(e), volume[e].at = "ended"
      PROVE  Drained(e)' /\ sink'[e] = None /\ NoResults(e)' /\ volume'[e].at = "ended"
  BY <1>1, DrainedStays, EndedStays
<1>2. \A t \in Callers : call[t].op = "destroy" => call[t].e \in Engines
  BY DEF CallInv, Consistent, Types, Calls
<1>3. ASSUME NEW t \in Callers, call[t].op = "destroy", call'[t] = call[t], call[t].e \notin down'
      PROVE  Final(call[t])'
  <2> PICK e \in Engines : e = call[t].e
    BY <1>2, <1>3
  <2>1. Final(call[t]) /\ live' \subseteq live
    BY <1>3, LiveAndDown DEF DestroyInv
  <2>2. ~accepting[e] => ~accepting'[e]
    BY AcceptingFalls
  <2>3. Drained(e) => /\ Drained(e)' /\ (NoResults(e) => NoResults(e)')
                      /\ (sink[e] = None => sink'[e] = None)
    BY DrainedStays
  <2> QED BY <1>3, <2>1, <2>2, <2>3 DEF Final
<1>4. ASSUME NEW t \in Callers, \A u \in Callers \ {t} : call'[u] = call[u], down' = down,
             call'[t].op = "destroy" =>
               /\ call[t].op = "destroy" /\ call'[t].e = call[t].e /\ Final(call[t])'
      PROVE  DestroyInv'
  <2>1. live' \cap down' = {}
    BY <1>4, LiveAndDown DEF DestroyInv
  <2>2. \A e \in down' : /\ Drained(e)' /\ sink'[e] = None /\ NoResults(e)'
                         /\ volume'[e].at = "ended"
    BY <1>1, <1>4 DEF DestroyInv, Types
  <2>3. \A u \in Callers : call'[u].op = "destroy" => Final(call[u])'
    <3>1. ASSUME NEW u \in Callers \ {t}, call'[u].op = "destroy" PROVE Final(call[u])'
      <4>1. call'[u] = call[u] /\ call[u].op = "destroy" /\ call[u].e \notin down'
        BY <1>4, <3>1 DEF DestroyInv, Final
      <4> QED BY <1>3, <4>1
    <3> QED BY <1>4, <3>1
  <2>4. \A u, v \in Callers :
          call'[u].op = "destroy" /\ call'[v].op = "destroy" /\ call'[u].e = call'[v].e => u = v
    <3>1. \A u \in Callers : call'[u].op = "destroy" =>
            call[u].op = "destroy" /\ call'[u].e = call[u].e
      BY <1>4
    <3> QED BY <3>1 DEF DestroyInv
  <2> QED BY <2>1, <2>2, <2>3, <2>4 DEF DestroyInv
<1>5. ASSUME NEW t \in Callers, CallerBegins(t) \/ CallerStep(t)
      PROVE  \A u \in Callers \ {t} : call'[u] = call[u]
  BY <1>5, CallStep DEF OwnStep
<1>6. ASSUME NEW t \in Callers, CallerBegins(t) \/ CallerStep(t), down' = down,
             \A e \in Engines : ~DestroyStart(t, e),
             call'[t].op = "destroy" /\ call[t].op = "destroy" => Final(call[t])'
      PROVE  DestroyInv'
  BY <1>4, <1>5, <1>6, DestroysKeep
<1>7. ASSUME NEW t \in Callers, DestroySweep(t) PROVE DestroyInv'
  <2>1. /\ call[t].op = "destroy" /\ call[t].at = "sweep" /\ down' = down
        /\ Step(t, "close") /\ CallerStep(t)
    BY <1>7 DEF DestroySweep, In, lifeVars, CallerStep
  <2>2. call'[t].at = "close" /\ call'[t].e = call[t].e /\ call'[t].op = "destroy"
    BY <2>1, StepType DEF Point
  <2>3. Final(call[t])'
    BY <2>1, <2>2, LiveAndDown DEF Final, DestroyInv
  <2> QED BY <1>4, <1>5, <2>1, <2>2, <2>3
<1>8. ASSUME NEW t \in Callers, DestroyClose(t) PROVE DestroyInv'
  <2>1. /\ call[t].op = "destroy" /\ call[t].at = "close" /\ down' = down
        /\ Step(t, "drain") /\ CallerStep(t)
        /\ accepting' = [accepting EXCEPT ![call[t].e] = FALSE]
    BY <1>8 DEF DestroyClose, In, CallerStep
  <2>2. call'[t].at = "drain" /\ call'[t].e = call[t].e /\ call'[t].op = "destroy"
    BY <2>1, StepType DEF Point
  <2>3. ~accepting'[call[t].e]
    BY <1>2, <2>1 DEF Types
  <2>4. Final(call[t])'
    BY <2>1, <2>2, <2>3, LiveAndDown DEF Final, DestroyInv
  <2> QED BY <1>4, <1>5, <2>1, <2>2, <2>4
<1>9. ASSUME NEW t \in Callers, DestroyDrained(t) PROVE DestroyInv'
  <2>1. /\ call[t].op = "destroy" /\ call[t].at = "drain" /\ UNCHANGED <<accepting, down, volume>>
        /\ Step(t, "clear") /\ CallerStep(t) /\ inFlight[call[t].e] = 0
        /\ SweepControls(call[t].e)
    BY <1>9 DEF DestroyDrained, In, CallerStep, lifeVars
  <2>2. call'[t].at = "clear" /\ call'[t].e = call[t].e /\ call'[t].op = "destroy"
    BY <2>1, StepType DEF Point
  <2> PICK e \in Engines : e = call[t].e
    BY <1>2, <2>1
  <2>3. ~accepting[e] /\ ~accepting'[e]
    BY <2>1 DEF DestroyInv, Final
  <2>4. Admitted(e) = {} /\ volume[e].at # "callback in call"
    <3>1. IsFiniteSet(Admitted(e)) /\ Cardinality(Admitted(e)) \in Nat
      BY AdmittedFinite
    <3>2. InCall(volume[e]) \in {0, 1} /\ (volume[e].at = "callback in call" => InCall(volume[e]) = 1)
      BY DEF InCall
    <3>3. 0 = Cardinality(Admitted(e)) + InCall(volume[e])
      BY <2>1 DEF CountInv
    <3>4. \A c \in Nat, k \in {0, 1} : 0 = c + k => c = 0 /\ k = 0
      OBVIOUS
    <3>5. Cardinality(Admitted(e)) = 0 /\ InCall(volume[e]) = 0
      BY <3>1, <3>2, <3>3, <3>4
    <3>6. Admitted(e) = {}
      BY <3>1, <3>5, FS_EmptySet
    <3>7. 0 # 1
      OBVIOUS
    <3> QED BY <3>2, <3>5, <3>6, <3>7
  <2>5. Admitted(e)' = {}
    BY <2>3, <2>4, StaysEmpty
  <2>6. \A i \in DOMAIN controls' : controls'[i] # e
    BY <2>1 DEF SweepControls, Without
  <2>7. Final(call[t])'
    BY <2>1, <2>2, <2>3, <2>4, <2>5, <2>6, LiveAndDown DEF Final, Drained, DestroyInv
  <2> QED BY <1>4, <1>5, <2>1, <2>2, <2>7
<1>10. ASSUME NEW t \in Callers, Detach(t) PROVE DestroyInv'
  <2>1. /\ down' = down /\ CallerStep(t) /\ call[t].op \in {"callback", "destroy"}
        /\ call[t].op = "destroy" => call[t].at = "clear"
        /\ sink' = [sink EXCEPT ![call[t].e] = None]
    BY <1>10 DEF Detach, Clears, In, CallerStep, lifeVars
  <2> PICK e \in Engines : e = call[t].e
    BY <2>1 DEF CallInv, Consistent, Types, Calls
  <2>2. call'[t].at = "quiesce" /\ call'[t].e = e /\ call'[t].op = call[t].op
    BY <1>10, DetachType
  <2>3. sink'[e] = None
    BY <2>1 DEF Types
  <2>4. CASE call[t].op = "destroy"
    <3>1. Drained(e) /\ Drained(e)' /\ ~accepting'[e]
      BY <2>1, <2>4, DrainedStays DEF DestroyInv, Final, Drained
    <3>2. Final(call[t])'
      BY <2>1, <2>2, <2>3, <2>4, <3>1, LiveAndDown DEF Final, DestroyInv
    <3> QED BY <1>4, <1>5, <2>1, <2>2, <2>4, <3>2
  <2>5. CASE call[t].op # "destroy"
    BY <1>4, <1>5, <2>1, <2>2, <2>5
  <2> QED BY <2>4, <2>5
<1>11. ASSUME NEW t \in Callers, DestroyPurge(t) PROVE DestroyInv'
  <2>1. /\ call[t].op = "destroy" /\ call[t].at = "quiesce" /\ down' = down
        /\ Step(t, "shutdown") /\ CallerStep(t)
        /\ results' = Without(results, {i \in DOMAIN results : results[i] = call[t].e})
    BY <1>11 DEF DestroyPurge, In, CallerStep, lifeVars
  <2>2. call'[t].at = "shutdown" /\ call'[t].e = call[t].e /\ call'[t].op = "destroy"
    BY <2>1, StepType DEF Point
  <2> PICK e \in Engines : e = call[t].e
    BY <1>2, <2>1
  <2>3. /\ Drained(e) /\ sink[e] = None
        /\ Drained(e)' /\ sink'[e] = None /\ ~accepting'[e]
    <3>1. Drained(e) /\ sink[e] = None
      BY <2>1 DEF DestroyInv, Final
    <3>2. Drained(e)' /\ sink'[e] = None
      BY <3>1, DrainedStays
    <3> QED BY <3>1, <3>2 DEF Drained
  <2>4. NoResults(e)'
    BY <2>1 DEF NoResults, Without
  <2>5. Final(call[t])'
    BY <2>1, <2>2, <2>3, <2>4, LiveAndDown DEF Final, DestroyInv
  <2> QED BY <1>4, <1>5, <2>1, <2>2, <2>5
<1>12. ASSUME NEW t \in Callers, DestroyShutdown(t) PROVE DestroyInv'
  <2>1. /\ call[t].op = "destroy" /\ call[t].at = "shutdown" /\ CallerStep(t)
        /\ down' = down \cup {call[t].e}
        /\ volume' = [volume EXCEPT ![call[t].e].at = "ended"] /\ Return(t, "none")
    BY <1>12 DEF DestroyShutdown, In, CallerStep
  <2> PICK e \in Engines : e = call[t].e
    BY <1>2, <2>1
  <2>2. call'[t].op = "none" /\ \A u \in Callers \ {t} : call'[u] = call[u]
    BY <2>1, ReturnType DEF Quiet
  <2>3. e \notin live /\ Drained(e) /\ sink[e] = None /\ NoResults(e)
    BY <2>1 DEF DestroyInv, Final
  <2>4. Drained(e)' /\ sink'[e] = None /\ NoResults(e)'
    BY <2>3, DrainedStays
  <2>5. volume'[e].at = "ended"
    BY <2>1, VolumeMoves DEF VolumeAt
  <2>6. live' \cap down' = {}
    BY <2>1, <2>3, LiveAndDown DEF DestroyInv
  <2>7. \A f \in down' : /\ Drained(f)' /\ sink'[f] = None /\ NoResults(f)'
                         /\ volume'[f].at = "ended"
    BY <1>1, <2>1, <2>4, <2>5 DEF DestroyInv, Types
  <2>8. \A u \in Callers : call'[u].op = "destroy" => Final(call[u])'
    <3>1. ASSUME NEW u \in Callers, call'[u].op = "destroy" PROVE Final(call[u])'
      <4>1. u # t /\ call'[u] = call[u] /\ call[u].op = "destroy"
        BY <2>2, <3>1
      <4>2. call[u].e \notin down'
        BY <2>1, <4>1 DEF DestroyInv, Final
      <4> QED BY <1>3, <4>1, <4>2
    <3> QED BY <3>1
  <2>9. \A u, v \in Callers :
          call'[u].op = "destroy" /\ call'[v].op = "destroy" /\ call'[u].e = call'[v].e => u = v
    <3>1. \A u \in Callers : call'[u].op = "destroy" =>
            call[u].op = "destroy" /\ call'[u].e = call[u].e
      BY <2>2
    <3> QED BY <3>1 DEF DestroyInv
  <2> QED BY <2>6, <2>7, <2>8, <2>9 DEF DestroyInv
<1>13. ASSUME NEW t \in Callers, NEW e \in Engines, DestroyStart(t, e) PROVE DestroyInv'
  <2>1. CASE e \notin live
    <3>1. call' = call /\ down' = down
      BY <1>13, <2>1 DEF DestroyStart, Whole
    <3>2. call[t].op = "none"
      BY <1>13, <2>1 DEF DestroyStart, Whole
    <3> QED BY <1>4, <3>1, <3>2
  <2>2. CASE e \in live
    <3>1. /\ Enter(t, [Quiet EXCEPT !.op = "destroy", !.at = "sweep", !.e = e])
          /\ live' = live \ {e} /\ down' = down
      BY <1>13, <2>2 DEF DestroyStart
    <3>2. /\ call'[t].op = "destroy" /\ call'[t].at = "sweep" /\ call'[t].e = e
          /\ \A u \in Callers \ {t} : call'[u] = call[u]
      <4>1. call' = [call EXCEPT ![t] = [Quiet EXCEPT !.op = "destroy", !.at = "sweep", !.e = e]]
        BY <3>1 DEF Enter
      <4> QED BY <4>1 DEF Quiet, Types
    <3>3. e \notin down /\ \A u \in Callers : call[u].op = "destroy" => call[u].e # e
      BY <2>2 DEF DestroyInv, Final
    <3>4. Final(call[t])'
      BY <3>1, <3>2, <3>3 DEF Final
    <3>5. \A u \in Callers : call'[u].op = "destroy" => Final(call[u])'
      <4>1. ASSUME NEW u \in Callers \ {t}, call'[u].op = "destroy" PROVE Final(call[u])'
        <5>1. call'[u] = call[u] /\ call[u].op = "destroy" /\ call[u].e \notin down'
          BY <3>1, <3>2, <4>1 DEF DestroyInv, Final
        <5> QED BY <1>3, <5>1
      <4> QED BY <3>4, <4>1
    <3>6. \A u, v \in Callers :
            call'[u].op = "destroy" /\ call'[v].op = "destroy" /\ call'[u].e = call'[v].e => u = v
      BY <3>2, <3>3 DEF DestroyInv
    <3>7. live' \cap down' = {}
      BY <3>1 DEF DestroyInv
    <3>8. \A f \in down' : /\ Drained(f)' /\ sink'[f] = None /\ NoResults(f)'
                           /\ volume'[f].at = "ended"
      BY <1>1, <3>1 DEF DestroyInv, Types
    <3> QED BY <3>5, <3>6, <3>7, <3>8 DEF DestroyInv
  <2> QED BY <2>1, <2>2
<1>14. CASE \A t \in Callers : ~(CallerBegins(t) \/ CallerStep(t))
  <2>1. call' = call
    BY <1>14, CallFrame
  <2>2. down' = down
    BY <1>14, LiveAndDown DEF CallerStep
  <2> PICK t \in Callers : TRUE
    BY FfiAssumption
  <2>3. call[t].op = "destroy" => Final(call[t])'
    BY <1>3, <2>1, <2>2 DEF DestroyInv, Final
  <2> QED BY <1>4, <2>1, <2>2, <2>3
<1>15. ASSUME NEW t \in Callers, CallerBegins(t) \/ CallerStep(t),
              \A e \in Engines : ~DestroyStart(t, e),
              ~DestroySweep(t), ~DestroyClose(t), ~DestroyDrained(t), ~Detach(t),
              ~DestroyPurge(t), ~DestroyShutdown(t)
       PROVE  DestroyInv'
  <2>1. down' = down
    <3>1. CASE CallerBegins(t)
      BY <3>1 DEF CallerBegins, Begin, DestroyStart, CancelControl, FreeControl, FreeResult,
         PageStart, FreeOwned, lifeVars
    <3>2. CASE CallerStep(t)
      BY <1>15, <3>2 DEF CallerStep, Admit, Use, Stats, CreateControl, QueryStart, QueryRun,
         QueryAnswered, QueryInsert, PageFill, Install, lifeVars
    <3> QED BY <1>15, <3>1, <3>2
  <2>2. call'[t].op = "destroy" => call'[t] = call[t]
    BY <1>15, DestroysKeep
  <2>3. call'[t].op = "destroy" => Final(call[t])'
    BY <1>3, <2>1, <2>2 DEF DestroyInv, Final
  <2> QED BY <1>6, <1>15, <2>1, <2>3
<1> QED BY <1>7, <1>8, <1>9, <1>10, <1>11, <1>12, <1>13, <1>14, <1>15

-----------------------------------------------------------------------------
(* The invariant, and what callers may rely on *)

FfiInv ==
  Types /\ CallInv /\ CountInv /\ IssuedInv /\ SinkInv /\ DestroyInv /\ DetailInv

\* Nothing is called, admitted, registered or destroyed at the start.
LEMMA FfiInvInit == ASSUME Init PROVE FfiInv
<1> USE DEF Init
<1>0. /\ MaxSinks \in Nat /\ None = 0 /\ None \notin Engines /\ DOMAIN <<>> = {}
      /\ Quiet.op = "none" /\ Quiet.at = "none" /\ Quiet.e = None /\ Quiet.s = None
  BY FfiAssumption DEF None, Quiet
<1>1. Types
  <2>1. Quiet \in Calls
    BY <1>0 DEF Quiet, Calls, Op, Point
  <2> QED BY <1>0, <2>1 DEF Types, VolumeAt
<1>2. CallInv
  BY <1>0 DEF CallInv, Consistent
<1>3. CountInv
  <2>1. \A e \in Engines : Admitted(e) = {} /\ InCall(volume[e]) = 0
    BY <1>0 DEF Admitted, InCall
  <2>2. \A s \in 1 .. MaxSinks :
          {e \in Engines : volume[e].at \in CallbackAt /\ volume[e].s = s} = {}
    BY DEF CallbackAt
  <2>3. Cardinality({}) = 0
    BY FS_EmptySet
  <2>4. ASSUME NEW e \in Engines
        PROVE  inFlight[e] = Cardinality(Admitted(e)) + InCall(volume[e])
    <3>1. inFlight[e] = 0
      OBVIOUS
    <3>2. Cardinality(Admitted(e)) = 0 /\ InCall(volume[e]) = 0
      BY <2>1, <2>3
    <3>3. 0 + 0 = 0
      OBVIOUS
    <3> QED BY <3>1, <3>2, <3>3
  <2>5. ASSUME NEW s \in 1 .. MaxSinks
        PROVE  cbIn[s] = Cardinality({e \in Engines :
                                       volume[e].at \in CallbackAt /\ volume[e].s = s})
    <3>1. cbIn[s] = 0
      OBVIOUS
    <3> QED BY <2>2, <2>3, <3>1
  <2> QED BY <2>4, <2>5 DEF CountInv
<1>4. IssuedInv
  BY <1>0 DEF IssuedInv
<1>5. SinkInv
  <2>1. /\ sink = registered /\ sinks = 0 /\ retired = {}
        /\ \A s \in 1 .. MaxSinks : ~cbOpen[s]
    OBVIOUS
  <2>2. \A e \in Engines : sink[e] = None /\ volume[e].at = "run"
    OBVIOUS
  <2>3. \A t \in Callers : call[t].at # "quiesce"
    BY <1>0
  <2> HIDE DEF Init
  <2>4. retired \subseteq 1 .. sinks
    BY <2>1
  <2>5. \A e \in Engines : sink[e] <= sinks
    BY <1>0, <2>1, <2>2
  <2>6. \A e \in Engines : volume[e].at \notin {"cloned"} \cup CallbackAt
    BY <2>2 DEF CallbackAt
  <2>7. \A s \in retired : FALSE
    BY <2>1
  <2> QED BY <1>0, <2>1, <2>2, <2>3, <2>4, <2>5, <2>6, <2>7 DEF SinkInv
<1>6. DestroyInv
  BY <1>0 DEF DestroyInv
<1>7. DetailInv
  BY <1>0 DEF DetailInv, Reason
<1> QED BY <1>1, <1>2, <1>3, <1>4, <1>5, <1>6, <1>7 DEF FfiInv

\* Every step of a caller or of a volume thread keeps the invariant.
LEMMA FfiInvStep == ASSUME FfiInv, [Next]_vars PROVE FfiInv'
<1>1. Types /\ CallInv /\ CountInv /\ IssuedInv /\ SinkInv /\ DestroyInv /\ DetailInv
  BY DEF FfiInv
<1>2. Types' /\ CallInv' /\ CountInv' /\ IssuedInv'
  BY <1>1, TypesStep, CallInvStep, CountInvStep, IssuedInvStep
<1>3. SinkInv' /\ DestroyInv' /\ DetailInv'
  BY <1>1, SinkInvStep, DestroyInvStep, DetailInvStep
<1> QED BY <1>2, <1>3 DEF FfiInv

\* The engines, the sinks, the registries, the destructions and the error details of
\* the C ABI stay in the states the invariant describes (registry.rs, lifecycle.rs,
\* callback.rs of fmf-ffi).
THEOREM FfiInvHolds == Spec => []FfiInv
<1>1. Init => FfiInv
  BY FfiInvInit
<1>2. FfiInv /\ [Next]_vars => FfiInv'
  BY FfiInvStep
<1> QED BY <1>1, <1>2, PTL DEF Spec

\* No closure leads to a retired sink and no volume thread is in one.
LEMMA InvQuiet == ASSUME FfiInv PROVE NoCallbackAfterReturn
<1>2. \A e \in Engines : sink[e] \notin retired /\ sink[e] = registered[e]
  BY DEF FfiInv, SinkInv
<1>3. \A e \in Engines : ~(volume[e].at \in CallbackAt /\ volume[e].s \in retired)
  BY DEF FfiInv, SinkInv
<1> QED BY <1>2, <1>3 DEF NoCallbackAfterReturn

\* The invariant is what the callers rely on, and the order of destruction besides.
LEMMA InvReturned == ASSUME FfiInv PROVE ReturnedMeansDone
<1>0. /\ Types /\ CountInv /\ IssuedInv /\ SinkInv /\ DestroyInv /\ DetailInv
      /\ MaxSinks \in Nat /\ None = 0
  BY FfiAssumption DEF FfiInv, None
<1>1. TypeOK
  <2>1. live \subseteq Engines /\ down \subseteq Engines \ live
    BY <1>0 DEF Types, DestroyInv
  <2>2. \A e \in Engines : /\ keep[e] \in Callers \cup {None}
                           /\ {sink[e], registered[e]} \subseteq 0 .. sinks
    <3>1. \A e \in Engines : /\ keep[e] \in Callers \cup {None}
                             /\ sink[e] = registered[e]
                             /\ sink[e] \in 0 .. MaxSinks /\ sink[e] <= sinks /\ sinks \in Nat
      BY <1>0 DEF Types, SinkInv
    <3> QED BY <3>1
  <2>3. \A e \in Engines : inFlight[e] = Cardinality(Admitted(e))
                             + (IF volume[e].at = "callback in call" THEN 1 ELSE 0)
    BY <1>0 DEF CountInv, InCall
  <2> QED BY <1>0, <2>1, <2>2, <2>3 DEF TypeOK, CountInv, IssuedInv
<1>2. NoCallbackAfterReturn
  BY InvQuiet
<1>3. NoOrphans
  BY <1>0 DEF NoOrphans, DestroyInv, Drained, NoResults
<1>4. NoWorkAfterDown
  BY <1>0 DEF NoWorkAfterDown, DestroyInv, Drained
<1>5. DetailSurvivesCleanup
  BY <1>0 DEF DetailSurvivesCleanup, DetailInv
<1> QED BY <1>1, <1>2, <1>3, <1>4, <1>5 DEF ReturnedMeansDone

\* Once a call of the C ABI has returned, what it promised holds and keeps holding: the
\* callback it replaced is not running and never will, the engine it destroyed has no
\* call, callback, control or result left, and a failed query's detail outlives the
\* freeing of its control (lib.rs fmf_set_event_callback, fmf_engine_destroy, guard_cleanup).
THEOREM CallsAreDone == Spec => []ReturnedMeansDone
<1>1. FfiInv => ReturnedMeansDone
  BY InvReturned
<1> QED BY <1>1, FfiInvHolds, PTL

----------------------------------------------------------------------------
(***************************************************************************)
(* Induction over the numbers below n, with sets in place of predicates, and the*)
(* functions on 0..n that it defines.                                      *)
(***************************************************************************)
\* A set of naturals that is not empty has a least element.
LEMMA LeastElement ==
  ASSUME NEW S \in SUBSET Nat, S # {}
  PROVE  \E n \in S : \A m \in S : n <= m
<1>. DEFINE R == {ss \in Nat \X Nat : ss[1] < ss[2]}
<1>1. IsWellFoundedOn(R, Nat)
  BY NatLessThanWellFounded DEF OpToRel
<1>2. PICK x \in S : \A y \in S : ~(<<y, x>> \in R)
  BY <1>1, WFMin
<1>3. ASSUME NEW y \in S PROVE x <= y
  <2>1. ~(<<y, x>> \in R)
    BY <1>2
  <2>2. x \in Nat /\ y \in Nat
    OBVIOUS
  <2>. QED BY <2>1, <2>2
<1>. QED BY <1>3

\* Induction up to n, for a set of naturals.
LEMMA InductUpTo ==
  ASSUME NEW n \in Nat, NEW S, 0 \in S,
         \A k \in 1..n : k - 1 \in S => k \in S
  PROVE  0..n \subseteq S
<1>. SUFFICES ASSUME ~(0..n \subseteq S) PROVE FALSE
  OBVIOUS
<1>. DEFINE B == {k \in 0..n : k \notin S}
<1>1. B \in SUBSET Nat /\ B # {}
  OBVIOUS
<1>2. PICK k \in B : \A m \in B : k <= m
  <2>. HIDE DEF B
  <2>. QED BY <1>1, LeastElement
<1>3. k \in 1..n
  BY <1>2
<1>4. k - 1 \notin B
  BY <1>1, <1>2, <1>3
<1>5. k - 1 \in S
  BY <1>3, <1>4
<1>. QED BY <1>2, <1>3, <1>5

\* The functions that start at first and go on by step.
Iterates(n, S, first, step) ==
  {f \in [0..n -> S] : f[0] = first /\ \A k \in 1..n : f[k] = step[f[k - 1]]}

\* A function on 0..n defined from its first value and the step to the next one exists.
LEMMA RecursionExists ==
  ASSUME NEW n \in Nat, NEW S, NEW first \in S, NEW step \in [S -> S]
  PROVE  Iterates(n, S, first, step) # {}
<1>. DEFINE Good(k, f) == f[0] = first /\ \A j \in 1..k : f[j] = step[f[j - 1]]
            B == {k \in 0..n : \E f \in [0..k -> S] : Good(k, f)}
<1>1. 0 \in B
  <2>1. [k \in 0..0 |-> first] \in [0..0 -> S] /\ Good(0, [k \in 0..0 |-> first])
    OBVIOUS
  <2>2. \E f \in [0..0 -> S] : Good(0, f)
    BY <2>1
  <2>. HIDE DEF Good
  <2>. QED BY <2>2
<1>2. ASSUME NEW k \in 1..n, k - 1 \in B PROVE k \in B
  <2>1. PICK f \in [0..(k - 1) -> S] : Good(k - 1, f)
    BY <1>2
  <2>. DEFINE g == [j \in 0..k |-> IF j = k THEN step[f[k - 1]] ELSE f[j]]
  <2>2. f[k - 1] \in S /\ step[f[k - 1]] \in S
    OBVIOUS
  <2>3. g \in [0..k -> S]
    BY <2>2
  <2>4. g[0] = first
    BY <2>1
  <2>5. ASSUME NEW j \in 1..k PROVE g[j] = step[g[j - 1]]
    <3>1. CASE j = k
      BY <3>1
    <3>2. CASE j # k
      <4>1. j \in 1..(k - 1) /\ j - 1 \in 0..(k - 1) /\ j - 1 # k
        BY <3>2
      <4>. QED BY <4>1, <2>1
    <3>. QED BY <3>1, <3>2
  <2>6. \E h \in [0..k -> S] : Good(k, h)
    BY <2>3, <2>4, <2>5
  <2>. HIDE DEF Good
  <2>. QED BY <2>6
<1>3. 0..n \subseteq B
  <2>. HIDE DEF B
  <2>. QED BY <1>1, <1>2, InductUpTo
<1>4. \E f \in [0..n -> S] : Good(n, f)
  BY <1>3
<1>. QED BY <1>4 DEF Iterates

----------------------------------------------------------------------------
(***************************************************************************)
(* The order of names, of keys and of ids.                                 *)
(***************************************************************************)
\* Names and patterns.
Texts == Seq(DOMAIN Rank)

\* a and b agree before position i, where a ends or has the lower character.
BeforeAt(a, b, i) ==
  /\ i <= Len(a) + 1 /\ i <= Len(b)
  /\ \A j \in 1..(i - 1) : a[j] = b[j]
  /\ i = Len(a) + 1 \/ Rank[a[i]] < Rank[b[i]]

\* Equal prefixes agree at every position.
LEMMA PrefixAgrees ==
  ASSUME NEW a \in Texts, NEW b \in Texts, NEW n \in 0..Len(a), n <= Len(b)
  PROVE  SubSeq(a, 1, n) = SubSeq(b, 1, n) <=> \A j \in 1..n : a[j] = b[j]
<1>1. /\ SubSeq(a, 1, n) \in Texts /\ Len(SubSeq(a, 1, n)) = n
      /\ \A j \in 1..n : SubSeq(a, 1, n)[j] = a[j]
  BY SubSeqProperties DEF Texts
<1>2. /\ SubSeq(b, 1, n) \in Texts /\ Len(SubSeq(b, 1, n)) = n
      /\ \A j \in 1..n : SubSeq(b, 1, n)[j] = b[j]
  BY SubSeqProperties DEF Texts
<1>3. ASSUME \A j \in 1..n : a[j] = b[j]
      PROVE  SubSeq(a, 1, n) = SubSeq(b, 1, n)
  BY <1>1, <1>2, <1>3, SeqEqual DEF Texts
<1>. QED BY <1>1, <1>2, <1>3

\* The order of folded names is the lexicographic order of their bytes.
LEMMA BeforeIsLexicographic ==
  ASSUME NEW a \in Texts, NEW b \in Texts
  PROVE  Before(a, b) <=> \E i \in Nat \ {0} : BeforeAt(a, b, i)
<1>0. /\ Len(a) \in Nat /\ DOMAIN a = 1..Len(a)
      /\ Len(b) \in Nat /\ DOMAIN b = 1..Len(b)
  BY DEF Texts
<1>1. ASSUME IsStrictPrefix(a, b)
      PROVE  BeforeAt(a, b, Len(a) + 1)
  <2>1. Len(a) <= Len(b) /\ \A j \in 1..Len(a) : a[j] = b[j]
    BY <1>0, <1>1, PrefixAgrees DEF IsStrictPrefix, IsPrefix
  <2>2. Len(a) # Len(b)
    BY <2>1, <1>1, SeqEqual DEF IsStrictPrefix, Texts
  <2>3. (Len(a) + 1) - 1 = Len(a) /\ Len(a) + 1 <= Len(b)
    <3>1. Len(a) \in Nat /\ Len(b) \in Nat /\ Len(a) <= Len(b)
      BY <1>0, <2>1
    <3>. QED BY <3>1, <2>2
  <2>. QED BY <1>0, <2>1, <2>3 DEF BeforeAt
<1>2. ASSUME NEW i \in DOMAIN a \cap DOMAIN b,
             SubSeq(a, 1, i - 1) = SubSeq(b, 1, i - 1), Rank[a[i]] < Rank[b[i]]
      PROVE  BeforeAt(a, b, i)
  <2>1. i - 1 \in 0..Len(a) /\ i - 1 <= Len(b)
    BY <1>0
  <2>2. \A j \in 1..(i - 1) : a[j] = b[j]
    BY <2>1, <1>2, PrefixAgrees
  <2>. QED BY <1>0, <1>2, <2>2 DEF BeforeAt
<1>3. ASSUME NEW i \in Nat \ {0}, BeforeAt(a, b, i)
      PROVE  Before(a, b)
  <2>1. i - 1 \in 0..Len(a) /\ i - 1 <= Len(b)
    BY <1>0, <1>3 DEF BeforeAt
  <2>2. SubSeq(a, 1, i - 1) = SubSeq(b, 1, i - 1)
    BY <2>1, <1>3, PrefixAgrees DEF BeforeAt
  <2>3. CASE i = Len(a) + 1
    <3>1. i - 1 = Len(a)
      BY <2>3, <1>0
    <3>2. IsPrefix(a, b)
      BY <3>1, <2>2, <2>1, <1>0 DEF IsPrefix
    <3>3. Len(a) < Len(b)
      BY <2>3, <1>3, <1>0 DEF BeforeAt
    <3>4. IsStrictPrefix(a, b)
      BY <3>2, <3>3, <1>0 DEF IsStrictPrefix
    <3>. QED BY <3>4 DEF Before
  <2>4. CASE i # Len(a) + 1
    <3>1. i \in DOMAIN a \cap DOMAIN b /\ Rank[a[i]] < Rank[b[i]]
      BY <2>4, <1>0, <1>3 DEF BeforeAt
    <3>. QED BY <3>1, <2>2 DEF Before
  <2>. QED BY <2>3, <2>4
<1>4. ASSUME Before(a, b) PROVE \E i \in Nat \ {0} : BeforeAt(a, b, i)
  <2>1. CASE IsStrictPrefix(a, b)
    BY <2>1, <1>1, <1>0
  <2>2. CASE \E i \in DOMAIN a \cap DOMAIN b :
               /\ SubSeq(a, 1, i - 1) = SubSeq(b, 1, i - 1)
               /\ Rank[a[i]] < Rank[b[i]]
    BY <2>2, <1>2, <1>0
  <2>. QED BY <2>1, <2>2, <1>4 DEF Before
<1>. QED BY <1>3, <1>4

\* It is a strict total order on texts.
LEMMA BeforeIrreflexive ==
  ASSUME NEW a \in Texts PROVE ~Before(a, a)
<1>1. ASSUME NEW i \in Nat \ {0}, BeforeAt(a, a, i) PROVE FALSE
  <2>1. Len(a) \in Nat /\ DOMAIN a = 1..Len(a)
    BY DEF Texts
  <2>2. i \in 1..Len(a) /\ Rank[a[i]] < Rank[a[i]]
    BY <1>1, <2>1 DEF BeforeAt
  <2>3. Rank[a[i]] \in Int
    BY <2>2, <2>1, QueryAssumption DEF Texts
  <2>. QED BY <2>2, <2>3
<1>. QED BY <1>1, BeforeIsLexicographic

\* The order of texts is transitive: the earlier of the two first differences decides.
LEMMA BeforeTransitive ==
  ASSUME NEW a \in Texts, NEW b \in Texts, NEW c \in Texts, Before(a, b), Before(b, c)
  PROVE  Before(a, c)
<1>1. PICK i \in Nat \ {0} : BeforeAt(a, b, i)
  BY BeforeIsLexicographic
<1>2. PICK k \in Nat \ {0} : BeforeAt(b, c, k)
  BY BeforeIsLexicographic
<1>0. /\ Len(a) \in Nat /\ DOMAIN a = 1..Len(a) /\ \A j \in 1..Len(a) : Rank[a[j]] \in Int
      /\ Len(b) \in Nat /\ DOMAIN b = 1..Len(b) /\ \A j \in 1..Len(b) : Rank[b[j]] \in Int
      /\ Len(c) \in Nat /\ DOMAIN c = 1..Len(c) /\ \A j \in 1..Len(c) : Rank[c[j]] \in Int
  BY QueryAssumption DEF Texts
<1>3. CASE i <= k
  <2>1. i <= Len(a) + 1 /\ i <= Len(c)
    BY <1>0, <1>1, <1>2, <1>3 DEF BeforeAt
  <2>2. \A j \in 1..(i - 1) : a[j] = b[j] /\ b[j] = c[j]
    BY <1>1, <1>2, <1>3 DEF BeforeAt
  <2>3. i = Len(a) + 1 \/ Rank[a[i]] < Rank[c[i]]
    <3>1. CASE i < k
      <4>1. b[i] = c[i]
        BY <3>1, <1>2 DEF BeforeAt
      <4>. QED BY <4>1, <1>1 DEF BeforeAt
    <3>2. CASE i = k /\ i # Len(a) + 1
      <4>1. i \in 1..Len(a) /\ i \in 1..Len(b) /\ i \in 1..Len(c)
        BY <3>2, <1>0, <1>1, <1>2 DEF BeforeAt
      <4>2. Rank[a[i]] < Rank[b[i]] /\ Rank[b[i]] < Rank[c[i]]
        BY <4>1, <3>2, <1>0, <1>1, <1>2 DEF BeforeAt
      <4>. QED BY <4>1, <4>2, <1>0
    <3>. QED BY <3>1, <3>2, <1>3
  <2>4. BeforeAt(a, c, i)
    BY <2>1, <2>2, <2>3 DEF BeforeAt
  <2>. QED BY <2>4, BeforeIsLexicographic
<1>4. CASE k < i
  <2>1. k <= Len(a) + 1 /\ k <= Len(c) /\ k <= Len(a) /\ k <= Len(b)
    BY <1>0, <1>1, <1>2, <1>4 DEF BeforeAt
  <2>2. \A j \in 1..(k - 1) : a[j] = b[j] /\ b[j] = c[j]
    BY <1>1, <1>2, <1>4 DEF BeforeAt
  <2>3. a[k] = b[k]
    BY <1>1, <1>4 DEF BeforeAt
  <2>4. Rank[b[k]] < Rank[c[k]]
    BY <2>1, <1>2, <1>0 DEF BeforeAt
  <2>5. BeforeAt(a, c, k)
    BY <2>1, <2>2, <2>3, <2>4 DEF BeforeAt
  <2>. QED BY <2>5, BeforeIsLexicographic
<1>. QED BY <1>3, <1>4

\* Two texts that differ are ordered one way or the other.
LEMMA BeforeTotal ==
  ASSUME NEW a \in Texts, NEW b \in Texts, a # b
  PROVE  Before(a, b) \/ Before(b, a)
<1>0. /\ Len(a) \in Nat /\ DOMAIN a = 1..Len(a) /\ \A j \in 1..Len(a) : a[j] \in DOMAIN Rank
      /\ Len(b) \in Nat /\ DOMAIN b = 1..Len(b) /\ \A j \in 1..Len(b) : b[j] \in DOMAIN Rank
  BY DEF Texts
<1>. DEFINE Ends(i) == i = Len(a) + 1 \/ i = Len(b) + 1
            D == {i \in Nat \ {0} : /\ i <= Len(a) + 1 /\ i <= Len(b) + 1
                                    /\ Ends(i) \/ a[i] # b[i]}
<1>1. D \in SUBSET Nat /\ D # {}
  <2>1. CASE Len(a) <= Len(b)
    <3>1. Len(a) + 1 \in D
      BY <2>1, <1>0
    <3>. QED BY <3>1
  <2>2. CASE Len(b) <= Len(a)
    <3>1. Len(b) + 1 \in D
      BY <2>2, <1>0
    <3>. QED BY <3>1
  <2>. QED BY <2>1, <2>2, <1>0
<1>2. PICK i \in D : \A m \in D : i <= m
  <2>. HIDE DEF D
  <2>. QED BY <1>1, LeastElement
<1>3. \A j \in 1..(i - 1) : a[j] = b[j]
  <2>1. ASSUME NEW j \in 1..(i - 1), a[j] # b[j] PROVE FALSE
    <3>1. j \in D
      BY <2>1, <1>0, <1>2
    <3>. QED BY <3>1, <1>2
  <2>. QED BY <2>1
<1>4. CASE i = Len(a) + 1 /\ i = Len(b) + 1
  <2>1. Len(a) = Len(b) /\ i - 1 = Len(a)
    <3>1. Len(a) \in Nat /\ Len(b) \in Nat
      BY <1>0
    <3>. QED BY <3>1, <1>4
  <2>2. \A j \in 1..Len(a) : a[j] = b[j]
    BY <2>1, <1>3
  <2>. QED BY <2>1, <2>2, SeqEqual DEF Texts
<1>5. CASE i = Len(a) + 1 /\ i # Len(b) + 1
  <2>1. BeforeAt(a, b, i)
    BY <1>5, <1>3, <1>2, <1>0 DEF BeforeAt
  <2>. QED BY <2>1, <1>2, BeforeIsLexicographic
<1>6. CASE i # Len(a) + 1 /\ i = Len(b) + 1
  <2>1. BeforeAt(b, a, i)
    BY <1>6, <1>3, <1>2, <1>0 DEF BeforeAt
  <2>. QED BY <2>1, <1>2, BeforeIsLexicographic
<1>7. CASE i # Len(a) + 1 /\ i # Len(b) + 1
  <2>1. i \in 1..Len(a) /\ i \in 1..Len(b) /\ a[i] # b[i]
    BY <1>7, <1>2, <1>0
  <2>2. /\ Rank[a[i]] \in Int /\ Rank[b[i]] \in Int
        /\ Rank[a[i]] # Rank[b[i]]
    BY <2>1, <1>0, QueryAssumption
  <2>3. CASE Rank[a[i]] < Rank[b[i]]
    <3>1. BeforeAt(a, b, i)
      BY <2>1, <2>3, <1>3, <1>0 DEF BeforeAt
    <3>. QED BY <3>1, <2>1, BeforeIsLexicographic
  <2>4. CASE Rank[b[i]] < Rank[a[i]]
    <3>1. BeforeAt(b, a, i)
      BY <2>1, <2>4, <1>3, <1>0 DEF BeforeAt
    <3>. QED BY <3>1, <2>1, BeforeIsLexicographic
  <2>. QED BY <2>2, <2>3, <2>4
<1>. QED BY <1>4, <1>5, <1>6, <1>7

\* The sort keys that decide an order; the path view sorts by name.
Keys == {"name", "size", "mtime"}

\* Each sort key is a strict weak order of rows.
LEMMA LowerIsText ==
  ASSUME NEW x \in RowType PROVE Lower(x) \in Texts
<1>1. x.name \in Texts /\ Len(x.name) \in Nat /\ DOMAIN x.name = 1..Len(x.name)
      /\ \A i \in 1..Len(x.name) : x.name[i] \in DOMAIN Rank
  BY DEF RowType, RowOf, Texts
<1>2. FoldStr(x.name) \in [1..Len(x.name) -> DOMAIN Rank]
  BY <1>1, QueryAssumption DEF FoldStr
<1>. QED BY <1>1, <1>2, SeqDef DEF Lower, Texts

\* A strict weak order: rows not told apart by the key are interchangeable to it.
LEMMA KeyOrder ==
  ASSUME NEW key \in Keys, NEW x \in RowType, NEW y \in RowType, NEW z \in RowType
  PROVE  /\ KeyBefore(key, x, y) \in BOOLEAN
         /\ ~KeyBefore(key, x, x)
         /\ KeyBefore(key, x, y) /\ KeyBefore(key, y, z) => KeyBefore(key, x, z)
         /\ KeyBefore(key, x, y) => KeyBefore(key, x, z) \/ KeyBefore(key, z, y)
<1>1. CASE key = "name"
  <2>. DEFINE a == Lower(x)  b == Lower(y)  c == Lower(z)
  <2>1. a \in Texts /\ b \in Texts /\ c \in Texts
    BY LowerIsText
  <2>2. \A u, v : KeyBefore("name", u, v) <=> Before(Lower(u), Lower(v))
    BY DEF KeyBefore
  <2>3. KeyBefore("name", x, y) \in BOOLEAN
    BY DEF KeyBefore, Before
  <2>4. ~Before(a, a) /\ (Before(a, b) /\ Before(b, c) => Before(a, c))
    BY <2>1, BeforeIrreflexive, BeforeTransitive
  <2>5. Before(a, b) => Before(a, c) \/ Before(c, b)
    <3>1. CASE a = c
      BY <3>1
    <3>2. CASE a # c
      BY <3>2, <2>1, BeforeTotal, BeforeTransitive
    <3>. QED BY <3>1, <3>2
  <2>. QED BY <1>1, <2>2, <2>3, <2>4, <2>5
<1>2. CASE key = "size"
  <2>. DEFINE less(u, v) == u.size < v.size
  <2>1. x.size \in Int /\ y.size \in Int /\ z.size \in Int
    BY DEF RowType, RowOf
  <2>2. \A u, v : KeyBefore(key, u, v) = less(u, v)
    BY <1>2 DEF KeyBefore
  <2>3. /\ less(x, y) \in BOOLEAN
        /\ ~less(x, x)
        /\ less(x, y) /\ less(y, z) => less(x, z)
        /\ less(x, y) => less(x, z) \/ less(z, y)
    BY <2>1
  <2>. HIDE DEF less
  <2>. QED BY <2>2, <2>3
<1>3. CASE key = "mtime"
  <2>. DEFINE less(u, v) == u.mtime < v.mtime
  <2>1. x.mtime \in Int /\ y.mtime \in Int /\ z.mtime \in Int
    BY DEF RowType, RowOf
  <2>2. \A u, v : KeyBefore(key, u, v) = less(u, v)
    BY <1>3 DEF KeyBefore
  <2>3. /\ less(x, y) \in BOOLEAN
        /\ ~less(x, x)
        /\ less(x, y) /\ less(y, z) => less(x, z)
        /\ less(x, y) => less(x, z) \/ less(z, y)
    BY <2>1
  <2>. HIDE DEF less
  <2>. QED BY <2>2, <2>3
<1>. QED BY <1>1, <1>2, <1>3 DEF Keys

\* With the id to break ties it is a strict total order of ids.
LEMMA LessOrder ==
  ASSUME NEW i, i.rows \in Seq(RowType), NEW key \in Keys,
         NEW a \in DOMAIN i.rows, NEW b \in DOMAIN i.rows, NEW c \in DOMAIN i.rows
  PROVE  /\ Less(i, key, a, b) \in BOOLEAN
         /\ ~Less(i, key, a, a)
         /\ Less(i, key, a, b) /\ Less(i, key, b, c) => Less(i, key, a, c)
         /\ a # b => Less(i, key, a, b) \/ Less(i, key, b, a)
<1>. DEFINE x == i.rows[a]  y == i.rows[b]  z == i.rows[c]
            K(u, v) == KeyBefore(key, u, v)
<1>1. x \in RowType /\ y \in RowType /\ z \in RowType
      /\ a \in Nat /\ b \in Nat /\ c \in Nat
  <2>1. Len(i.rows) \in Nat /\ DOMAIN i.rows = 1..Len(i.rows)
    OBVIOUS
  <2>. QED BY <2>1
<1>2. /\ Less(i, key, a, b) <=> (K(x, y) \/ (~K(y, x) /\ a < b))
      /\ Less(i, key, b, a) <=> (K(y, x) \/ (~K(x, y) /\ b < a))
      /\ Less(i, key, b, c) <=> (K(y, z) \/ (~K(z, y) /\ b < c))
      /\ Less(i, key, a, c) <=> (K(x, z) \/ (~K(z, x) /\ a < c))
      /\ Less(i, key, a, a) <=> (K(x, x) \/ (~K(x, x) /\ a < a))
      /\ Less(i, key, a, b) \in BOOLEAN
  BY Zenon DEF Less
<1>3. /\ K(x, y) \in BOOLEAN /\ K(y, x) \in BOOLEAN /\ ~K(x, x)
      /\ K(x, y) /\ K(y, z) => K(x, z)
      /\ K(x, y) => K(x, z) \/ K(z, y)
      /\ K(y, x) => K(y, z) \/ K(z, x)
      /\ K(y, z) => K(y, x) \/ K(x, z)
      /\ K(z, y) => K(z, x) \/ K(x, y)
      /\ K(x, z) => K(x, y) \/ K(y, z)
      /\ K(z, x) => K(z, y) \/ K(y, x)
  BY <1>1, KeyOrder
<1>4. ~(K(x, y) /\ K(y, x)) /\ ~(K(x, z) /\ K(z, x)) /\ ~(K(y, z) /\ K(z, y))
  BY <1>1, KeyOrder
<1>. HIDE DEF x, y, z, K
<1>. QED BY <1>1, <1>2, <1>3, <1>4

\* Counting the smaller members numbers the members of a finite set in order.
LEMMA Ranking ==
  ASSUME NEW S, IsFiniteSet(S), NEW below \in [S -> SUBSET S],
         \A a \in S : a \notin below[a],
         \A a, b, c \in S : a \in below[b] /\ b \in below[c] => a \in below[c],
         \A a, b \in S : a # b => a \in below[b] \/ b \in below[a],
         NEW place, \A a \in S : place[a] = Cardinality(below[a])
  PROVE  /\ Cardinality(S) \in Nat
         /\ \A a \in S : place[a] \in 0..(Cardinality(S) - 1)
         /\ \A a, b \in S : a \in below[b] <=> place[a] < place[b]
         /\ \A a, b \in S : place[a] = place[b] => a = b
         /\ \A k \in 1..Cardinality(S) : \E a \in S : place[a] = k - 1
<1>. DEFINE n == Cardinality(S)
            places == [a \in S |-> place[a]]
<1>1. n \in Nat
  BY FS_CardinalityType
<1>2. ASSUME NEW a \in S PROVE place[a] \in 0..(n - 1) /\ IsFiniteSet(below[a])
  <2>1. below[a] \in SUBSET S /\ below[a] # S
    OBVIOUS
  <2>2. IsFiniteSet(below[a]) /\ Cardinality(below[a]) <= n /\ Cardinality(below[a]) # n
    BY <2>1, FS_Subset
  <2>3. Cardinality(below[a]) \in Nat
    BY <2>2, FS_CardinalityType
  <2>. QED BY <2>2, <2>3, <1>1
<1>3. places \in [S -> 0..(n - 1)]
  BY <1>2
<1>4. ASSUME NEW a \in S, NEW b \in S, a \in below[b] PROVE place[a] < place[b]
  <2>1. below[a] \in SUBSET below[b] /\ below[a] # below[b]
    BY <1>4
  <2>2. IsFiniteSet(below[b])
    BY <1>2
  <2>3. Cardinality(below[a]) <= Cardinality(below[b]) /\ Cardinality(below[a]) # Cardinality(below[b])
    BY <2>1, <2>2, FS_Subset
  <2>4. place[a] \in Nat /\ place[b] \in Nat
    BY <1>2
  <2>. QED BY <2>3, <2>4
<1>5. \A a, b \in S : a \in below[b] <=> place[a] < place[b]
  <2>1. ASSUME NEW a \in S, NEW b \in S, place[a] < place[b] PROVE a \in below[b]
    <3>1. place[a] \in Nat /\ place[b] \in Nat
      BY <1>2
    <3>2. a # b
      BY <2>1, <3>1
    <3>3. b \in below[a] => place[b] < place[a]
      BY <1>4
    <3>. QED BY <2>1, <3>1, <3>2, <3>3
  <2>. QED BY <2>1, <1>4
<1>6. \A a, b \in S : place[a] = place[b] => a = b
  <2>1. ASSUME NEW a \in S, NEW b \in S, place[a] = place[b], a # b PROVE FALSE
    <3>1. place[a] \in Nat /\ place[b] \in Nat
      BY <1>2
    <3>2. place[a] < place[b] \/ place[b] < place[a]
      BY <2>1, <1>4
    <3>. QED BY <2>1, <3>1, <3>2
  <2>. QED BY <2>1
<1>7. places \in Injection(S, 0..(n - 1))
  <2>1. \A a, b \in S : places[a] = places[b] => a = b
    BY <1>6
  <2>. QED BY <1>3, <2>1 DEF Injection, IsInjective
<1>8. IsFiniteSet(0..(n - 1)) /\ Cardinality(0..(n - 1)) = n
  BY <1>1, FS_Interval
<1>9. places \in Surjection(S, 0..(n - 1))
  <2>. HIDE DEF places
  <2>. QED BY <1>7, <1>8, FS_Injection
<1>10. \A k \in 1..n : \E a \in S : place[a] = k - 1
  <2>1. \A k \in 1..n : k - 1 \in 0..(n - 1)
    BY <1>1
  <2>. QED BY <2>1, <1>9 DEF Surjection
<1>. QED BY <1>1, <1>2, <1>5, <1>6, <1>10

----------------------------------------------------------------------------
(***************************************************************************)
(* Sorting, filtering and the merge of two runs (sort_entry_ids,           *)
(* merge_new_into_permutations).                                           *)
(***************************************************************************)
\* A list in the order of sort_entry_ids.
SortedIds(i, key, s) == \A a, b \in DOMAIN s : a < b => Less(i, key, s[a], s[b])

\* SortIds lists the ids once each, in order.
LEMMA SortIdsSorts ==
  ASSUME NEW i, i.rows \in Seq(RowType), NEW key \in Keys, NEW ids \in SUBSET DOMAIN i.rows
  PROVE  /\ SortIds(i, key, ids) \in Seq(ids)
         /\ Len(SortIds(i, key, ids)) = Cardinality(ids)
         /\ SortedIds(i, key, SortIds(i, key, ids))
<1>. DEFINE below == [a \in ids |-> {b \in ids : Less(i, key, b, a)}]
            before == [a \in ids |-> Cardinality({b \in ids : Less(i, key, b, a)})]
            n == Cardinality(ids)
            s == [k \in 1..n |-> CHOOSE a \in ids : before[a] = k - 1]
<1>1. IsFiniteSet(ids)
  <2>1. Len(i.rows) \in Nat /\ DOMAIN i.rows = 1..Len(i.rows)
    OBVIOUS
  <2>2. IsFiniteSet(1..Len(i.rows))
    BY <2>1, FS_Interval
  <2>. QED BY <2>1, <2>2, FS_Subset
<1>2. \A a, b \in ids : b \in below[a] <=> Less(i, key, b, a)
  OBVIOUS
<1>3. below \in [ids -> SUBSET ids] /\ \A a \in ids : before[a] = Cardinality(below[a])
  OBVIOUS
<1>4. /\ \A a \in ids : a \notin below[a]
      /\ \A a, b, c \in ids : a \in below[b] /\ b \in below[c] => a \in below[c]
      /\ \A a, b \in ids : a # b => a \in below[b] \/ b \in below[a]
  <2>. HIDE DEF below
  <2>. QED BY <1>2, LessOrder
<1>5. /\ n \in Nat
      /\ \A a \in ids : before[a] \in 0..(n - 1)
      /\ \A a, b \in ids : a \in below[b] <=> before[a] < before[b]
      /\ \A k \in 1..n : \E a \in ids : before[a] = k - 1
  <2>. HIDE DEF below, before
  <2>. QED BY <1>1, <1>3, <1>4, Ranking
<1>6. \A k \in 1..n : s[k] \in ids /\ before[s[k]] = k - 1
  <2>. HIDE DEF before
  <2>. QED BY <1>5
<1>7. s \in [1..n -> ids] /\ s \in Seq(ids) /\ Len(s) = n /\ DOMAIN s = 1..n
  <2>1. s \in [1..n -> ids]
    BY <1>6
  <2>2. n \in Nat
    BY <1>5
  <2>. HIDE DEF s, n
  <2>. QED BY <2>1, <2>2
<1>8. SortedIds(i, key, s)
  <2>1. ASSUME NEW a \in 1..n, NEW b \in 1..n, a < b PROVE Less(i, key, s[a], s[b])
    <3>1. before[s[a]] < before[s[b]]
      <4>1. before[s[a]] = a - 1 /\ before[s[b]] = b - 1 /\ a \in Int /\ b \in Int
        <5>. HIDE DEF before, s
        <5>. QED BY <1>6
      <4>. HIDE DEF before, s
      <4>. QED BY <4>1, <2>1
    <3>. HIDE DEF before, s, below
    <3>. QED BY <3>1, <1>2, <1>5, <1>6
  <2>. QED BY <1>7, <2>1 DEF SortedIds
<1>9. SortIds(i, key, ids) = s
  BY DEF SortIds
<1>. QED BY <1>7, <1>8, <1>9

\* The positions a filter keeps.
Positions(s, kept) == {i \in DOMAIN s : s[i] \in kept}

\* Filter numbers the positions it keeps in order.
LEMMA FilterPlaces ==
  ASSUME NEW X, NEW s \in Seq(X), NEW kept
  PROVE  LET at     == Positions(s, kept)
             before == [i \in at |-> Cardinality({j \in at : j < i})]
         IN  /\ Cardinality(at) \in Nat
             /\ \A a \in at : before[a] \in 0..(Cardinality(at) - 1)
             /\ \A a, b \in at : a < b <=> before[a] < before[b]
             /\ \A a, b \in at : before[a] = before[b] => a = b
             /\ \A k \in 1..Cardinality(at) : \E a \in at : before[a] = k - 1
             /\ IsFiniteSet(at)
<1>. DEFINE at == Positions(s, kept)
            before == [i \in at |-> Cardinality({j \in at : j < i})]
            below == [i \in at |-> {j \in at : j < i}]
<1>1. Len(s) \in Nat /\ DOMAIN s = 1..Len(s)
  OBVIOUS
<1>2. IsFiniteSet(at) /\ at \in SUBSET Nat
  <2>1. at \in SUBSET (1..Len(s))
    BY <1>1 DEF Positions
  <2>. HIDE DEF at
  <2>2. IsFiniteSet(1..Len(s))
    BY <1>1, FS_Interval
  <2>3. IsFiniteSet(at)
    BY <2>1, <2>2, FS_Subset
  <2>4. at \in SUBSET Nat
    BY <1>1, <2>1
  <2>. QED BY <2>3, <2>4
<1>3. \A a, b \in at : b \in below[a] <=> b < a
  OBVIOUS
<1>4. below \in [at -> SUBSET at] /\ \A a \in at : before[a] = Cardinality(below[a])
  <2>. HIDE DEF at
  <2>. QED OBVIOUS
<1>5. /\ \A a \in at : a \notin below[a]
      /\ \A a, b, c \in at : a \in below[b] /\ b \in below[c] => a \in below[c]
      /\ \A a, b \in at : a # b => a \in below[b] \/ b \in below[a]
  <2>. HIDE DEF at, below
  <2>. QED BY <1>2, <1>3
<1>6. /\ Cardinality(at) \in Nat
      /\ \A a \in at : before[a] \in 0..(Cardinality(at) - 1)
      /\ \A a, b \in at : a \in below[b] <=> before[a] < before[b]
      /\ \A a, b \in at : before[a] = before[b] => a = b
      /\ \A k \in 1..Cardinality(at) : \E a \in at : before[a] = k - 1
  <2>1. IsFiniteSet(at)
    BY <1>2
  <2>. HIDE DEF at, below, before
  <2>. QED BY <2>1, <1>4, <1>5, Ranking
<1>7. \A a, b \in at : a < b <=> before[a] < before[b]
  <2>. HIDE DEF at, below, before
  <2>. QED BY <1>3, <1>6
<1>. HIDE DEF at
<1>. QED BY <1>2, <1>6, <1>7 DEF at

\* What Filter returns is a subsequence: the positions p it keeps, in order.
LEMMA FilterKeeps ==
  ASSUME NEW X, NEW s \in Seq(X), NEW kept
  PROVE  /\ Filter(s, kept) \in Seq(X \cap kept)
         /\ Len(Filter(s, kept)) = Cardinality(Positions(s, kept))
         /\ \E p \in [DOMAIN Filter(s, kept) -> DOMAIN s] :
              /\ \A k \in DOMAIN Filter(s, kept) : Filter(s, kept)[k] = s[p[k]]
              /\ \A k, m \in DOMAIN Filter(s, kept) : k < m => p[k] < p[m]
<1>. DEFINE at == Positions(s, kept)
            before == [i \in at |-> Cardinality({j \in at : j < i})]
            n == Cardinality(at)
            p == [k \in 1..n |-> CHOOSE i \in at : before[i] = k - 1]
            f == [k \in 1..n |-> s[CHOOSE i \in at : before[i] = k - 1]]
<1>1. /\ n \in Nat
      /\ \A a, b \in at : a < b <=> before[a] < before[b]
      /\ \A k \in 1..n : \E a \in at : before[a] = k - 1
  BY FilterPlaces
<1>2. \A i \in at : i \in DOMAIN s /\ s[i] \in X \cap kept
  BY DEF Positions
<1>3. \A k \in 1..n : p[k] \in at /\ before[p[k]] = k - 1
  <2>. HIDE DEF before, at
  <2>. QED BY <1>1
<1>4. \A k \in 1..n : f[k] = s[p[k]]
  OBVIOUS
<1>5. f \in Seq(X \cap kept) /\ Len(f) = n /\ DOMAIN f = 1..n
  <2>1. f \in [1..n -> X \cap kept]
    <3>1. \A k \in 1..n : f[k] \in X \cap kept
      <4>. HIDE DEF f, p, at
      <4>. QED BY <1>2, <1>3, <1>4
    <3>. QED BY <3>1
  <2>2. n \in Nat
    BY <1>1
  <2>. HIDE DEF f, n
  <2>. QED BY <2>1, <2>2
<1>6. p \in [1..n -> DOMAIN s]
  BY <1>2, <1>3
<1>7. ASSUME NEW k \in 1..n, NEW m \in 1..n, k < m PROVE p[k] < p[m]
  <2>1. before[p[k]] < before[p[m]]
    <3>1. before[p[k]] = k - 1 /\ before[p[m]] = m - 1 /\ k \in Int /\ m \in Int
      <4>. HIDE DEF before, p
      <4>. QED BY <1>3
    <3>. HIDE DEF before, p
    <3>. QED BY <3>1, <1>7
  <2>. HIDE DEF before, at, p
  <2>. QED BY <2>1, <1>1, <1>3
<1>8. Filter(s, kept) = f
  BY DEF Filter, Positions
<1>. HIDE DEF f, p, n
<1>. QED BY <1>4, <1>5, <1>6, <1>7, <1>8 DEF n

\* What merging two sorted runs keeps true: the n ids taken are sorted and
\* before every id not taken yet.
Merging(i, key, left, right, ids, n, m) ==
  /\ m \in [ids : Seq(ids), l : 1..(Len(left) + 1), r : 1..(Len(right) + 1)]
  /\ Len(m.ids) = n /\ n = (m.l - 1) + (m.r - 1)
  /\ SortedIds(i, key, m.ids)
  /\ \A a \in DOMAIN m.ids :
       /\ \A k \in m.l..Len(left) : Less(i, key, m.ids[a], left[k])
       /\ \A k \in m.r..Len(right) : Less(i, key, m.ids[a], right[k])

\* An id after all others goes to the end of a sorted list.
LEMMA SortedAppend ==
  ASSUME NEW i, NEW key, NEW X, NEW s \in Seq(X), NEW x \in X, SortedIds(i, key, s),
         \A a \in DOMAIN s : Less(i, key, s[a], x)
  PROVE  /\ Append(s, x) \in Seq(X) /\ Len(Append(s, x)) = Len(s) + 1
         /\ SortedIds(i, key, Append(s, x))
<1>. DEFINE t == Append(s, x)
<1>1. /\ t \in Seq(X) /\ Len(t) = Len(s) + 1 /\ Len(s) \in Nat
      /\ DOMAIN s = 1..Len(s) /\ DOMAIN t = 1..(Len(s) + 1)
      /\ \A a \in 1..Len(s) : t[a] = s[a]
      /\ t[Len(s) + 1] = x
  OBVIOUS
<1>2. ASSUME NEW a \in DOMAIN t, NEW b \in DOMAIN t, a < b PROVE Less(i, key, t[a], t[b])
  <2>. HIDE DEF t
  <2>1. a \in DOMAIN s /\ t[a] = s[a]
    BY <1>1, <1>2
  <2>2. CASE b = Len(s) + 1
    BY <2>1, <2>2, <1>1
  <2>3. CASE b # Len(s) + 1
    <3>1. b \in DOMAIN s /\ t[b] = s[b]
      BY <1>1, <2>3
    <3>. QED BY <3>1, <2>1, <1>2 DEF SortedIds
  <2>. QED BY <2>2, <2>3
<1>. QED BY <1>1, <1>2 DEF SortedIds

\* One step of the merge of two runs takes the lesser head, and it belongs next.
LEMMA MergeStepKeeps ==
  ASSUME NEW i, i.rows \in Seq(RowType), NEW key \in Keys,
         NEW ids \in SUBSET DOMAIN i.rows, NEW left \in Seq(ids), NEW right \in Seq(ids),
         SortedIds(i, key, left), SortedIds(i, key, right),
         \A a \in DOMAIN left, b \in DOMAIN right : left[a] # right[b],
         NEW n \in 0..(Len(left) + Len(right) - 1), NEW m, Merging(i, key, left, right, ids, n, m)
  PROVE  Merging(i, key, left, right, ids, n + 1, MergeStep(i, key, left, right, m))
<1>. DEFINE P(a, b) == Less(i, key, a, b)
            next == MergeStep(i, key, left, right, m)
<1>1. /\ Len(left) \in Nat /\ Len(right) \in Nat
      /\ DOMAIN left = 1..Len(left) /\ DOMAIN right = 1..Len(right)
      /\ \A a \in DOMAIN left : left[a] \in ids
      /\ \A a \in DOMAIN right : right[a] \in ids
  OBVIOUS
<1>2. /\ m.ids \in Seq(ids) /\ m.l \in 1..(Len(left) + 1) /\ m.r \in 1..(Len(right) + 1)
      /\ Len(m.ids) = n /\ n = (m.l - 1) + (m.r - 1) /\ SortedIds(i, key, m.ids)
      /\ \A a \in DOMAIN m.ids : \A k \in m.l..Len(left) : P(m.ids[a], left[k])
      /\ \A a \in DOMAIN m.ids : \A k \in m.r..Len(right) : P(m.ids[a], right[k])
  BY DEF Merging
<1>3. \A a, b, c \in ids : /\ P(a, b) /\ P(b, c) => P(a, c)
                           /\ a # b => P(a, b) \/ P(b, a)
  BY LessOrder
<1>4. /\ \A a, b \in DOMAIN left : a < b => P(left[a], left[b])
      /\ \A a, b \in DOMAIN right : a < b => P(right[a], right[b])
  BY DEF SortedIds
<1>5. m.l <= Len(left) \/ m.r <= Len(right)
  BY <1>1, <1>2
<1>8. /\ m.l \in Nat /\ m.r \in Nat /\ n \in Nat
      /\ (m.l <= Len(left) => m.l \in DOMAIN left /\ m.l \in m.l..Len(left))
      /\ (m.r <= Len(right) => m.r \in DOMAIN right /\ m.r \in m.r..Len(right))
      /\ DOMAIN m.ids = 1..n /\ Len(left) + 1 \in Nat /\ Len(right) + 1 \in Nat
  <2>1. m.l \in Nat /\ m.r \in Nat
    BY <1>1, <1>2
  <2>2. n \in Nat /\ DOMAIN m.ids = 1..n
    BY <1>2
  <2>3. m.l >= 1 /\ m.r >= 1
    BY <1>1, <1>2
  <2>. HIDE DEF P, next
  <2>. QED BY <2>1, <2>2, <2>3, <1>1
<1>9. \A y \in ids : /\ Append(m.ids, y) \in Seq(ids)
                   /\ DOMAIN Append(m.ids, y) = 1..(n + 1)
                   /\ Append(m.ids, y)[n + 1] = y
                   /\ \A a \in 1..n : Append(m.ids, y)[a] = m.ids[a]
  <2>1. m.ids \in Seq(ids) /\ Len(m.ids) = n
    BY <1>2
  <2>2. \A y \in ids : Append(m.ids, y) \in Seq(ids) /\ DOMAIN Append(m.ids, y) = 1..(n + 1)
    BY <2>1
  <2>. QED BY <2>1, <2>2
<1>6. CASE m.r <= Len(right) /\ (m.l > Len(left) \/ P(right[m.r], left[m.l]))
  <2>. DEFINE x == right[m.r]
  <2>1. next = [ids |-> Append(m.ids, x), l |-> m.l, r |-> m.r + 1]
    BY <1>6 DEF MergeStep
  <2>. HIDE DEF next, P
  <2>2. m.r \in DOMAIN right /\ x \in ids /\ \A a \in DOMAIN m.ids : P(m.ids[a], x)
    BY <1>1, <1>2, <1>6, <1>8
  <2>3. \A k \in (m.r + 1)..Len(right) : P(x, right[k])
    <3>1. \A k \in (m.r + 1)..Len(right) : k \in DOMAIN right /\ m.r < k
      BY <1>1, <1>8
    <3>. QED BY <3>1, <1>4, <2>2
  <2>4. \A k \in m.l..Len(left) : P(x, left[k])
    <3>1. CASE m.l > Len(left)
      BY <3>1, <1>1, <1>2
    <3>2. CASE m.l <= Len(left)
      <4>1. P(x, left[m.l]) /\ m.l \in DOMAIN left
        BY <3>2, <1>1, <1>2, <1>6
      <4>2. ASSUME NEW k \in m.l..Len(left) PROVE P(x, left[k])
        <5>1. k \in DOMAIN left /\ m.l \in Nat /\ k \in Nat /\ (k = m.l \/ m.l < k)
          BY <1>1, <1>2
        <5>2. k = m.l \/ P(left[m.l], left[k])
          BY <5>1, <4>1, <1>4
        <5>3. left[k] \in ids /\ left[m.l] \in ids
          BY <5>1, <4>1, <1>1
        <5>. HIDE DEF P, x
        <5>. QED BY <5>2, <5>3, <4>1, <2>2, <1>3
      <4>. QED BY <4>2
    <3>. QED BY <3>1, <3>2, <1>1, <1>2
  <2>5. /\ next.ids \in Seq(ids) /\ Len(next.ids) = n + 1 /\ SortedIds(i, key, next.ids)
        /\ \A a \in DOMAIN m.ids : next.ids[a] = m.ids[a]
        /\ next.ids[n + 1] = x /\ DOMAIN next.ids = 1..(n + 1) /\ DOMAIN m.ids = 1..n
    <3>1. next.ids = Append(m.ids, x)
      BY <2>1
    <3>2. \A a \in DOMAIN m.ids : Less(i, key, m.ids[a], x)
      BY <2>2 DEF P
    <3>. HIDE DEF x
    <3>3. Append(m.ids, x) \in Seq(ids) /\ Len(Append(m.ids, x)) = Len(m.ids) + 1
          /\ SortedIds(i, key, Append(m.ids, x))
      BY <1>2, <2>2, <3>2, SortedAppend
    <3>4. /\ DOMAIN Append(m.ids, x) = 1..(n + 1)
          /\ Append(m.ids, x)[n + 1] = x
          /\ \A a \in 1..n : Append(m.ids, x)[a] = m.ids[a]
      BY <1>9, <2>2
    <3>. QED BY <3>1, <3>3, <3>4, <1>2, <1>8
  <2>6. next.l = m.l /\ next.r = m.r + 1
    BY <2>1
  <2>7. next \in [ids : Seq(ids), l : 1..(Len(left) + 1), r : 1..(Len(right) + 1)]
    <3>1. Append(m.ids, x) \in Seq(ids)
      BY <2>1, <2>5
    <3>2. m.r + 1 \in 1..(Len(right) + 1)
      <4>1. m.r \in 1..Len(right)
        BY <1>1, <2>2
      <4>. QED BY <4>1, <1>1
    <3>. HIDE DEF x
    <3>. QED BY <3>1, <3>2, <2>1, <1>2
  <2>8. n + 1 = (next.l - 1) + (next.r - 1)
    <3>1. n = (m.l - 1) + (m.r - 1) /\ m.l \in Nat /\ m.r \in Nat /\ n \in Nat
      BY <1>2, <1>8
    <3>2. n + 1 = (m.l - 1) + (m.r + 1 - 1) /\ n + 1 = (m.l + 1 - 1) + (m.r - 1)
      BY <3>1
    <3>. QED BY <2>6, <3>1, <3>2
  <2>9. ASSUME NEW a \in DOMAIN next.ids
        PROVE  /\ \A k \in next.l..Len(left) : P(next.ids[a], left[k])
               /\ \A k \in next.r..Len(right) : P(next.ids[a], right[k])
    <3>. HIDE DEF x
    <3>1. CASE a = n + 1
      BY <3>1, <2>3, <2>4, <2>5, <2>6
    <3>2. CASE a # n + 1
      <4>1. a \in DOMAIN m.ids /\ next.ids[a] = m.ids[a]
        BY <3>2, <2>5, <1>8
      <4>2. \A k \in (m.r + 1)..Len(right) : k \in m.r..Len(right)
        BY <1>1, <1>8
      <4>. QED BY <4>1, <4>2, <2>6, <1>2
    <3>. QED BY <3>1, <3>2
  <2>10. Merging(i, key, left, right, ids, n + 1, next)
    BY <2>5, <2>7, <2>8, <2>9 DEF Merging, P
  <2>. QED BY <2>10 DEF next
<1>7. CASE ~(m.r <= Len(right) /\ (m.l > Len(left) \/ P(right[m.r], left[m.l])))
  <2>. DEFINE x == left[m.l]
  <2>1. next = [ids |-> Append(m.ids, x), l |-> m.l + 1, r |-> m.r]
    BY <1>7 DEF MergeStep
  <2>. HIDE DEF next, P
  <2>0. m.l <= Len(left)
    BY <1>5, <1>7, <1>1, <1>2
  <2>2. m.l \in DOMAIN left /\ x \in ids /\ \A a \in DOMAIN m.ids : P(m.ids[a], x)
    BY <1>1, <1>2, <2>0, <1>8
  <2>3. \A k \in (m.l + 1)..Len(left) : P(x, left[k])
    <3>1. \A k \in (m.l + 1)..Len(left) : k \in DOMAIN left /\ m.l < k
      BY <1>1, <1>8
    <3>. QED BY <3>1, <1>4, <2>2
  <2>4. \A k \in m.r..Len(right) : P(x, right[k])
    <3>1. CASE m.r > Len(right)
      BY <3>1, <1>1, <1>2
    <3>2. CASE m.r <= Len(right)
      <4>0. m.r \in DOMAIN right /\ ~P(right[m.r], left[m.l]) /\ right[m.r] \in ids
        BY <3>2, <1>1, <1>2, <1>7, <2>0
      <4>1. P(x, right[m.r])
        <5>1. x # right[m.r]
          BY <4>0, <2>2
        <5>. QED BY <5>1, <4>0, <2>2, <1>3
      <4>2. ASSUME NEW k \in m.r..Len(right) PROVE P(x, right[k])
        <5>1. k \in DOMAIN right /\ m.r \in Nat /\ k \in Nat /\ (k = m.r \/ m.r < k)
          BY <1>1, <1>2
        <5>2. k = m.r \/ P(right[m.r], right[k])
          BY <5>1, <4>0, <1>4
        <5>3. right[k] \in ids
          BY <5>1, <1>1
        <5>. HIDE DEF P, x
        <5>. QED BY <5>2, <5>3, <4>0, <4>1, <2>2, <1>3
      <4>. QED BY <4>2
    <3>. QED BY <3>1, <3>2, <1>1, <1>2
  <2>5. /\ next.ids \in Seq(ids) /\ Len(next.ids) = n + 1 /\ SortedIds(i, key, next.ids)
        /\ \A a \in DOMAIN m.ids : next.ids[a] = m.ids[a]
        /\ next.ids[n + 1] = x /\ DOMAIN next.ids = 1..(n + 1) /\ DOMAIN m.ids = 1..n
    <3>1. next.ids = Append(m.ids, x)
      BY <2>1
    <3>2. \A a \in DOMAIN m.ids : Less(i, key, m.ids[a], x)
      BY <2>2 DEF P
    <3>. HIDE DEF x
    <3>3. Append(m.ids, x) \in Seq(ids) /\ Len(Append(m.ids, x)) = Len(m.ids) + 1
          /\ SortedIds(i, key, Append(m.ids, x))
      BY <1>2, <2>2, <3>2, SortedAppend
    <3>4. /\ DOMAIN Append(m.ids, x) = 1..(n + 1)
          /\ Append(m.ids, x)[n + 1] = x
          /\ \A a \in 1..n : Append(m.ids, x)[a] = m.ids[a]
      BY <1>9, <2>2
    <3>. QED BY <3>1, <3>3, <3>4, <1>2, <1>8
  <2>6. next.l = m.l + 1 /\ next.r = m.r
    BY <2>1
  <2>7. next \in [ids : Seq(ids), l : 1..(Len(left) + 1), r : 1..(Len(right) + 1)]
    <3>1. Append(m.ids, x) \in Seq(ids)
      BY <2>1, <2>5
    <3>2. m.l + 1 \in 1..(Len(left) + 1)
      <4>1. m.l \in 1..Len(left)
        BY <1>1, <2>2
      <4>. QED BY <4>1, <1>1
    <3>. HIDE DEF x
    <3>. QED BY <3>1, <3>2, <2>1, <1>2
  <2>8. n + 1 = (next.l - 1) + (next.r - 1)
    <3>1. n = (m.l - 1) + (m.r - 1) /\ m.l \in Nat /\ m.r \in Nat /\ n \in Nat
      BY <1>2, <1>8
    <3>2. n + 1 = (m.l - 1) + (m.r + 1 - 1) /\ n + 1 = (m.l + 1 - 1) + (m.r - 1)
      BY <3>1
    <3>. QED BY <2>6, <3>1, <3>2
  <2>9. ASSUME NEW a \in DOMAIN next.ids
        PROVE  /\ \A k \in next.l..Len(left) : P(next.ids[a], left[k])
               /\ \A k \in next.r..Len(right) : P(next.ids[a], right[k])
    <3>. HIDE DEF x
    <3>1. CASE a = n + 1
      BY <3>1, <2>3, <2>4, <2>5, <2>6
    <3>2. CASE a # n + 1
      <4>1. a \in DOMAIN m.ids /\ next.ids[a] = m.ids[a]
        BY <3>2, <2>5, <1>8
      <4>2. \A k \in (m.l + 1)..Len(left) : k \in m.l..Len(left)
        BY <1>1, <1>8
      <4>. QED BY <4>1, <4>2, <2>6, <1>2
    <3>. QED BY <3>1, <3>2
  <2>10. Merging(i, key, left, right, ids, n + 1, next)
    BY <2>5, <2>7, <2>8, <2>9 DEF Merging, P
  <2>. QED BY <2>10 DEF next
<1>. QED BY <1>6, <1>7

\* Merging two sorted runs without a common id gives all of both, sorted.
LEMMA MergeRunsSorts ==
  ASSUME NEW i, i.rows \in Seq(RowType), NEW key \in Keys,
         NEW ids \in SUBSET DOMAIN i.rows, NEW left \in Seq(ids), NEW right \in Seq(ids),
         SortedIds(i, key, left), SortedIds(i, key, right),
         \A a \in DOMAIN left, b \in DOMAIN right : left[a] # right[b]
  PROVE  /\ MergeRuns(i, key, left, right) \in Seq(ids)
         /\ Len(MergeRuns(i, key, left, right)) = Len(left) + Len(right)
         /\ SortedIds(i, key, MergeRuns(i, key, left, right))
<1>. DEFINE total == Len(left) + Len(right)
            S == [ids : Seq(ids), l : 1..(Len(left) + 1), r : 1..(Len(right) + 1)]
            first == [ids |-> <<>>, l |-> 1, r |-> 1]
            next(m) == MergeStep(i, key, left, right, m)
            step == [m \in S |-> IF next(m) \in S THEN next(m) ELSE m]
            Good(n, m) == Merging(i, key, left, right, ids, n, m)
            Def(f) == f = [n \in 0..total |-> IF n = 0 THEN first ELSE next(f[n - 1])]
            merged == CHOOSE f : Def(f)
<1>1. total \in Nat /\ Len(left) \in Nat /\ Len(right) \in Nat
  OBVIOUS
<1>2. first \in S /\ Good(0, first)
  <2>1. <<>> \in Seq(ids) /\ Len(<<>>) = 0 /\ DOMAIN <<>> = {}
    OBVIOUS
  <2>2. 1 \in 1..(Len(left) + 1) /\ 1 \in 1..(Len(right) + 1)
    BY <1>1
  <2>3. first \in S
    BY <2>1, <2>2
  <2>4. first.ids = <<>> /\ first.l = 1 /\ first.r = 1
    OBVIOUS
  <2>5. SortedIds(i, key, <<>>)
    BY <2>1 DEF SortedIds
  <2>. HIDE DEF first
  <2>. QED BY <2>1, <2>3, <2>4, <2>5 DEF Merging
<1>3. ASSUME NEW n \in 0..(total - 1), NEW m, Good(n, m) PROVE Good(n + 1, next(m))
  <2>1. Merging(i, key, left, right, ids, n, m)
    BY <1>3
  <2>2. n \in 0..(Len(left) + Len(right) - 1)
    OBVIOUS
  <2>. HIDE DEF S, first, next, step, Good, Def, merged, total
  <2>3. Merging(i, key, left, right, ids, n + 1, MergeStep(i, key, left, right, m))
    BY <2>1, <2>2, MergeStepKeeps
  <2>. QED BY <2>3 DEF next, Good
<1>4. ASSUME NEW n, NEW m, Good(n, m) PROVE m \in S
  BY <1>4 DEF Merging
<1>5. step \in [S -> S]
  OBVIOUS
<1>6. PICK f \in [0..total -> S] : f[0] = first /\ \A k \in 1..total : f[k] = step[f[k - 1]]
  <2>1. first \in S
    BY <1>2
  <2>2. total \in Nat
    BY <1>1
  <2>. HIDE DEF S, first, step, total, next, Good, Def, merged
  <2>3. Iterates(total, S, first, step) # {}
    BY <2>1, <2>2, <1>5, RecursionExists
  <2>. QED BY <2>3 DEF Iterates
<1>. HIDE DEF first, next, Good, S
<1>7. \A k \in 0..total : Good(k, f[k])
  <2>. DEFINE A == {k \in 0..total : Good(k, f[k])}
  <2>1. 0 \in A
    BY <1>1, <1>2, <1>6
  <2>2. ASSUME NEW k \in 1..total, k - 1 \in A PROVE k \in A
    <3>0. k - 1 \in 0..(total - 1) /\ k \in 0..total /\ (k - 1) + 1 = k
      BY <1>1
    <3>1. Good(k - 1, f[k - 1])
      BY <2>2
    <3>2. Good(k, next(f[k - 1]))
      BY <3>0, <3>1, <1>3
    <3>3. next(f[k - 1]) \in S /\ f[k - 1] \in S
      BY <3>1, <3>2, <1>4
    <3>4. step[f[k - 1]] = next(f[k - 1])
      BY <3>3
    <3>. QED BY <3>0, <3>2, <3>4, <1>6
  <2>3. 0..total \subseteq A
    <3>. HIDE DEF A, total
    <3>. QED BY <1>1, <2>1, <2>2, InductUpTo
  <2>. QED BY <2>3
<1>8. \A k \in 1..total : f[k] = next(f[k - 1])
  <2>. SUFFICES ASSUME NEW k \in 1..total PROVE f[k] = next(f[k - 1])
    OBVIOUS
  <2>0. k - 1 \in 0..(total - 1) /\ k - 1 \in 0..total /\ (k - 1) + 1 = k
    BY <1>1
  <2>1. Good(k - 1, f[k - 1])
    BY <2>0, <1>7
  <2>2. next(f[k - 1]) \in S /\ f[k - 1] \in S
    BY <2>0, <2>1, <1>3, <1>4
  <2>3. step[f[k - 1]] = next(f[k - 1])
    BY <2>2
  <2>. QED BY <2>3, <1>6
<1>9. Def(f)
  <2>1. \A n \in 0..total : f[n] = IF n = 0 THEN first ELSE next(f[n - 1])
    <3>1. \A n \in 0..total : n = 0 \/ n \in 1..total
      BY <1>1
    <3>. HIDE DEF total
    <3>. QED BY <3>1, <1>6, <1>8
  <2>2. f = [n \in 0..total |-> f[n]]
    BY <1>6
  <2>. HIDE DEF total
  <2>. QED BY <2>1, <2>2
<1>10. Def(merged)
  <2>. HIDE DEF Def
  <2>. QED BY <1>9
<1>11. merged = f
  <2>. HIDE DEF merged
  <2>1. /\ merged = [n \in 0..total |-> merged[n]]
        /\ \A n \in 0..total : merged[n] = IF n = 0 THEN first ELSE next(merged[n - 1])
    BY <1>10
  <2>. DEFINE A == {k \in 0..total : merged[k] = f[k]}
  <2>2. 0 \in A
    <3>1. 0 \in 0..total
      BY <1>1
    <3>. HIDE DEF total
    <3>. QED BY <3>1, <1>6, <2>1
  <2>3. ASSUME NEW k \in 1..total, k - 1 \in A PROVE k \in A
    <3>1. k \in 0..total /\ k # 0 /\ merged[k - 1] = f[k - 1]
      BY <1>1, <2>3
    <3>2. merged[k] = next(merged[k - 1]) /\ f[k] = next(f[k - 1])
      BY <3>1, <2>1, <1>8
    <3>. QED BY <3>1, <3>2
  <2>4. 0..total \subseteq A
    <3>. HIDE DEF A, total
    <3>. QED BY <1>1, <2>2, <2>3, InductUpTo
  <2>5. \A k \in 0..total : merged[k] = f[k]
    BY <2>4
  <2>6. f = [n \in 0..total |-> f[n]]
    BY <1>6
  <2>. HIDE DEF total
  <2>. QED BY <2>1, <2>5, <2>6
<1>12. MergeRuns(i, key, left, right) = merged[total].ids
  BY DEF MergeRuns, next, first
<1>13. Good(total, f[total])
  BY <1>1, <1>7
<1>. HIDE DEF merged, total
<1>14. /\ f[total].ids \in Seq(ids) /\ Len(f[total].ids) = total
       /\ SortedIds(i, key, f[total].ids)
  BY <1>13 DEF Merging, Good
<1>. QED BY <1>11, <1>12, <1>14 DEF total

----------------------------------------------------------------------------
(***************************************************************************)
(* Filtering element by element, and the merge across volumes              *)
(* (merge_permutations).                                                   *)
(***************************************************************************)
\* The members of a set of numbers below i.
Place(at, i) == Cardinality({j \in at : j < i})

\* f lists the elements of s that are in keep, each at the place of its position.
Filtered(s, kept, f) ==
  LET at == Positions(s, kept)
  IN  /\ Len(f) = Cardinality(at) /\ Cardinality(at) \in Nat /\ IsFiniteSet(at)
      /\ \A i \in at : Place(at, i) + 1 \in 1..Cardinality(at) /\ f[Place(at, i) + 1] = s[i]
      /\ \A i, j \in at : i < j <=> Place(at, i) < Place(at, j)
      /\ \A k \in 1..Cardinality(at) : \E i \in at : Place(at, i) + 1 = k

\* Filter puts each kept element at the place of its position among the kept ones.
LEMMA FilterAt ==
  ASSUME NEW X, NEW s \in Seq(X), NEW kept
  PROVE  Filter(s, kept) \in Seq(X \cap kept) /\ Filtered(s, kept, Filter(s, kept))
<1>. DEFINE at == Positions(s, kept)
            before == [i \in at |-> Cardinality({j \in at : j < i})]
            n == Cardinality(at)
            f == [k \in 1..n |-> s[CHOOSE i \in at : before[i] = k - 1]]
<1>1. /\ n \in Nat /\ IsFiniteSet(at)
      /\ \A a \in at : before[a] \in 0..(n - 1)
      /\ \A a, b \in at : a < b <=> before[a] < before[b]
      /\ \A a, b \in at : before[a] = before[b] => a = b
      /\ \A k \in 1..n : \E a \in at : before[a] = k - 1
  BY FilterPlaces
<1>2. Filter(s, kept) = f
  BY DEF Filter, Positions
<1>3. Len(Filter(s, kept)) = n /\ Filter(s, kept) \in Seq(X \cap kept)
  BY FilterKeeps
<1>4. \A i \in at : before[i] = Place(at, i)
  BY DEF Place
<1>. HIDE DEF at, before
<1>5. ASSUME NEW i \in at PROVE Place(at, i) + 1 \in 1..n /\ f[Place(at, i) + 1] = s[i]
  <2>1. before[i] \in 0..(n - 1) /\ before[i] = Place(at, i)
    BY <1>1, <1>4
  <2>2. before[i] + 1 \in 1..n /\ (before[i] + 1) - 1 = before[i]
    BY <2>1, <1>1
  <2>3. (CHOOSE a \in at : before[a] = (before[i] + 1) - 1) = i
    BY <2>2, <1>1
  <2>4. f[before[i] + 1] = s[CHOOSE a \in at : before[a] = (before[i] + 1) - 1]
    BY <2>2
  <2>. HIDE DEF f
  <2>. QED BY <2>1, <2>2, <2>3, <2>4
<1>6. \A k \in 1..n : \E i \in at : Place(at, i) + 1 = k
  <2>. SUFFICES ASSUME NEW k \in 1..n PROVE \E i \in at : Place(at, i) + 1 = k
    OBVIOUS
  <2>1. PICK i \in at : before[i] = k - 1
    BY <1>1
  <2>2. Place(at, i) = k - 1
    BY <2>1, <1>4
  <2>. QED BY <2>2, <1>1
<1>7. \A i, j \in at : i < j <=> Place(at, i) < Place(at, j)
  BY <1>1, <1>4
<1>. HIDE DEF f, n
<1>8. Filtered(s, kept, f)
  BY <1>1, <1>2, <1>3, <1>5, <1>6, <1>7 DEF n, at, Filtered
<1>. QED BY <1>2, <1>3, <1>8

\* Filtering a longer list filters the shorter one first.
LEMMA FilterAppend ==
  ASSUME NEW X, NEW s \in Seq(X), NEW x \in X, NEW kept
  PROVE  Filter(Append(s, x), kept) = IF x \in kept THEN Append(Filter(s, kept), x)
                                      ELSE Filter(s, kept)
<1>. DEFINE t == Append(s, x)
            old == Positions(s, kept)
            new == Positions(t, kept)
            f == Filter(s, kept)
            g == Filter(t, kept)
            final == Len(s) + 1
<1>1. /\ t \in Seq(X) /\ Len(s) \in Nat /\ final \in Nat /\ DOMAIN s = 1..Len(s) /\ DOMAIN t = 1..final
      /\ \A a \in 1..Len(s) : t[a] = s[a]
      /\ t[final] = x
      /\ \A a \in 1..final : a = final \/ a \in 1..Len(s)
  OBVIOUS
<1>2. /\ \A a \in old : a \in 1..Len(s) /\ t[a] = s[a] /\ a < final
      /\ new = IF x \in kept THEN old \cup {final} ELSE old
  <2>. HIDE DEF t, final
  <2>1. \A a \in old : a \in 1..Len(s) /\ t[a] = s[a] /\ a < final
    BY <1>1 DEF Positions, final
  <2>2. \A a : a \in new <=> a \in 1..final /\ t[a] \in kept
    BY <1>1 DEF Positions
  <2>3. \A a : a \in old <=> a \in 1..Len(s) /\ s[a] \in kept
    BY <1>1 DEF Positions
  <2>. HIDE DEF old, new
  <2>4. final \in 1..final /\ \A a \in 1..Len(s) : a \in 1..final /\ a # final
    BY <1>1 DEF final
  <2>5. CASE x \in kept
    <3>1. \A a : a \in new <=> a \in old \/ a = final
      BY <2>2, <2>3, <2>4, <2>5, <1>1
    <3>. QED BY <3>1, <2>1, <2>5
  <2>6. CASE x \notin kept
    <3>1. \A a : a \in new <=> a \in old
      BY <2>2, <2>3, <2>4, <2>6, <1>1
    <3>. QED BY <3>1, <2>1, <2>6
  <2>. QED BY <2>5, <2>6
<1>3. /\ Len(f) = Cardinality(old) /\ Cardinality(old) \in Nat /\ IsFiniteSet(old)
      /\ f \in Seq(X)
      /\ \A i \in old : Place(old, i) + 1 \in 1..Cardinality(old) /\ f[Place(old, i) + 1] = s[i]
  <2>1. f \in Seq(X \cap kept)
    BY FilterAt
  <2>2. f \in Seq(X)
    BY <2>1
  <2>3. /\ Len(f) = Cardinality(old) /\ Cardinality(old) \in Nat /\ IsFiniteSet(old)
        /\ \A i \in old : Place(old, i) + 1 \in 1..Cardinality(old) /\ f[Place(old, i) + 1] = s[i]
    <3>1. Filtered(s, kept, f)
      BY FilterAt
    <3>. HIDE DEF f
    <3>. QED BY <3>1 DEF Filtered
  <2>. HIDE DEF f, old
  <2>. QED BY <2>2, <2>3
<1>4. /\ Len(g) = Cardinality(new) /\ Cardinality(new) \in Nat
      /\ g \in Seq(X)
      /\ \A i \in new : g[Place(new, i) + 1] = t[i]
      /\ \A k \in 1..Cardinality(new) : \E i \in new : Place(new, i) + 1 = k
  <2>1. g \in Seq(X \cap kept)
    BY <1>1, FilterAt
  <2>2. g \in Seq(X)
    BY <2>1
  <2>. HIDE DEF t
  <2>3. /\ Len(g) = Cardinality(new) /\ Cardinality(new) \in Nat
        /\ \A i \in new : g[Place(new, i) + 1] = t[i]
        /\ \A k \in 1..Cardinality(new) : \E i \in new : Place(new, i) + 1 = k
    <3>1. Filtered(t, kept, g)
      BY <1>1, FilterAt
    <3>. HIDE DEF g
    <3>. QED BY <3>1 DEF Filtered
  <2>. HIDE DEF g, new
  <2>. QED BY <2>2, <2>3
<1>5. ASSUME NEW i \in old PROVE Place(new, i) = Place(old, i)
  <2>1. {j \in new : j < i} = {j \in old : j < i}
    <3>1. i \in Nat /\ i < final
      BY <1>1, <1>2
    <3>2. ~(final < i)
      BY <3>1, <1>1
    <3>. HIDE DEF old, new, final
    <3>. QED BY <3>2, <1>2
  <2>. HIDE DEF old, new
  <2>. QED BY <2>1 DEF Place
<1>6. CASE x \in kept
  <2>1. new = old \cup {final} /\ final \notin old
    <3>1. final \notin 1..Len(s)
      BY <1>1
    <3>. HIDE DEF old, new, final
    <3>. QED BY <3>1, <1>2, <1>6
  <2>2. Cardinality(new) = Cardinality(old) + 1
    <3>. HIDE DEF old, new, final
    <3>. QED BY <2>1, <1>3, FS_AddElement
  <2>3. Place(new, final) = Cardinality(old)
    <3>1. {j \in new : j < final} = old
      <4>1. ~(final < final)
        BY <1>1
      <4>. HIDE DEF old, new, final
      <4>. QED BY <2>1, <4>1, <1>2
    <3>. HIDE DEF old, new, final
    <3>. QED BY <3>1 DEF Place
  <2>. HIDE DEF old, new, f, g, t
  <2>4. DOMAIN g = 1..(Len(f) + 1) /\ DOMAIN Append(f, x) = 1..(Len(f) + 1)
    BY <1>3, <1>4, <2>2
  <2>5. ASSUME NEW k \in 1..(Len(f) + 1) PROVE g[k] = Append(f, x)[k]
    <3>1. PICK i \in new : Place(new, i) + 1 = k
      BY <1>3, <1>4, <2>2
    <3>2. g[k] = t[i]
      BY <3>1, <1>4
    <3>3. CASE i = final
      <4>1. k = Len(f) + 1
        BY <3>1, <3>3, <2>3, <1>3
      <4>2. Append(f, x)[k] = x
        BY <4>1, <1>3
      <4>. HIDE DEF final
      <4>. QED BY <3>2, <3>3, <4>2, <1>1
    <3>4. CASE i # final
      <4>1. i \in old /\ t[i] = s[i]
        <5>. HIDE DEF final
        <5>. QED BY <3>4, <2>1, <1>2
      <4>2. Place(old, i) + 1 = k
        BY <4>1, <3>1, <1>5
      <4>3. k \in 1..Len(f) /\ f[k] = s[i]
        BY <4>1, <4>2, <1>3
      <4>4. Append(f, x)[k] = f[k]
        BY <4>3, <1>3
      <4>. QED BY <4>1, <4>3, <4>4, <3>2
    <3>. QED BY <3>3, <3>4
  <2>6. g = Append(f, x)
    <3>1. Append(f, x) \in Seq(X)
      BY <1>3
    <3>2. g = [k \in DOMAIN g |-> g[k]]
      BY <1>4
    <3>3. \A y \in Seq(X) : y = [k \in DOMAIN y |-> y[k]]
      OBVIOUS
    <3>. QED BY <3>1, <3>2, <3>3, <2>4, <2>5
  <2>. QED BY <2>6, <1>6 DEF f, g, t
<1>7. CASE x \notin kept
  <2>1. new = old
    BY <1>2, <1>7
  <2>. HIDE DEF old, new, f, g, t
  <2>2. DOMAIN g = 1..Len(f) /\ DOMAIN f = 1..Len(f)
    BY <1>3, <1>4, <2>1
  <2>3. ASSUME NEW k \in 1..Len(f) PROVE g[k] = f[k]
    <3>1. PICK i \in new : Place(new, i) + 1 = k
      BY <1>3, <1>4, <2>1
    <3>2. g[k] = t[i] /\ t[i] = s[i] /\ f[k] = s[i]
      BY <3>1, <1>2, <1>3, <1>4, <2>1
    <3>. QED BY <3>2
  <2>4. g = f
    <3>1. g = [k \in DOMAIN g |-> g[k]] /\ f = [k \in DOMAIN f |-> f[k]]
      BY <1>3, <1>4
    <3>. QED BY <3>1, <2>2, <2>3
  <2>. QED BY <2>4, <1>7 DEF f, g, t
<1>. QED BY <1>6, <1>7

\* Every index holds rows.
IndexRows == \A v \in Vols : idx[v].rows \in Seq(RowType)

\* The entries of the indexes as they are.
Entries == {e \in [v : Vols, id : Nat] : e.id \in DOMAIN idx[e.v].rows}

\* cmp_entries is a strict weak order across volumes, in either direction.
LEMMA EntryOrder ==
  ASSUME IndexRows, NEW q, q.sort \in Keys, q.desc \in BOOLEAN,
         NEW a \in Entries, NEW b \in Entries, NEW c \in Entries
  PROVE  /\ EntryBefore(a, b, q) \in BOOLEAN
         /\ ~EntryBefore(a, a, q)
         /\ EntryBefore(a, b, q) /\ EntryBefore(b, c, q) => EntryBefore(a, c, q)
         /\ EntryBefore(a, b, q) => EntryBefore(a, c, q) \/ EntryBefore(c, b, q)
<1>. DEFINE x == idx[a.v].rows[a.id]  y == idx[b.v].rows[b.id]  z == idx[c.v].rows[c.id]
            K(u, v) == KeyBefore(q.sort, u, v)
<1>1. x \in RowType /\ y \in RowType /\ z \in RowType
  <2>1. ASSUME NEW e \in Entries PROVE idx[e.v].rows[e.id] \in RowType
    <3>1. e.v \in Vols /\ e.id \in DOMAIN idx[e.v].rows
      BY DEF Entries
    <3>2. idx[e.v].rows \in Seq(RowType)
      BY <3>1 DEF IndexRows
    <3>. QED BY <3>1, <3>2
  <2>. QED BY <2>1
<1>2. /\ K(x, y) \in BOOLEAN /\ K(y, x) \in BOOLEAN /\ ~K(x, x)
      /\ K(x, y) /\ K(y, z) => K(x, z)
      /\ K(x, y) => K(x, z) \/ K(z, y)
      /\ K(z, y) /\ K(y, x) => K(z, x)
      /\ K(y, x) => K(y, z) \/ K(z, x)
  BY <1>1, KeyOrder
<1>3. /\ EntryBefore(a, b, q) = IF q.desc THEN K(y, x) ELSE K(x, y)
      /\ EntryBefore(b, c, q) = IF q.desc THEN K(z, y) ELSE K(y, z)
      /\ EntryBefore(a, c, q) = IF q.desc THEN K(z, x) ELSE K(x, z)
      /\ EntryBefore(c, b, q) = IF q.desc THEN K(y, z) ELSE K(z, y)
      /\ EntryBefore(a, a, q) = IF q.desc THEN K(x, x) ELSE K(x, x)
  BY DEF EntryBefore
<1>. HIDE DEF x, y, z, K
<1>4. CASE q.desc = TRUE
  BY <1>2, <1>3, <1>4
<1>5. CASE q.desc = FALSE
  BY <1>2, <1>3, <1>5
<1>. QED BY <1>4, <1>5

\* What volumes of their own contributed, of rows that are there.
Captures(got) ==
  /\ Len(got) \in Nat /\ DOMAIN got = 1..Len(got)
  /\ \A g \in DOMAIN got :
       /\ got[g].v \in Vols /\ got[g].ids \in Seq(Nat)
       /\ \A k \in DOMAIN got[g].ids : got[g].ids[k] \in DOMAIN idx[got[g].v].rows
  /\ \A g, h \in DOMAIN got : got[g].v = got[h].v => g = h

\* What a volume contributed are entries of its index.
LEMMA EntryIsThere ==
  ASSUME NEW got, Captures(got), NEW g \in DOMAIN got, NEW k \in DOMAIN got[g].ids
  PROVE  /\ EntryAt(got, g, k) \in Entries
         /\ EntryAt(got, g, k).v = got[g].v /\ EntryAt(got, g, k).id = got[g].ids[k]
BY DEF Captures, Entries, EntryAt

\* The volumes the merge has not used up.
Open(got, cur) == {g \in DOMAIN got : cur[g] <= Len(got[g].ids)}

\* While a volume is left the merge has a least head: no open head is before it.
LEMMA LeastHeadIsLeast ==
  ASSUME IndexRows, NEW q, q.sort \in Keys, q.desc \in BOOLEAN,
         NEW got, Captures(got), NEW cur,
         \A g \in DOMAIN got : cur[g] \in Nat \ {0},
         Open(got, cur) # {}
  PROVE  /\ LeastHead(got, q, cur) \in Open(got, cur)
         /\ \A h \in Open(got, cur) :
              ~EntryBefore(EntryAt(got, h, cur[h]),
                           EntryAt(got, LeastHead(got, q, cur), cur[LeastHead(got, q, cur)]), q)
<1>. DEFINE open == Open(got, cur)
            head(g) == EntryAt(got, g, cur[g])
            B(g, h) == EntryBefore(head(g), head(h), q)
            P(g) == \A h \in open \ {g} : IF h < g THEN B(g, h) ELSE ~B(h, g)
            below == [g \in open |-> {h \in open : B(h, g) \/ (~B(g, h) /\ h < g)}]
            place == [g \in open |-> Cardinality(below[g])]
<1>1. IsFiniteSet(open) /\ open \in SUBSET Nat
  <2>1. Len(got) \in Nat /\ DOMAIN got = 1..Len(got) /\ open \in SUBSET DOMAIN got
    BY DEF Captures, Open
  <2>2. IsFiniteSet(1..Len(got))
    BY <2>1, FS_Interval
  <2>. HIDE DEF open
  <2>3. IsFiniteSet(open)
    BY <2>1, <2>2, FS_Subset
  <2>. QED BY <2>1, <2>3
<1>2. \A g \in open : head(g) \in Entries
  <2>. SUFFICES ASSUME NEW g \in open PROVE head(g) \in Entries
    OBVIOUS
  <2>1. g \in DOMAIN got /\ cur[g] <= Len(got[g].ids) /\ cur[g] \in Nat \ {0} /\ got[g].ids \in Seq(Nat)
    BY DEF Open, Captures
  <2>2. cur[g] \in DOMAIN got[g].ids
    BY <2>1
  <2>. QED BY <2>1, <2>2, EntryIsThere
<1>3. \A f, g, h \in open : /\ B(f, g) \in BOOLEAN /\ ~B(f, f)
                            /\ B(f, g) /\ B(g, h) => B(f, h)
                            /\ B(f, g) => B(f, h) \/ B(h, g)
  BY <1>2, EntryOrder
<1>4. \A g, h \in open : h \in below[g] <=> (B(h, g) \/ (~B(g, h) /\ h < g))
  OBVIOUS
<1>5. below \in [open -> SUBSET open] /\ \A g \in open : place[g] = Cardinality(below[g])
  OBVIOUS
<1>. HIDE DEF open, B, below, place
<1>6. /\ \A a \in open : a \notin below[a]
      /\ \A a, b \in open : a # b => a \in below[b] \/ b \in below[a]
  <2>1. /\ \A a \in open : ~(a < a)
        /\ \A a, b \in open : a # b => a < b \/ b < a
    BY <1>1
  <2>2. \A a \in open : a \notin below[a]
    BY <2>1, <1>3, <1>4
  <2>3. ASSUME NEW a \in open, NEW b \in open, a # b PROVE a \in below[b] \/ b \in below[a]
    <3>1. a < b \/ b < a
      BY <2>1, <2>3
    <3>2. B(a, b) \in BOOLEAN /\ B(b, a) \in BOOLEAN
      BY <1>3
    <3>. QED BY <3>1, <3>2, <1>4
  <2>. QED BY <2>2, <2>3
<1>7. \A a, b, c \in open : a \in below[b] /\ b \in below[c] => a \in below[c]
  <2>. SUFFICES ASSUME NEW a \in open, NEW b \in open, NEW c \in open,
                       a \in below[b], b \in below[c]
                PROVE  a \in below[c]
    OBVIOUS
  <2>1. (B(a, b) \/ (~B(b, a) /\ a < b)) /\ (B(b, c) \/ (~B(c, b) /\ b < c))
    BY <1>4
  <2>2. a < b /\ b < c => a < c
    BY <1>1
  <2>3. B(a, c) \/ (~B(c, a) /\ a < c)
    <3>1. /\ B(a, b) /\ B(b, c) => B(a, c)
          /\ B(c, a) => B(c, b) \/ B(b, a)
          /\ B(a, b) => B(a, c) \/ B(c, b)
          /\ B(b, c) => B(b, a) \/ B(a, c)
          /\ ~(B(a, b) /\ B(b, a)) /\ ~(B(b, c) /\ B(c, b))
      BY <1>3
    <3>2. B(a, c) \in BOOLEAN /\ B(c, a) \in BOOLEAN /\ B(a, b) \in BOOLEAN
          /\ B(b, a) \in BOOLEAN /\ B(b, c) \in BOOLEAN /\ B(c, b) \in BOOLEAN
      BY <1>3
    <3>. QED BY <2>1, <2>2, <3>1, <3>2
  <2>. QED BY <2>3, <1>4
<1>8. PICK g \in open : place[g] = 0
  <2>1. /\ Cardinality(open) \in Nat
        /\ \A k \in 1..Cardinality(open) : \E a \in open : place[a] = k - 1
    <3>1. IsFiniteSet(open)
      BY <1>1
    <3>. QED BY <3>1, <1>5, <1>6, <1>7, Ranking
  <2>2. Cardinality(open) # 0
    BY <1>1, FS_EmptySet DEF open
  <2>3. 1 \in 1..Cardinality(open) /\ 1 - 1 = 0
    BY <2>1, <2>2
  <2>. QED BY <2>1, <2>3
<1>9. \A h \in open \ {g} : h \notin below[g] /\ g \in below[h]
  <2>1. below[g] \in SUBSET open
    BY <1>5
  <2>2. IsFiniteSet(below[g])
    BY <1>1, <2>1, FS_Subset
  <2>3. below[g] = {}
    BY <1>5, <1>8, <2>2, FS_EmptySet
  <2>. QED BY <2>3, <1>6
<1>10. P(g)
  <2>. SUFFICES ASSUME NEW h \in open \ {g} PROVE IF h < g THEN B(g, h) ELSE ~B(h, g)
    OBVIOUS
  <2>1. (B(g, h) \/ (~B(h, g) /\ g < h)) /\ ~(B(h, g) \/ (~B(g, h) /\ h < g))
    BY <1>4, <1>9
  <2>. QED BY <2>1, <1>3
<1>11. LeastHead(got, q, cur) = CHOOSE x \in open : P(x)
  BY DEF LeastHead, open, Open, B
<1>. DEFINE least == LeastHead(got, q, cur)
<1>12. least \in open /\ P(least)
  <2>1. \E x \in open : P(x)
    BY <1>10
  <2>. HIDE DEF P
  <2>. QED BY <1>11, <2>1
<1>13. ASSUME NEW h \in open PROVE ~B(h, least)
  <2>. HIDE DEF least
  <2>1. CASE h = least
    BY <2>1, <1>3
  <2>2. CASE h # least
    <3>1. IF h < least THEN B(least, h) ELSE ~B(h, least)
      BY <2>2, <1>12
    <3>2. B(least, h) /\ B(h, least) => B(least, least)
      BY <1>3, <1>12
    <3>. QED BY <3>1, <3>2, <1>3, <1>12
  <2>. QED BY <2>1, <2>2
<1>. QED BY <1>12, <1>13 DEF B, open

\* The entries to merge, as volume and position, and those a merge at cur has taken.
AllIds(got) == UNION {{g} \X DOMAIN got[g].ids : g \in DOMAIN got}
Taken(got, cur) == {p \in AllIds(got) : p[2] < cur[p[1]]}

\* There are finitely many entries to merge.
LEMMA AllIdsFinite ==
  ASSUME NEW got, Captures(got)
  PROVE  /\ IsFiniteSet(AllIds(got))
         /\ \A g, k : <<g, k>> \in AllIds(got) <=> g \in DOMAIN got /\ k \in DOMAIN got[g].ids
         /\ \A p \in AllIds(got) :
              p = <<p[1], p[2]>> /\ p[1] \in DOMAIN got /\ p[2] \in DOMAIN got[p[1]].ids
<1>. DEFINE f == [g \in DOMAIN got |-> {g} \X DOMAIN got[g].ids]
            sets == {{g} \X DOMAIN got[g].ids : g \in DOMAIN got}
<1>1. f \in Surjection(DOMAIN got, sets)
  BY DEF Surjection
<1>2. IsFiniteSet(DOMAIN got)
  <2>1. Len(got) \in Nat /\ DOMAIN got = 1..Len(got)
    BY DEF Captures
  <2>. QED BY <2>1, FS_Interval
<1>3. IsFiniteSet(sets)
  <2>. HIDE DEF f, sets
  <2>. QED BY <1>1, <1>2, FS_Surjection
<1>4. ASSUME NEW T \in sets PROVE IsFiniteSet(T)
  <2>1. PICK g \in DOMAIN got : T = {g} \X DOMAIN got[g].ids
    OBVIOUS
  <2>2. Len(got[g].ids) \in Nat /\ DOMAIN got[g].ids = 1..Len(got[g].ids)
    BY DEF Captures
  <2>3. IsFiniteSet(DOMAIN got[g].ids)
    <3>. DEFINE m == Len(got[g].ids)
    <3>1. m \in Int /\ 1 \in Int
      BY <2>2
    <3>. HIDE DEF m
    <3>2. IsFiniteSet(1..m)
      BY <3>1, FS_Interval
    <3>. QED BY <2>2, <3>2 DEF m
  <2>4. IsFiniteSet({g})
    BY FS_Singleton
  <2>. QED BY <2>1, <2>3, <2>4, FS_Product
<1>5. IsFiniteSet(UNION sets)
  <2>. HIDE DEF sets
  <2>. QED BY <1>3, <1>4, FS_UNION
<1>6. AllIds(got) = UNION sets
  BY DEF AllIds
<1>7. \A g, k : <<g, k>> \in AllIds(got) <=> g \in DOMAIN got /\ k \in DOMAIN got[g].ids
  BY DEF AllIds
<1>8. \A p \in AllIds(got) :
        p = <<p[1], p[2]>> /\ p[1] \in DOMAIN got /\ p[2] \in DOMAIN got[p[1]].ids
  BY DEF AllIds
<1>. QED BY <1>5, <1>6, <1>7, <1>8

\* The ids each volume contributed are in the order of the query.
Ordered(got, q) ==
  \A g \in DOMAIN got : \A a, b \in DOMAIN got[g].ids :
    a < b => ~EntryBefore(EntryAt(got, g, b), EntryAt(got, g, a), q)

\* One volume's entries.
OfVolume(v) == [v : {v}, id : Nat]

\* What the merge keeps true: n entries were taken, of each volume the first
\* ones in their order, and none is after an entry not taken yet.
MergingVolumes(got, q, n, m) ==
  /\ m = [rows |-> m.rows, cur |-> m.cur]
  /\ m.rows \in Seq(Entries) /\ Len(m.rows) = n
  /\ m.cur \in [DOMAIN got -> Nat]
  /\ \A g \in DOMAIN got : m.cur[g] \in 1..(Len(got[g].ids) + 1)
  /\ Cardinality(Taken(got, m.cur)) = n
  /\ \A g \in DOMAIN got :
       Filter(m.rows, OfVolume(got[g].v)) = [k \in 1..(m.cur[g] - 1) |-> EntryAt(got, g, k)]
  /\ \A i \in 1..n : \E g \in DOMAIN got : \E k \in DOMAIN got[g].ids :
       m.rows[i] = EntryAt(got, g, k)
  /\ Ordered(got, q) =>
       /\ \A i, j \in 1..n : i < j => ~EntryBefore(m.rows[j], m.rows[i], q)
       /\ \A i \in 1..n, g \in DOMAIN got : \A k \in m.cur[g]..Len(got[g].ids) :
            ~EntryBefore(EntryAt(got, g, k), m.rows[i], q)

\* One step of merge_permutations across volumes.
Take(got, q, m) ==
  LET g == LeastHead(got, q, m.cur)
  IN  [rows |-> Append(m.rows, EntryAt(got, g, m.cur[g])), cur |-> [m.cur EXCEPT ![g] = @ + 1]]

\* Until every entry is taken some volume has one left, and then none has.
LEMMA SomeIsOpen ==
  ASSUME NEW got, Captures(got), NEW cur \in [DOMAIN got -> Nat],
         \A g \in DOMAIN got : cur[g] \in 1..(Len(got[g].ids) + 1)
  PROVE  /\ Cardinality(Taken(got, cur)) \in Nat /\ IsFiniteSet(Taken(got, cur))
         /\ Cardinality(AllIds(got)) \in Nat
         /\ Cardinality(Taken(got, cur)) < Cardinality(AllIds(got)) => Open(got, cur) # {}
         /\ Cardinality(Taken(got, cur)) = Cardinality(AllIds(got)) =>
              \A g \in DOMAIN got : cur[g] = Len(got[g].ids) + 1
<1>. DEFINE all == AllIds(got)  taken == Taken(got, cur)
<1>1. IsFiniteSet(all) /\ Cardinality(all) \in Nat
  BY AllIdsFinite, FS_CardinalityType
<1>2. taken \in SUBSET all
  BY DEF Taken
<1>3. /\ IsFiniteSet(taken) /\ Cardinality(taken) <= Cardinality(all)
      /\ Cardinality(all) = Cardinality(taken) => all = taken
  <2>. HIDE DEF all, taken
  <2>. QED BY <1>1, <1>2, FS_Subset
<1>4. Cardinality(taken) \in Nat
  BY <1>3, FS_CardinalityType
<1>5. \A g \in DOMAIN got : /\ Len(got[g].ids) \in Nat /\ DOMAIN got[g].ids = 1..Len(got[g].ids)
                            /\ cur[g] \in Nat
  BY DEF Captures
<1>6. \A g, k : <<g, k>> \in taken <=> <<g, k>> \in all /\ k < cur[g]
  BY DEF Taken
<1>7. \A g, k : <<g, k>> \in all <=> g \in DOMAIN got /\ k \in DOMAIN got[g].ids
  BY AllIdsFinite
<1>8. ASSUME Open(got, cur) = {} PROVE all = taken
  <2>. SUFFICES ASSUME NEW p \in all PROVE p \in taken
    BY <1>2
  <2>1. p = <<p[1], p[2]>> /\ p[1] \in DOMAIN got /\ p[2] \in DOMAIN got[p[1]].ids
    BY AllIdsFinite
  <2>2. ~(cur[p[1]] <= Len(got[p[1]].ids))
    BY <1>8, <2>1 DEF Open
  <2>3. p[2] < cur[p[1]]
    BY <1>5, <2>1, <2>2
  <2>. QED BY <2>3 DEF Taken
<1>9. ASSUME all = taken, NEW g \in DOMAIN got PROVE cur[g] = Len(got[g].ids) + 1
  <2>1. CASE cur[g] <= Len(got[g].ids)
    <3>1. cur[g] \in DOMAIN got[g].ids
      BY <1>5, <2>1
    <3>2. <<g, cur[g]>> \in taken
      BY <1>7, <1>9, <3>1
    <3>3. cur[g] < cur[g]
      BY <1>6, <3>2
    <3>. QED BY <3>3, <1>5
  <2>2. CASE ~(cur[g] <= Len(got[g].ids))
    BY <1>5, <2>2
  <2>. QED BY <2>1, <2>2
<1>. HIDE DEF all, taken
<1>10. Cardinality(taken) < Cardinality(all) => Open(got, cur) # {}
  BY <1>1, <1>4, <1>8
<1>11. Cardinality(taken) = Cardinality(all) => \A g \in DOMAIN got : cur[g] = Len(got[g].ids) + 1
  BY <1>3, <1>9
<1>. QED BY <1>1, <1>3, <1>4, <1>10, <1>11 DEF all, taken

\* The cursors after volume h gave its head.
Advance(cur, h) == [cur EXCEPT ![h] = @ + 1]

\* A step takes exactly one entry more.
LEMMA TakenGrows ==
  ASSUME NEW got, Captures(got), NEW cur \in [DOMAIN got -> Nat],
         \A g \in DOMAIN got : cur[g] \in 1..(Len(got[g].ids) + 1),
         NEW h \in Open(got, cur)
  PROVE  /\ Advance(cur, h) \in [DOMAIN got -> Nat]
         /\ \A g \in DOMAIN got : Advance(cur, h)[g] \in 1..(Len(got[g].ids) + 1)
         /\ \A g \in DOMAIN got : Advance(cur, h)[g] = IF g = h THEN cur[h] + 1 ELSE cur[g]
         /\ Cardinality(Taken(got, Advance(cur, h))) = Cardinality(Taken(got, cur)) + 1
<1>. DEFINE new == Advance(cur, h)
<1>1. \A g \in DOMAIN got : /\ Len(got[g].ids) \in Nat /\ DOMAIN got[g].ids = 1..Len(got[g].ids)
                            /\ cur[g] \in Nat
  BY DEF Captures
<1>2. h \in DOMAIN got /\ cur[h] <= Len(got[h].ids)
  BY DEF Open
<1>3. new \in [DOMAIN got -> Nat] /\ \A g \in DOMAIN got : new[g] = IF g = h THEN cur[h] + 1 ELSE cur[g]
  BY <1>1, <1>2 DEF Advance
<1>. HIDE DEF new
<1>4. \A g \in DOMAIN got : new[g] \in 1..(Len(got[g].ids) + 1)
  <2>. SUFFICES ASSUME NEW g \in DOMAIN got PROVE new[g] \in 1..(Len(got[g].ids) + 1)
    OBVIOUS
  <2>1. CASE g = h
    <3>1. cur[h] \in Nat /\ Len(got[h].ids) \in Nat /\ new[h] = cur[h] + 1 /\ cur[h] >= 1
      BY <1>1, <1>2, <1>3
    <3>. QED BY <3>1, <2>1, <1>2
  <2>2. CASE g # h
    BY <1>3, <2>2
  <2>. QED BY <2>1, <2>2
<1>5. \A g, k : <<g, k>> \in AllIds(got) <=> g \in DOMAIN got /\ k \in DOMAIN got[g].ids
  BY AllIdsFinite
<1>6. <<h, cur[h]>> \in AllIds(got) /\ <<h, cur[h]>> \notin Taken(got, cur)
  <2>1. cur[h] \in DOMAIN got[h].ids /\ ~(cur[h] < cur[h])
    BY <1>1, <1>2
  <2>. QED BY <2>1, <1>2, <1>5 DEF Taken
<1>7. Taken(got, new) = Taken(got, cur) \cup {<<h, cur[h]>>}
  <2>1. ASSUME NEW p \in AllIds(got)
        PROVE  p[2] < new[p[1]] <=> (p[2] < cur[p[1]] \/ p = <<h, cur[h]>>)
    <3>1. p = <<p[1], p[2]>> /\ p[1] \in DOMAIN got /\ p[2] \in DOMAIN got[p[1]].ids
      BY AllIdsFinite
    <3>2. p[2] \in Nat /\ cur[p[1]] \in Nat /\ new[p[1]] = IF p[1] = h THEN cur[p[1]] + 1 ELSE cur[p[1]]
      BY <1>1, <1>3, <3>1
    <3>3. p[2] < cur[p[1]] + 1 <=> (p[2] < cur[p[1]] \/ p[2] = cur[p[1]])
      BY <3>2
    <3>4. p = <<h, cur[h]>> <=> (p[1] = h /\ p[2] = cur[h])
      BY <3>1
    <3>. QED BY <3>2, <3>3, <3>4
  <2>. QED BY <2>1, <1>6 DEF Taken
<1>8. IsFiniteSet(Taken(got, cur)) /\ Cardinality(Taken(got, cur)) \in Nat
  BY SomeIsOpen
<1>9. Cardinality(Taken(got, new)) = Cardinality(Taken(got, cur)) + 1
  BY <1>6, <1>7, <1>8, FS_AddElement
<1>. QED BY <1>3, <1>4, <1>9 DEF new

\* A step keeps the merge's invariant: the least head is not after any entry still to come.
LEMMA TakeKeeps ==
  ASSUME IndexRows, NEW q, q.sort \in Keys, q.desc \in BOOLEAN,
         NEW got, Captures(got),
         NEW n \in Nat, n < Cardinality(AllIds(got)), NEW m, MergingVolumes(got, q, n, m)
  PROVE  MergingVolumes(got, q, n + 1, Take(got, q, m))
<1>. DEFINE h == LeastHead(got, q, m.cur)
            k == m.cur[h]
            x == EntryAt(got, h, k)
            rows == Append(m.rows, x)
            cur == Advance(m.cur, h)
            t == Take(got, q, m)
            B(a, b) == EntryBefore(a, b, q)
<1>1. /\ m.rows \in Seq(Entries) /\ Len(m.rows) = n
      /\ m.cur \in [DOMAIN got -> Nat]
      /\ \A g \in DOMAIN got : m.cur[g] \in 1..(Len(got[g].ids) + 1)
      /\ Cardinality(Taken(got, m.cur)) = n
      /\ \A g \in DOMAIN got :
           Filter(m.rows, OfVolume(got[g].v)) = [j \in 1..(m.cur[g] - 1) |-> EntryAt(got, g, j)]
      /\ \A i \in 1..n : \E g \in DOMAIN got : \E j \in DOMAIN got[g].ids :
           m.rows[i] = EntryAt(got, g, j)
  BY DEF MergingVolumes
<1>2. Open(got, m.cur) # {}
  BY <1>1, SomeIsOpen
<1>3. /\ h \in Open(got, m.cur)
      /\ \A g \in Open(got, m.cur) : ~B(EntryAt(got, g, m.cur[g]), x)
  <2>1. \A g \in DOMAIN got : m.cur[g] \in Nat \ {0}
    <3>1. \A g \in DOMAIN got : Len(got[g].ids) \in Nat
      BY DEF Captures
    <3>. QED BY <1>1, <3>1
  <2>. QED BY <1>2, <2>1, LeastHeadIsLeast
<1>4. /\ cur \in [DOMAIN got -> Nat]
      /\ \A g \in DOMAIN got : cur[g] \in 1..(Len(got[g].ids) + 1)
      /\ \A g \in DOMAIN got : cur[g] = IF g = h THEN k + 1 ELSE m.cur[g]
      /\ Cardinality(Taken(got, cur)) = n + 1
  <2>1. h \in Open(got, m.cur)
    BY <1>3
  <2>. HIDE DEF h, x, rows, t, B
  <2>2. /\ cur \in [DOMAIN got -> Nat]
        /\ \A g \in DOMAIN got : cur[g] \in 1..(Len(got[g].ids) + 1)
        /\ \A g \in DOMAIN got : cur[g] = IF g = h THEN m.cur[h] + 1 ELSE m.cur[g]
        /\ Cardinality(Taken(got, cur)) = Cardinality(Taken(got, m.cur)) + 1
    <3>1. m.cur \in [DOMAIN got -> Nat] /\ \A g \in DOMAIN got : m.cur[g] \in 1..(Len(got[g].ids) + 1)
      BY <1>1
    <3>. HIDE DEF k
    <3>. QED BY <3>1, <2>1, TakenGrows
  <2>. QED BY <1>1, <2>2
<1>5. t = [rows |-> rows, cur |-> cur]
  BY DEF Take, Advance
<1>. HIDE DEF h, t, cur
<1>6. h \in DOMAIN got /\ k \in DOMAIN got[h].ids
  <2>1. h \in DOMAIN got /\ k <= Len(got[h].ids) /\ k \in 1..(Len(got[h].ids) + 1)
    BY <1>1, <1>3 DEF Open
  <2>2. Len(got[h].ids) \in Nat /\ DOMAIN got[h].ids = 1..Len(got[h].ids)
    BY <2>1 DEF Captures
  <2>. QED BY <2>1, <2>2
<1>7. x \in Entries /\ x.v = got[h].v
  BY <1>6, EntryIsThere
<1>8. /\ rows \in Seq(Entries) /\ Len(rows) = n + 1
      /\ \A i \in 1..n : rows[i] = m.rows[i]
      /\ rows[n + 1] = x
  <2>. HIDE DEF x
  <2>. QED BY <1>1, <1>7
<1>9. ASSUME NEW g \in DOMAIN got
      PROVE  Filter(rows, OfVolume(got[g].v)) = [j \in 1..(cur[g] - 1) |-> EntryAt(got, g, j)]
  <2>. DEFINE kept == OfVolume(got[g].v)
              old == Filter(m.rows, kept)
  <2>1. x \in kept <=> g = h
    <3>1. x \in [v : Vols, id : Nat]
      BY <1>7 DEF Entries
    <3>2. x \in kept <=> x.v = got[g].v
      <4>. HIDE DEF x
      <4>. QED BY <3>1 DEF OfVolume
    <3>3. got[g].v = got[h].v <=> g = h
      BY <1>6 DEF Captures
    <3>. QED BY <3>2, <3>3, <1>7
  <2>2. Filter(rows, kept) = IF x \in kept THEN Append(old, x) ELSE old
    <3>. HIDE DEF x, kept
    <3>. QED BY <1>1, <1>7, FilterAppend, ZenonT(60)
  <2>3. old = [j \in 1..(m.cur[g] - 1) |-> EntryAt(got, g, j)]
    BY <1>1
  <2>4. CASE g = h
    <3>1. Filter(rows, kept) = Append(old, x)
      BY <2>1, <2>2, <2>4
    <3>2. k \in Nat /\ k >= 1 /\ cur[g] = k + 1
      <4>1. Len(got[h].ids) \in Nat
        BY <1>6 DEF Captures
      <4>. QED BY <4>1, <1>1, <1>4, <1>6, <2>4
    <3>. DEFINE e == [j \in 1..k |-> EntryAt(got, h, j)]
                o == [j \in 1..(k - 1) |-> EntryAt(got, h, j)]
    <3>3. Append(o, x) = e
      <4>1. o \in Seq(Entries)
        <5>1. \A j \in 1..(k - 1) : EntryAt(got, h, j) \in Entries
          <6>1. \A j \in 1..(k - 1) : j \in DOMAIN got[h].ids
            <7>1. Len(got[h].ids) \in Nat /\ DOMAIN got[h].ids = 1..Len(got[h].ids)
              BY <1>6 DEF Captures
            <7>. QED BY <7>1, <1>6, <3>2
          <6>. QED BY <6>1, <1>6, EntryIsThere
        <5>2. k - 1 \in Nat
          BY <3>2
        <5>. QED BY <5>1, <5>2
      <4>2. Len(o) = k - 1 /\ DOMAIN o = 1..(k - 1)
        BY <3>2
      <4>. HIDE DEF o
      <4>3. /\ DOMAIN Append(o, x) = 1..k
            /\ \A j \in 1..(k - 1) : Append(o, x)[j] = o[j]
            /\ Append(o, x)[k] = x
            /\ Append(o, x) \in Seq(Entries)
        <5>. HIDE DEF x
        <5>1. Append(o, x) \in Seq(Entries) /\ Len(Append(o, x)) = k
          BY <4>1, <4>2, <3>2, <1>7
        <5>. QED BY <5>1, <4>1, <4>2, <3>2, <1>7
      <4>4. ASSUME NEW j \in 1..k PROVE Append(o, x)[j] = EntryAt(got, h, j)
        <5>1. CASE j = k
          BY <5>1, <4>3
        <5>2. CASE j # k
          <6>1. j \in 1..(k - 1)
            BY <3>2, <5>2
          <6>. QED BY <6>1, <4>3 DEF o
        <5>. QED BY <5>1, <5>2
      <4>5. \A y \in Seq(Entries) : y = [j \in DOMAIN y |-> y[j]]
        OBVIOUS
      <4>6. Append(o, x) = [j \in DOMAIN Append(o, x) |-> Append(o, x)[j]]
        BY <4>3, <4>5
      <4>. HIDE DEF x
      <4>. QED BY <4>3, <4>4, <4>6
    <3>4. cur[g] - 1 = k
      BY <3>2
    <3>5. old = o
      <4>. HIDE DEF old
      <4>. QED BY <2>3, <2>4
    <3>6. Filter(rows, kept) = e
      <4>. HIDE DEF x, o, e, old, kept
      <4>. QED BY <3>1, <3>3, <3>5
    <3>. HIDE DEF kept, rows
    <3>. QED BY <3>4, <3>6, <2>4 DEF kept
  <2>5. CASE g # h
    BY <2>1, <2>2, <2>3, <2>5, <1>4
  <2>. QED BY <2>4, <2>5
<1>10. \A i \in 1..(n + 1) : \E g \in DOMAIN got : \E j \in DOMAIN got[g].ids :
          rows[i] = EntryAt(got, g, j)
  <2>. SUFFICES ASSUME NEW i \in 1..(n + 1)
                PROVE \E g \in DOMAIN got : \E j \in DOMAIN got[g].ids : rows[i] = EntryAt(got, g, j)
    OBVIOUS
  <2>1. CASE i = n + 1
    BY <2>1, <1>6, <1>8
  <2>2. CASE i # n + 1
    <3>1. i \in 1..n
      BY <2>2
    <3>. QED BY <3>1, <1>1, <1>8
  <2>. QED BY <2>1, <2>2
<1>11. ASSUME Ordered(got, q)
       PROVE  /\ \A i, j \in 1..(n + 1) : i < j => ~B(rows[j], rows[i])
              /\ \A i \in 1..(n + 1), g \in DOMAIN got : \A j \in cur[g]..Len(got[g].ids) :
                   ~B(EntryAt(got, g, j), rows[i])
  <2>0. /\ \A i, j \in 1..n : i < j => ~B(m.rows[j], m.rows[i])
        /\ \A i \in 1..n, g \in DOMAIN got : \A j \in m.cur[g]..Len(got[g].ids) :
             ~B(EntryAt(got, g, j), m.rows[i])
    BY <1>11 DEF MergingVolumes
  <2>1. \A i \in 1..(n + 1) : i = n + 1 \/ i \in 1..n
    OBVIOUS
  <2>2. /\ \A g \in DOMAIN got : Len(got[g].ids) \in Nat /\ DOMAIN got[g].ids = 1..Len(got[g].ids)
        /\ \A g \in DOMAIN got : m.cur[g] \in Nat /\ m.cur[g] >= 1
    <3>1. \A g \in DOMAIN got : Len(got[g].ids) \in Nat /\ DOMAIN got[g].ids = 1..Len(got[g].ids)
      BY DEF Captures
    <3>. QED BY <3>1, <1>1
  <2>3. \A i \in 1..n : ~B(x, m.rows[i])
    <3>1. k \in m.cur[h]..Len(got[h].ids)
      BY <1>6, <2>2
    <3>. HIDE DEF B
    <3>. QED BY <3>1, <2>0, <1>6
  <2>4. ASSUME NEW g \in DOMAIN got, NEW j \in cur[g]..Len(got[g].ids)
        PROVE  ~B(EntryAt(got, g, j), x)
    <3>1. m.cur[g] \in Nat /\ Len(got[g].ids) \in Nat /\ k \in Nat
          /\ cur[g] = IF g = h THEN k + 1 ELSE m.cur[g]
      BY <1>4, <1>6, <2>2
    <3>2. /\ j \in DOMAIN got[g].ids /\ m.cur[g] \in DOMAIN got[g].ids
          /\ m.cur[g] <= Len(got[g].ids) /\ m.cur[g] <= j /\ j \in Nat
      <4>1. cur[g] \in Nat /\ m.cur[g] <= cur[g]
        BY <3>1
      <4>. QED BY <4>1, <3>1, <2>2
    <3>3. g \in Open(got, m.cur)
      BY <3>2 DEF Open
    <3>4. ~B(EntryAt(got, g, m.cur[g]), x)
      BY <3>3, <1>3
    <3>5. CASE j = m.cur[g]
      BY <3>4, <3>5
    <3>6. CASE j # m.cur[g]
      <4>1. m.cur[g] < j
        BY <3>1, <3>2, <3>6
      <4>2. ~B(EntryAt(got, g, j), EntryAt(got, g, m.cur[g]))
        BY <4>1, <3>2, <1>11 DEF Ordered
      <4>3. EntryAt(got, g, j) \in Entries /\ EntryAt(got, g, m.cur[g]) \in Entries
        BY <3>2, EntryIsThere
      <4>4. B(EntryAt(got, g, j), x) =>
              B(EntryAt(got, g, j), EntryAt(got, g, m.cur[g])) \/ B(EntryAt(got, g, m.cur[g]), x)
        BY <4>3, <1>7, EntryOrder
      <4>. QED BY <4>2, <4>4, <3>4
    <3>. QED BY <3>5, <3>6
  <2>. HIDE DEF B, x, rows
  <2>5. ASSUME NEW i \in 1..(n + 1), NEW j \in 1..(n + 1), i < j PROVE ~B(rows[j], rows[i])
    <3>1. i \in 1..n
      BY <2>5
    <3>2. CASE j = n + 1
      BY <3>1, <3>2, <2>3, <1>8
    <3>3. CASE j # n + 1
      BY <3>1, <3>3, <2>0, <2>1, <2>5, <1>8
    <3>. QED BY <3>2, <3>3
  <2>6. ASSUME NEW i \in 1..(n + 1), NEW g \in DOMAIN got, NEW j \in cur[g]..Len(got[g].ids)
        PROVE  ~B(EntryAt(got, g, j), rows[i])
    <3>1. CASE i = n + 1
      BY <3>1, <2>4, <1>8
    <3>2. CASE i # n + 1
      <4>1. i \in 1..n
        BY <3>2
      <4>2. j \in m.cur[g]..Len(got[g].ids)
        <5>1. /\ m.cur[g] \in Nat /\ Len(got[g].ids) \in Nat
              /\ cur[g] = m.cur[g] + 1 \/ cur[g] = m.cur[g]
          BY <2>2, <1>4
        <5>. QED BY <5>1
      <4>. QED BY <4>1, <4>2, <2>0, <1>8
    <3>. QED BY <3>1, <3>2
  <2>. QED BY <2>5, <2>6
<1>12. t.rows = rows /\ t.cur = cur /\ t = [rows |-> t.rows, cur |-> t.cur]
  <2>. HIDE DEF rows
  <2>. QED BY <1>5
<1>. HIDE DEF rows
<1>13. MergingVolumes(got, q, n + 1, t)
  BY <1>4, <1>8, <1>9, <1>10, <1>11, <1>12 DEF MergingVolumes
<1>. QED BY <1>13 DEF t

\* Nothing is kept of an empty list.
LEMMA FilterNothing ==
  ASSUME NEW kept
  PROVE  Filter(<<>>, kept) = <<>>
<1>. DEFINE at == Positions(<<>>, kept)
            before == [i \in at |-> Cardinality({j \in at : j < i})]
            f == [k \in 1..Cardinality(at) |-> <<>>[CHOOSE i \in at : before[i] = k - 1]]
<1>1. at = {}
  BY DEF Positions
<1>2. Cardinality(at) = 0
  <2>. HIDE DEF at
  <2>. QED BY <1>1, FS_EmptySet
<1>3. Filter(<<>>, kept) = f
  BY DEF Filter, Positions
<1>4. 1..Cardinality(at) = {}
  <2>. HIDE DEF at
  <2>. QED BY <1>2
<1>5. f = <<>>
  <2>1. DOMAIN f = {} /\ f = [k \in DOMAIN f |-> f[k]]
    <3>1. DOMAIN f = 1..Cardinality(at)
      OBVIOUS
    <3>. HIDE DEF at, before
    <3>. QED BY <1>4, <3>1
  <2>2. \A h : DOMAIN h = {} /\ h = [k \in DOMAIN h |-> h[k]] => h = <<>>
    OBVIOUS
  <2>. HIDE DEF f
  <2>. QED BY <2>1, <2>2
<1>. QED BY <1>3, <1>5

\* The merge takes every entry, of each volume in its order, and in the order of
\* the query when each volume's ids are.
LEMMA MergeVolumesMerges ==
  ASSUME IndexRows, NEW q, q.sort \in Keys, q.desc \in BOOLEAN, NEW got, Captures(got)
  PROVE  LET rows == MergeVolumes(got, q)
         IN  /\ rows \in Seq(Entries)
             /\ \A g \in DOMAIN got :
                  Filter(rows, OfVolume(got[g].v)) = [k \in DOMAIN got[g].ids |-> EntryAt(got, g, k)]
             /\ \A i \in DOMAIN rows : \E g \in DOMAIN got : \E k \in DOMAIN got[g].ids :
                  rows[i] = EntryAt(got, g, k)
             /\ Ordered(got, q) =>
                  \A i, j \in DOMAIN rows : i < j => ~EntryBefore(rows[j], rows[i], q)
<1>. DEFINE total == Cardinality(AllIds(got))
            S == [rows : Seq(Entries), cur : [DOMAIN got -> Nat]]
            first == [rows |-> <<>>, cur |-> [g \in DOMAIN got |-> 1]]
            next(m) == Take(got, q, m)
            step == [m \in S |-> IF next(m) \in S THEN next(m) ELSE m]
            Good(n, m) == MergingVolumes(got, q, n, m)
            Def(f) == f = [n \in 0..total |-> IF n = 0 THEN first ELSE next(f[n - 1])]
            merged == CHOOSE f : Def(f)
<1>1. total \in Nat
  BY AllIdsFinite, FS_CardinalityType
<1>0. \A g \in DOMAIN got : Len(got[g].ids) \in Nat /\ DOMAIN got[g].ids = 1..Len(got[g].ids)
  BY DEF Captures
<1>2. first \in S /\ Good(0, first)
  <2>. DEFINE cur == [g \in DOMAIN got |-> 1]
  <2>1. first.rows = <<>> /\ first.cur = cur /\ first = [rows |-> first.rows, cur |-> first.cur]
    OBVIOUS
  <2>2. cur \in [DOMAIN got -> Nat] /\ \A g \in DOMAIN got : cur[g] = 1 /\ cur[g] \in 1..(Len(got[g].ids) + 1)
    BY <1>0
  <2>3. <<>> \in Seq(Entries) /\ Len(<<>>) = 0
    OBVIOUS
  <2>4. first \in S
    BY <2>2, <2>3
  <2>. HIDE DEF cur, first
  <2>5. Cardinality(Taken(got, cur)) = 0
    <3>1. ASSUME NEW p \in AllIds(got) PROVE ~(p[2] < cur[p[1]])
      <4>1. p[1] \in DOMAIN got /\ p[2] \in DOMAIN got[p[1]].ids
        BY AllIdsFinite
      <4>. QED BY <4>1, <1>0, <2>2
    <3>2. Taken(got, cur) = {}
      BY <3>1 DEF Taken
    <3>. QED BY <3>2, FS_EmptySet
  <2>6. ASSUME NEW g \in DOMAIN got
        PROVE  Filter(<<>>, OfVolume(got[g].v)) = [k \in 1..(cur[g] - 1) |-> EntryAt(got, g, k)]
    <3>1. 1..(cur[g] - 1) = {}
      BY <2>2
    <3>2. [k \in 1..(cur[g] - 1) |-> EntryAt(got, g, k)] = <<>>
      <4>1. \A h : DOMAIN h = {} /\ h = [k \in DOMAIN h |-> h[k]] => h = <<>>
        OBVIOUS
      <4>. DEFINE h == [k \in 1..(cur[g] - 1) |-> EntryAt(got, g, k)]
      <4>2. DOMAIN h = {} /\ h = [k \in DOMAIN h |-> h[k]]
        BY <3>1
      <4>. HIDE DEF h
      <4>3. h = <<>>
        BY <4>1, <4>2
      <4>. QED BY <4>3 DEF h
    <3>. QED BY <3>2, FilterNothing
  <2>7. Good(0, first)
    BY <2>1, <2>2, <2>3, <2>5, <2>6 DEF MergingVolumes
  <2>. QED BY <2>4, <2>7
<1>3. ASSUME NEW n \in 0..(total - 1), NEW m, Good(n, m) PROVE Good(n + 1, next(m))
  <2>1. MergingVolumes(got, q, n, m) /\ n \in Nat
    BY <1>3
  <2>2. n < Cardinality(AllIds(got))
    BY <1>1
  <2>. HIDE DEF S, first, next, step, Good, Def, merged, total
  <2>3. MergingVolumes(got, q, n + 1, Take(got, q, m))
    BY <2>1, <2>2, TakeKeeps
  <2>. QED BY <2>3 DEF next, Good
<1>4. ASSUME NEW n, NEW m, Good(n, m) PROVE m \in S
  <2>1. m = [rows |-> m.rows, cur |-> m.cur] /\ m.rows \in Seq(Entries) /\ m.cur \in [DOMAIN got -> Nat]
    BY <1>4 DEF MergingVolumes
  <2>. QED BY <2>1
<1>5. step \in [S -> S]
  OBVIOUS
<1>6. PICK f \in [0..total -> S] : f[0] = first /\ \A k \in 1..total : f[k] = step[f[k - 1]]
  <2>1. first \in S
    BY <1>2
  <2>. HIDE DEF S, first, step, total, next, Good, Def, merged
  <2>3. Iterates(total, S, first, step) # {}
    BY <1>1, <2>1, <1>5, RecursionExists
  <2>. QED BY <2>3 DEF Iterates
<1>. HIDE DEF first, next, Good, S
<1>7. \A k \in 0..total : Good(k, f[k])
  <2>. DEFINE A == {k \in 0..total : Good(k, f[k])}
  <2>1. 0 \in A
    <3>. HIDE DEF total
    <3>. QED BY <1>1, <1>2, <1>6
  <2>2. ASSUME NEW k \in 1..total, k - 1 \in A PROVE k \in A
    <3>0. k - 1 \in 0..(total - 1) /\ k \in 0..total /\ (k - 1) + 1 = k
      <4>. HIDE DEF total
      <4>. QED BY <1>1
    <3>1. Good(k - 1, f[k - 1])
      BY <2>2
    <3>2. Good(k, next(f[k - 1]))
      BY <3>0, <3>1, <1>3
    <3>3. next(f[k - 1]) \in S /\ f[k - 1] \in S
      BY <3>1, <3>2, <1>4
    <3>4. step[f[k - 1]] = next(f[k - 1])
      BY <3>3
    <3>. QED BY <3>0, <3>2, <3>4, <1>6
  <2>3. 0..total \subseteq A
    <3>. HIDE DEF A, total
    <3>. QED BY <1>1, <2>1, <2>2, InductUpTo
  <2>. QED BY <2>3
<1>8. \A k \in 1..total : f[k] = next(f[k - 1])
  <2>. SUFFICES ASSUME NEW k \in 1..total PROVE f[k] = next(f[k - 1])
    OBVIOUS
  <2>0. k - 1 \in 0..(total - 1) /\ k - 1 \in 0..total /\ (k - 1) + 1 = k
    <3>. HIDE DEF total
    <3>. QED BY <1>1
  <2>1. Good(k - 1, f[k - 1])
    BY <2>0, <1>7
  <2>2. next(f[k - 1]) \in S /\ f[k - 1] \in S
    BY <2>0, <2>1, <1>3, <1>4
  <2>3. step[f[k - 1]] = next(f[k - 1])
    BY <2>2
  <2>. QED BY <2>3, <1>6
<1>9. Def(f)
  <2>1. \A n \in 0..total : f[n] = IF n = 0 THEN first ELSE next(f[n - 1])
    <3>1. \A n \in 0..total : n = 0 \/ n \in 1..total
      <4>. HIDE DEF total
      <4>. QED BY <1>1
    <3>. HIDE DEF total
    <3>. QED BY <3>1, <1>6, <1>8
  <2>2. f = [n \in 0..total |-> f[n]]
    BY <1>6
  <2>. HIDE DEF total
  <2>. QED BY <2>1, <2>2
<1>10. Def(merged)
  <2>. HIDE DEF Def
  <2>. QED BY <1>9
<1>11. merged = f
  <2>. HIDE DEF merged
  <2>1. /\ merged = [n \in 0..total |-> merged[n]]
        /\ \A n \in 0..total : merged[n] = IF n = 0 THEN first ELSE next(merged[n - 1])
    BY <1>10
  <2>. DEFINE A == {k \in 0..total : merged[k] = f[k]}
  <2>2. 0 \in A
    <3>1. 0 \in 0..total
      <4>. HIDE DEF total
      <4>. QED BY <1>1
    <3>. HIDE DEF total
    <3>. QED BY <3>1, <1>6, <2>1
  <2>3. ASSUME NEW k \in 1..total, k - 1 \in A PROVE k \in A
    <3>1. k \in 0..total /\ k # 0 /\ merged[k - 1] = f[k - 1]
      <4>1. k \in 0..total /\ k # 0
        <5>. HIDE DEF total
        <5>. QED BY <1>1
      <4>. QED BY <4>1, <2>3
    <3>2. merged[k] = next(merged[k - 1]) /\ f[k] = next(f[k - 1])
      BY <3>1, <2>1, <1>8
    <3>. QED BY <3>1, <3>2
  <2>4. 0..total \subseteq A
    <3>. HIDE DEF A, total
    <3>. QED BY <1>1, <2>2, <2>3, InductUpTo
  <2>5. \A k \in 0..total : merged[k] = f[k]
    BY <2>4
  <2>6. f = [n \in 0..total |-> f[n]]
    BY <1>6
  <2>. HIDE DEF total
  <2>. QED BY <2>1, <2>5, <2>6
<1>12. MergeVolumes(got, q) = merged[total].rows
  BY DEF MergeVolumes, next, first, Take, AllIds
<1>13. Good(total, f[total])
  <2>1. total \in 0..total
    <3>. HIDE DEF total
    <3>. QED BY <1>1
  <2>. QED BY <2>1, <1>7
<1>. DEFINE m == f[total]
<1>14. MergingVolumes(got, q, total, m)
  BY <1>13 DEF Good
<1>. HIDE DEF merged, m
<1>15. /\ m.rows \in Seq(Entries) /\ Len(m.rows) = total
       /\ m.cur \in [DOMAIN got -> Nat]
       /\ \A g \in DOMAIN got : m.cur[g] \in 1..(Len(got[g].ids) + 1)
       /\ Cardinality(Taken(got, m.cur)) = total
       /\ \A g \in DOMAIN got :
            Filter(m.rows, OfVolume(got[g].v)) = [k \in 1..(m.cur[g] - 1) |-> EntryAt(got, g, k)]
       /\ \A i \in 1..total : \E g \in DOMAIN got : \E k \in DOMAIN got[g].ids :
            m.rows[i] = EntryAt(got, g, k)
       /\ Ordered(got, q) =>
            \A i, j \in 1..total : i < j => ~EntryBefore(m.rows[j], m.rows[i], q)
  <2>. HIDE DEF total
  <2>. QED BY <1>14 DEF MergingVolumes
<1>16. \A g \in DOMAIN got : m.cur[g] = Len(got[g].ids) + 1
  BY <1>15, SomeIsOpen
<1>17. ASSUME NEW g \in DOMAIN got
       PROVE  Filter(m.rows, OfVolume(got[g].v)) = [k \in DOMAIN got[g].ids |-> EntryAt(got, g, k)]
  <2>1. 1..(m.cur[g] - 1) = DOMAIN got[g].ids
    <3>1. m.cur[g] - 1 = Len(got[g].ids)
      BY <1>0, <1>16
    <3>. QED BY <3>1, <1>0
  <2>2. Filter(m.rows, OfVolume(got[g].v)) = [k \in 1..(m.cur[g] - 1) |-> EntryAt(got, g, k)]
    BY <1>15
  <2>. QED BY <2>1, <2>2
<1>18. MergeVolumes(got, q) = m.rows
  BY <1>11, <1>12 DEF m
<1>19. DOMAIN m.rows = 1..total
  BY <1>15
<1>. HIDE DEF total
<1>. QED BY <1>15, <1>17, <1>18, <1>19

----------------------------------------------------------------------------
(***************************************************************************)
(* Well-formed indexes, and what batches and replacements leave of them.   *)
(***************************************************************************)
\* What filtering a sorted list leaves is sorted.
LEMMA FilterSorted ==
  ASSUME NEW i, NEW key, NEW X, NEW s \in Seq(X), NEW kept, SortedIds(i, key, s)
  PROVE  SortedIds(i, key, Filter(s, kept))
<1>. DEFINE f == Filter(s, kept)
<1>1. PICK p \in [DOMAIN f -> DOMAIN s] :
        /\ \A k \in DOMAIN f : f[k] = s[p[k]]
        /\ \A k, m \in DOMAIN f : k < m => p[k] < p[m]
  BY FilterKeeps
<1>2. ASSUME NEW a \in DOMAIN f, NEW b \in DOMAIN f, a < b PROVE Less(i, key, f[a], f[b])
  <2>. HIDE DEF f
  <2>1. p[a] \in DOMAIN s /\ p[b] \in DOMAIN s /\ p[a] < p[b] /\ f[a] = s[p[a]] /\ f[b] = s[p[b]]
    BY <1>1, <1>2
  <2>. QED BY <2>1 DEF SortedIds
<1>. QED BY <1>2 DEF SortedIds

\* The ids of a query's result, in its direction.
OrderedIds(i, q, ids) ==
  \A a, b \in DOMAIN ids : a < b =>
    IF q.desc THEN Less(i, q.sort, ids[b], ids[a]) ELSE Less(i, q.sort, ids[a], ids[b])

\* What a sorted permutation materializes to is in the order of the query.
LEMMA MaterializeOrders ==
  ASSUME NEW i, NEW q, NEW X, NEW perm \in Seq(X), NEW kept,
         SortedIds(i, q.sort, perm)
  PROVE  /\ Materialize(perm, q.desc, kept) \in Seq(X)
         /\ OrderedIds(i, q, Materialize(perm, q.desc, kept))
<1>. DEFINE f == Filter(perm, kept)  m == Materialize(perm, q.desc, kept)
<1>1. f \in Seq(X) /\ SortedIds(i, q.sort, f)
  <2>1. f \in Seq(X \cap kept)
    BY FilterKeeps
  <2>. QED BY <2>1, FilterSorted
<1>2. m = IF q.desc THEN Reverse(f) ELSE f
  BY DEF Materialize
<1>. HIDE DEF f, m
<1>3. CASE q.desc
  <2>1. m = [k \in 1..Len(f) |-> f[(Len(f) - k) + 1]]
    BY <1>2, <1>3 DEF Reverse
  <2>2. Len(f) \in Nat /\ DOMAIN f = 1..Len(f)
    BY <1>1
  <2>3. \A k \in 1..Len(f) : (Len(f) - k) + 1 \in 1..Len(f) /\ m[k] = f[(Len(f) - k) + 1]
    BY <2>1, <2>2
  <2>4. m \in [1..Len(f) -> X]
    BY <1>1, <2>1, <2>2, <2>3
  <2>5. m \in Seq(X) /\ DOMAIN m = 1..Len(f)
    BY <2>2, <2>4
  <2>6. ASSUME NEW a \in DOMAIN m, NEW b \in DOMAIN m, a < b PROVE Less(i, q.sort, m[b], m[a])
    <3>. DEFINE x == (Len(f) - b) + 1  y == (Len(f) - a) + 1
    <3>1. x \in DOMAIN f /\ y \in DOMAIN f /\ m[b] = f[x] /\ m[a] = f[y]
      BY <2>2, <2>3, <2>5
    <3>2. x < y
      BY <2>2, <2>5, <2>6
    <3>. HIDE DEF x, y
    <3>. QED BY <3>1, <3>2, <1>1 DEF SortedIds
  <2>. QED BY <2>5, <2>6, <1>3 DEF OrderedIds, m
<1>4. CASE ~q.desc
  BY <1>1, <1>2, <1>4 DEF OrderedIds, SortedIds, m
<1>. QED BY <1>3, <1>4

\* Two states of an index agree on the key of the ids.
SameKeys(i, j, key, ids) ==
  \A a \in ids : /\ key = "name"  => j.rows[a].name = i.rows[a].name
                 /\ key = "size"  => j.rows[a].size = i.rows[a].size
                 /\ key = "mtime" => j.rows[a].mtime = i.rows[a].mtime

\* Rows that agree on the key are in the same order.
LEMMA LessSame ==
  ASSUME NEW i, NEW j, NEW key \in Keys, NEW S,
         SameKeys(i, j, key, S),
         NEW a \in S, NEW b \in S
  PROVE  Less(j, key, a, b) <=> Less(i, key, a, b)
<1>. DEFINE x == i.rows[a]  y == i.rows[b]  u == j.rows[a]  w == j.rows[b]
<1>1. KeyBefore(key, u, w) = KeyBefore(key, x, y) /\ KeyBefore(key, w, u) = KeyBefore(key, y, x)
  <2>1. CASE key = "name"
    <3>1. u.name = x.name /\ w.name = y.name
      BY <2>1 DEF SameKeys
    <3>2. Lower(u) = Lower(x) /\ Lower(w) = Lower(y)
      BY <3>1 DEF Lower
    <3>3. \A c, d : KeyBefore(key, c, d) = Before(Lower(c), Lower(d))
      BY <2>1 DEF KeyBefore
    <3>. HIDE DEF x, y, u, w
    <3>. QED BY <3>2, <3>3
  <2>2. CASE key = "size"
    <3>1. u.size = x.size /\ w.size = y.size
      BY <2>2 DEF SameKeys
    <3>2. \A c, d : KeyBefore(key, c, d) = (c.size < d.size)
      BY <2>2 DEF KeyBefore
    <3>. HIDE DEF x, y, u, w
    <3>. QED BY <3>1, <3>2
  <2>3. CASE key = "mtime"
    <3>1. u.mtime = x.mtime /\ w.mtime = y.mtime
      BY <2>3 DEF SameKeys
    <3>2. \A c, d : KeyBefore(key, c, d) = (c.mtime < d.mtime)
      BY <2>3 DEF KeyBefore
    <3>. HIDE DEF x, y, u, w
    <3>. QED BY <3>1, <3>2
  <2>. QED BY <2>1, <2>2, <2>3 DEF Keys
<1>2. /\ Less(i, key, a, b) = (KeyBefore(key, x, y) \/ (~KeyBefore(key, y, x) /\ a < b))
      /\ Less(j, key, a, b) = (KeyBefore(key, u, w) \/ (~KeyBefore(key, w, u) /\ a < b))
  BY Zenon DEF Less
<1>. HIDE DEF x, y, u, w
<1>. QED BY <1>1, <1>2

\* A list stays sorted while its keys stay.
LEMMA SortedSame ==
  ASSUME NEW i, NEW j, NEW key \in Keys, NEW S,
         SameKeys(i, j, key, S),
         NEW s \in Seq(S), SortedIds(i, key, s)
  PROVE  SortedIds(j, key, s)
<1>1. ASSUME NEW a \in DOMAIN s, NEW b \in DOMAIN s, a < b PROVE Less(j, key, s[a], s[b])
  <2>1. s[a] \in S /\ s[b] \in S /\ Less(i, key, s[a], s[b])
    BY <1>1 DEF SortedIds
  <2>2. Less(j, key, s[a], s[b]) <=> Less(i, key, s[a], s[b])
    BY <2>1, LessSame
  <2>. QED BY <2>1, <2>2
<1>. QED BY <1>1 DEF SortedIds

\* A sorted list has no id twice.
LEMMA SortedDistinct ==
  ASSUME NEW i, i.rows \in Seq(RowType), NEW key \in Keys, NEW ids \in SUBSET DOMAIN i.rows,
         NEW s \in Seq(ids), SortedIds(i, key, s), NEW a \in DOMAIN s, NEW b \in DOMAIN s, s[a] = s[b]
  PROVE  a = b
<1>1. a \in Nat /\ b \in Nat /\ s[a] \in DOMAIN i.rows
  <2>1. Len(s) \in Nat /\ DOMAIN s = 1..Len(s)
    OBVIOUS
  <2>2. s[a] \in ids
    OBVIOUS
  <2>. QED BY <2>1, <2>2
<1>2. ~Less(i, key, s[a], s[a])
  BY <1>1, LessOrder
<1>3. ~(a < b) /\ ~(b < a)
  BY <1>2 DEF SortedIds
<1>. QED BY <1>1, <1>3

\* What an index is made of.
IndexType ==
  [rows : Seq(RowType), perm : Seq(Nat), content : Nat, structural : Nat, stat : Nat, topo : Nat]

\* The name permutation lists the rows of the index, each once, in order.
PermSorted(i) ==
  /\ i.perm \in Seq(DOMAIN i.rows)
  /\ Len(i.perm) = Len(i.rows)
  /\ SortedIds(i, "name", i.perm)

\* A well-formed index: its rows a forest, its name permutation complete and sorted.
IndexOK(i) == i \in IndexType /\ Rooted(i.rows) /\ PermSorted(i)

\* IndexBuilder::finish makes a well-formed index.
LEMMA NewIndexOK ==
  ASSUME NEW rows \in Seq(RowType), Rooted(rows), NEW structural \in Nat
  PROVE  /\ IndexOK(NewIndex(rows, structural))
         /\ NewIndex(rows, structural).rows = rows
         /\ NewIndex(rows, structural).structural = structural
<1>. DEFINE i == [rows |-> rows, perm |-> <<>>, content |-> 0, structural |-> structural,
                  stat |-> 0, topo |-> 0]
            s == SortIds(i, "name", DOMAIN rows)
            new == [i EXCEPT !.perm = s]
<1>1. i.rows = rows /\ "name" \in Keys
  BY DEF Keys
<1>2. NewIndex(rows, structural) = new
  BY DEF NewIndex
<1>3. new = [rows |-> rows, perm |-> s, content |-> 0, structural |-> structural,
             stat |-> 0, topo |-> 0]
  <2>. HIDE DEF s
  <2>. QED OBVIOUS
<1>. HIDE DEF i
<1>4. /\ s \in Seq(DOMAIN rows) /\ Len(s) = Cardinality(DOMAIN rows)
      /\ SortedIds(i, "name", s)
  BY <1>1, SortIdsSorts
<1>5. Cardinality(DOMAIN rows) = Len(rows)
  <2>1. Len(rows) \in Nat /\ DOMAIN rows = 1..Len(rows)
    OBVIOUS
  <2>2. Cardinality(1..Len(rows)) = IF 1 > Len(rows) THEN 0 ELSE Len(rows) - 1 + 1
    BY <2>1, FS_Interval
  <2>3. Cardinality(DOMAIN rows) = IF 1 > Len(rows) THEN 0 ELSE Len(rows) - 1 + 1
    BY <2>1, <2>2
  <2>. QED BY <2>1, <2>3
<1>. HIDE DEF s, new
<1>6. new.rows = rows /\ new.perm = s
  BY <1>3
<1>7. SortedIds(new, "name", s)
  BY <1>1, <1>4, <1>6, SortedSame DEF SameKeys
<1>8. new \in IndexType
  <2>1. s \in Seq(Nat)
    <3>1. DOMAIN rows \in SUBSET Nat
      OBVIOUS
    <3>. QED BY <3>1, <1>4
  <2>. QED BY <1>3, <2>1 DEF IndexType
<1>9. PermSorted(new)
  BY <1>4, <1>5, <1>6, <1>7 DEF PermSorted
<1>10. new.structural = structural
  BY <1>3
<1>. QED BY <1>2, <1>6, <1>8, <1>9, <1>10 DEF IndexOK

\* The appended tail joins the order whatever the batch did to the list before.
LEMMA MergeTailOK ==
  ASSUME NEW i \in IndexType, Rooted(i.rows), Len(i.perm) <= Len(i.rows),
         i.perm \in Seq(1..Len(i.perm)), SortedIds(i, "name", i.perm)
  PROVE  /\ IndexOK(MergeTail(i))
         /\ MergeTail(i).rows = i.rows /\ MergeTail(i).content = i.content + 1
         /\ MergeTail(i).structural = i.structural /\ MergeTail(i).stat = i.stat
<1>. DEFINE n == Len(i.perm)  all == Len(i.rows)
            tail == SortIds(i, "name", (n + 1)..all)
            perm == MergeRuns(i, "name", i.perm, tail)
            new == MergeTail(i)
<1>1. /\ i.rows \in Seq(RowType) /\ i.perm \in Seq(Nat) /\ i.content \in Nat
      /\ i.structural \in Nat /\ i.stat \in Nat /\ i.topo \in Nat
      /\ i = [rows |-> i.rows, perm |-> i.perm, content |-> i.content,
              structural |-> i.structural, stat |-> i.stat, topo |-> i.topo]
  BY DEF IndexType
<1>2. n \in Nat /\ all \in Nat /\ DOMAIN i.rows = 1..all /\ n <= all /\ "name" \in Keys
  BY <1>1 DEF Keys
<1>3. new = [rows |-> i.rows, perm |-> perm, content |-> i.content + 1,
             structural |-> i.structural, stat |-> i.stat, topo |-> i.topo]
  <2>1. new = [i EXCEPT !.perm = perm, !.content = @ + 1]
    BY DEF MergeTail
  <2>. HIDE DEF perm, new
  <2>. QED BY <1>1, <2>1
<1>4. (n + 1)..all \in SUBSET DOMAIN i.rows
  BY <1>2
<1>5. tail \in Seq((n + 1)..all) /\ Len(tail) = Cardinality((n + 1)..all)
      /\ SortedIds(i, "name", tail)
  BY <1>1, <1>2, <1>4, SortIdsSorts
<1>6. Cardinality((n + 1)..all) = all - n
  <2>. HIDE DEF n, all, tail, perm, new
  <2>1. n + 1 \in Int /\ all \in Int
    BY <1>2
  <2>2. Cardinality((n + 1)..all) = IF n + 1 > all THEN 0 ELSE all - (n + 1) + 1
    BY <2>1, FS_Interval
  <2>. QED BY <2>2, <1>2
<1>. HIDE DEF tail
<1>7. /\ i.perm \in Seq(DOMAIN i.rows) /\ tail \in Seq(DOMAIN i.rows)
      /\ \A a \in DOMAIN i.perm, b \in DOMAIN tail : i.perm[a] # tail[b]
  <2>1. \A a \in DOMAIN i.perm : i.perm[a] \in 1..n
    OBVIOUS
  <2>2. \A b \in DOMAIN tail : tail[b] \in (n + 1)..all
    BY <1>5
  <2>3. \A x \in 1..n, y \in (n + 1)..all : x # y /\ x \in DOMAIN i.rows /\ y \in DOMAIN i.rows
    BY <1>2
  <2>4. i.perm \in Seq(DOMAIN i.rows)
    <3>1. 1..n \in SUBSET DOMAIN i.rows
      BY <1>2
    <3>. QED BY <3>1
  <2>5. tail \in Seq(DOMAIN i.rows)
    BY <1>4, <1>5
  <2>. QED BY <2>1, <2>2, <2>3, <2>4, <2>5
<1>8. perm \in Seq(DOMAIN i.rows) /\ Len(perm) = n + Len(tail) /\ SortedIds(i, "name", perm)
  <2>1. DOMAIN i.rows \in SUBSET DOMAIN i.rows /\ i.rows \in Seq(RowType) /\ "name" \in Keys
    BY <1>1, <1>2
  <2>2. SortedIds(i, "name", tail)
    BY <1>5
  <2>. QED BY <2>1, <2>2, <1>7, MergeRunsSorts
<1>9. Len(perm) = all
  <2>. HIDE DEF n, all, perm
  <2>. QED BY <1>2, <1>5, <1>6, <1>8
<1>. HIDE DEF perm, new
<1>10. new.rows = i.rows /\ new.perm = perm
  BY <1>3
<1>11. SortedIds(new, "name", perm)
  BY <1>2, <1>8, <1>10, SortedSame DEF SameKeys
<1>12. new \in IndexType
  <2>1. perm \in Seq(Nat)
    <3>1. DOMAIN i.rows \in SUBSET Nat
      BY <1>2
    <3>. QED BY <3>1, <1>8
  <2>2. i.content + 1 \in Nat
    BY <1>1
  <2>. QED BY <1>1, <1>3, <2>1, <2>2 DEF IndexType
<1>13. PermSorted(new)
  BY <1>8, <1>9, <1>10, <1>11 DEF PermSorted
<1>14. new.content = i.content + 1 /\ new.structural = i.structural /\ new.stat = i.stat
  BY <1>3
<1>. QED BY <1>10, <1>12, <1>13, <1>14 DEF IndexOK, new

\* A set of the first numbers: when it holds a number it holds all before it.
LEMMA InitialSegment ==
  ASSUME NEW n \in Nat, NEW P \in SUBSET (1..n),
         \A a \in 1..n, b \in P : a < b => a \in P
  PROVE  Cardinality(P) \in 0..n /\ P = 1..Cardinality(P)
<1>. DEFINE B == {k \in 1..(n + 1) : k \notin P}
<1>1. B \in SUBSET Nat /\ B # {}
  <2>1. n + 1 \in B
    OBVIOUS
  <2>. QED BY <2>1
<1>2. PICK m \in B : \A k \in B : m <= k
  <2>. HIDE DEF B
  <2>. QED BY <1>1, LeastElement
<1>3. m \in 1..(n + 1) /\ m \notin P
  BY <1>2
<1>4. P = 1..(m - 1)
  <2>1. ASSUME NEW k \in 1..(m - 1) PROVE k \in P
    <3>1. k \in 1..(n + 1) /\ ~(m <= k)
      BY <1>3
    <3>. QED BY <3>1, <1>2
  <2>2. ASSUME NEW k \in P PROVE k \in 1..(m - 1)
    <3>1. k \in 1..n /\ k # m /\ (m < k => m \in 1..n)
      BY <1>3
    <3>2. ~(m < k)
      BY <3>1, <1>3
    <3>. QED BY <3>1, <3>2, <1>3
  <2>. QED BY <2>1, <2>2
<1>5. Cardinality(1..(m - 1)) = m - 1
  <2>1. 1 \in Int /\ m - 1 \in Int
    BY <1>3
  <2>2. Cardinality(1..(m - 1)) = IF 1 > m - 1 THEN 0 ELSE m - 1 - 1 + 1
    BY <2>1, FS_Interval
  <2>. QED BY <2>2, <1>3
<1>6. Cardinality(P) = m - 1
  BY <1>4, <1>5
<1>. QED BY <1>3, <1>4, <1>6

\* What InsertAt returns.
LEMMA Inserted ==
  ASSUME NEW X, NEW s \in Seq(X), NEW x \in X, NEW m \in 1..(Len(s) + 1)
  PROVE  LET t == InsertAt(s, m, x)
         IN  /\ t \in Seq(X) /\ Len(t) = Len(s) + 1
             /\ \A k \in 1..(m - 1) : t[k] = s[k]
             /\ t[m] = x
             /\ \A k \in (m + 1)..(Len(s) + 1) : t[k] = s[k - 1]
<1>. DEFINE u == SubSeq(s, 1, m - 1)  w == SubSeq(s, m, Len(s))  n == Len(s)
            ux == u \o <<x>>  t == ux \o w
<1>1. n \in Nat /\ m \in Nat /\ m >= 1 /\ m <= n + 1 /\ \A k \in 1..n : s[k] \in X
  OBVIOUS
<1>2. u \in Seq(X) /\ Len(u) = m - 1 /\ \A k \in 1..(m - 1) : u[k] = s[k]
  <2>1. \A k \in 1..(m - 1) : s[k] \in X
    BY <1>1
  <2>2. 1 \in Int /\ m - 1 \in Int
    BY <1>1
  <2>. HIDE DEF u
  <2>3. /\ SubSeq(s, 1, m - 1) \in Seq(X)
        /\ Len(SubSeq(s, 1, m - 1)) = IF 1 <= m - 1 THEN m - 1 - 1 + 1 ELSE 0
        /\ \A k \in 1..(m - 1 - 1 + 1) : SubSeq(s, 1, m - 1)[k] = s[1 + k - 1]
    BY <2>1, <2>2, SubSeqProperties
  <2>4. u \in Seq(X) /\ Len(u) = IF 1 <= m - 1 THEN m - 1 - 1 + 1 ELSE 0
    BY <2>3 DEF u
  <2>5. m - 1 - 1 + 1 = m - 1 /\ \A k \in 1..(m - 1) : 1 + k - 1 = k
    BY <1>1
  <2>6. \A k \in 1..(m - 1) : u[k] = s[k]
    BY <2>3, <2>5 DEF u
  <2>7. Len(u) = m - 1
    BY <2>4, <1>1
  <2>. QED BY <2>4, <2>6, <2>7
<1>3. w \in Seq(X) /\ Len(w) = n - m + 1 /\ \A k \in 1..(n - m + 1) : w[k] = s[m + k - 1]
  <2>1. \A k \in m..n : s[k] \in X
    BY <1>1
  <2>2. m \in Int /\ n \in Int
    BY <1>1
  <2>. HIDE DEF w, n
  <2>3. /\ SubSeq(s, m, n) \in Seq(X)
        /\ Len(SubSeq(s, m, n)) = IF m <= n THEN n - m + 1 ELSE 0
        /\ \A k \in 1..(n - m + 1) : SubSeq(s, m, n)[k] = s[m + k - 1]
    BY <2>1, <2>2, SubSeqProperties
  <2>4. w = SubSeq(s, m, n)
    BY DEF w, n
  <2>5. Len(w) = n - m + 1
    BY <2>3, <2>4, <1>1
  <2>. QED BY <2>3, <2>4, <2>5
<1>. HIDE DEF u, w, n
<1>4. /\ ux \in Seq(X) /\ Len(ux) = m
      /\ \A k \in 1..(m - 1) : ux[k] = s[k]
      /\ ux[m] = x
  <2>1. <<x>> \in Seq(X) /\ Len(<<x>>) = 1 /\ <<x>>[1] = x
    OBVIOUS
  <2>2. /\ ux \in Seq(X) /\ Len(ux) = Len(u) + 1
        /\ \A k \in 1..(Len(u) + 1) : ux[k] = IF k <= Len(u) THEN u[k] ELSE <<x>>[k - Len(u)]
    BY <1>2, <2>1, ConcatProperties
  <2>. HIDE DEF ux
  <2>3. m \in 1..(Len(u) + 1) /\ ~(m <= Len(u)) /\ m - Len(u) = 1 /\ Len(u) + 1 = m
    BY <1>1, <1>2
  <2>4. \A k \in 1..(m - 1) : k \in 1..(Len(u) + 1) /\ k <= Len(u)
    BY <1>1, <1>2
  <2>. QED BY <2>1, <2>2, <2>3, <2>4, <1>2
<1>. HIDE DEF ux
<1>5. /\ t \in Seq(X) /\ Len(t) = n + 1
      /\ \A k \in 1..m : t[k] = ux[k]
      /\ \A k \in (m + 1)..(n + 1) : t[k] = s[k - 1]
  <2>1. /\ t \in Seq(X) /\ Len(t) = Len(ux) + Len(w)
        /\ \A k \in 1..(Len(ux) + Len(w)) : t[k] = IF k <= Len(ux) THEN ux[k] ELSE w[k - Len(ux)]
    BY <1>3, <1>4, ConcatProperties
  <2>2. Len(ux) + Len(w) = n + 1
    BY <1>1, <1>3, <1>4
  <2>3. \A k \in 1..m : k \in 1..(n + 1) /\ k <= Len(ux)
    BY <1>1, <1>4
  <2>4. ASSUME NEW k \in (m + 1)..(n + 1) PROVE t[k] = s[k - 1]
    <3>1. /\ k \in 1..(n + 1) /\ ~(k <= Len(ux)) /\ k - Len(ux) \in 1..(n - m + 1)
          /\ m + (k - Len(ux)) - 1 = k - 1
      BY <1>1, <1>4
    <3>2. t[k] = w[k - Len(ux)]
      BY <3>1, <2>1, <2>2
    <3>3. w[k - Len(ux)] = s[m + (k - Len(ux)) - 1]
      BY <3>1, <1>3
    <3>. QED BY <3>1, <3>2, <3>3
  <2>. HIDE DEF t
  <2>. QED BY <2>1, <2>2, <2>3, <2>4
<1>6. InsertAt(s, m, x) = t
  BY DEF InsertAt, t, ux, u, w
<1>7. m \in 1..m /\ \A k \in 1..(m - 1) : k \in 1..m
  BY <1>1
<1>. HIDE DEF t
<1>. QED BY <1>4, <1>5, <1>6, <1>7 DEF n

\* An id put after all that are less keeps a sorted list sorted.
LEMMA InsertSorts ==
  ASSUME NEW i, i.rows \in Seq(RowType), NEW key \in Keys,
         NEW ids \in SUBSET DOMAIN i.rows, NEW s \in Seq(ids), SortedIds(i, key, s),
         NEW id \in ids, \A k \in DOMAIN s : s[k] # id
  PROVE  LET at == Cardinality({x \in Range(s) : Less(i, key, x, id)}) + 1
         IN  /\ InsertAt(s, at, id) \in Seq(ids) /\ Len(InsertAt(s, at, id)) = Len(s) + 1
             /\ SortedIds(i, key, InsertAt(s, at, id))
<1>. DEFINE P(a, b) == Less(i, key, a, b)
            n == Len(s)
            smaller == {x \in Range(s) : P(x, id)}
            places == {k \in 1..n : P(s[k], id)}
            at == Cardinality(smaller) + 1
            t == InsertAt(s, at, id)
<1>1. n \in Nat /\ DOMAIN s = 1..n /\ \A k \in 1..n : s[k] \in ids
  OBVIOUS
<1>2. \A a, b, c \in ids : /\ P(a, b) /\ P(b, c) => P(a, c)
                           /\ a # b => P(a, b) \/ P(b, a)
  BY LessOrder
<1>3. \A a, b \in 1..n : a < b => P(s[a], s[b])
  BY <1>1 DEF SortedIds
<1>. HIDE DEF n, P
<1>4. Cardinality(places) \in 0..n /\ places = 1..Cardinality(places)
  <2>1. places \in SUBSET (1..n)
    OBVIOUS
  <2>2. ASSUME NEW a \in 1..n, NEW b \in places, a < b PROVE a \in places
    <3>1. b \in 1..n /\ P(s[b], id) /\ P(s[a], s[b])
      BY <2>2, <1>3
    <3>. QED BY <3>1, <1>1, <1>2
  <2>. HIDE DEF places
  <2>. QED BY <1>1, <2>1, <2>2, InitialSegment
<1>5. Cardinality(smaller) = Cardinality(places)
  <2>. DEFINE f == [k \in places |-> s[k]]
  <2>1. f \in Surjection(places, smaller)
    <3>1. \A k \in places : f[k] \in smaller
      BY <1>1 DEF Range
    <3>2. \A x \in smaller : \E k \in places : f[k] = x
      BY <1>1 DEF Range
    <3>. HIDE DEF places, smaller
    <3>. QED BY <3>1, <3>2 DEF Surjection
  <2>2. f \in Injection(places, smaller)
    <3>1. \A a, b \in places : f[a] = f[b] => a = b
      <4>. SUFFICES ASSUME NEW a \in places, NEW b \in places, f[a] = f[b] PROVE a = b
        OBVIOUS
      <4>1. a \in DOMAIN s /\ b \in DOMAIN s /\ s[a] = s[b]
        BY <1>1
      <4>. QED BY <4>1, SortedDistinct
    <3>. HIDE DEF f, places, smaller
    <3>. QED BY <2>1, <3>1 DEF Surjection, Injection, IsInjective
  <2>3. IsFiniteSet(places)
    <3>1. IsFiniteSet(1..n) /\ places \in SUBSET (1..n)
      BY <1>1, FS_Interval
    <3>. HIDE DEF places
    <3>. QED BY <3>1, FS_Subset
  <2>. HIDE DEF f, places, smaller
  <2>. QED BY <2>1, <2>2, <2>3, FS_Surjection
<1>. HIDE DEF places, smaller
<1>6. at \in 1..(n + 1) /\ places = 1..(at - 1) /\ at \in Nat
  BY <1>1, <1>4, <1>5
<1>. HIDE DEF at
<1>7. /\ t \in Seq(ids) /\ Len(t) = n + 1
      /\ \A k \in 1..(at - 1) : t[k] = s[k]
      /\ t[at] = id
      /\ \A k \in (at + 1)..(n + 1) : t[k] = s[k - 1]
  <2>1. at \in 1..(Len(s) + 1)
    BY <1>6 DEF n
  <2>2. /\ InsertAt(s, at, id) \in Seq(ids) /\ Len(InsertAt(s, at, id)) = Len(s) + 1
        /\ \A k \in 1..(at - 1) : InsertAt(s, at, id)[k] = s[k]
        /\ InsertAt(s, at, id)[at] = id
        /\ \A k \in (at + 1)..(Len(s) + 1) : InsertAt(s, at, id)[k] = s[k - 1]
    BY <2>1, Inserted
  <2>. QED BY <2>2 DEF n
<1>. HIDE DEF t
<1>8. \A k \in 1..(at - 1) : k \in 1..n /\ P(s[k], id)
  BY <1>6 DEF places
<1>9. \A k \in at..n : k \in 1..n /\ P(id, s[k])
  <2>. SUFFICES ASSUME NEW k \in at..n PROVE k \in 1..n /\ P(id, s[k])
    OBVIOUS
  <2>1. k \in 1..n /\ k \notin 1..(at - 1)
    BY <1>1, <1>6
  <2>2. ~P(s[k], id)
    BY <2>1, <1>6 DEF places
  <2>. QED BY <2>1, <2>2, <1>1, <1>2
<1>10. n \in Nat /\ at \in Nat /\ 1 <= at
  BY <1>1, <1>6
<1>11. ASSUME NEW a \in 1..(n + 1), NEW b \in 1..(n + 1), a < b PROVE P(t[a], t[b])
  <2>1. CASE b < at
    <3>1. a \in 1..(at - 1) /\ b \in 1..(at - 1)
      BY <1>10, <1>11, <2>1
    <3>. QED BY <3>1, <1>3, <1>7, <1>8, <1>11
  <2>2. CASE b = at
    <3>1. a \in 1..(at - 1)
      BY <1>10, <1>11, <2>2
    <3>. QED BY <3>1, <2>2, <1>7, <1>8
  <2>3. CASE at < b
    <3>1. b \in (at + 1)..(n + 1) /\ b - 1 \in at..n /\ b - 1 \in 1..n
      BY <1>10, <2>3
    <3>2. t[b] = s[b - 1]
      BY <3>1, <1>7
    <3>3. CASE a = at
      BY <3>1, <3>2, <3>3, <1>7, <1>9
    <3>4. CASE a < at
      <4>1. a \in 1..(at - 1) /\ a \in 1..n /\ a < b - 1
        BY <1>10, <3>1, <3>4
      <4>. QED BY <4>1, <3>1, <3>2, <1>3, <1>7
    <3>5. CASE at < a
      <4>1. a \in (at + 1)..(n + 1) /\ a - 1 \in 1..n /\ a - 1 < b - 1
        BY <1>10, <1>11, <3>5
      <4>. QED BY <4>1, <3>1, <3>2, <1>3, <1>7
    <3>. QED BY <3>3, <3>4, <3>5, <1>6
  <2>. QED BY <2>1, <2>2, <2>3, <1>6
<1>12. SortedIds(i, key, t)
  <2>1. DOMAIN t = 1..(n + 1)
    BY <1>1, <1>7
  <2>. QED BY <2>1, <1>11 DEF SortedIds, P
<1>. QED BY <1>7, <1>12 DEF t, at, smaller, P, n

\* The elements of a list.
LEMMA ElementsAre ==
  ASSUME NEW X, NEW s \in Seq(X), NEW a \in DOMAIN s
  PROVE  s[a] \in X
OBVIOUS

\* A derived permutation may be behind the index: it lists rows that are there,
\* sorted as long as no sort key has changed since.
PermOK(i, key, p) ==
  /\ p.stat \in Nat /\ p.stat <= i.stat
  /\ p.covers \in Nat /\ p.covers <= Len(i.rows)
  /\ p.ids \in Seq(1..p.covers)
  /\ p.stat = i.stat => SortedIds(i, key, p.ids)

\* A permutation of the present generations, sorted now.
PermNow(i, key, p) == PermOK(i, key, p) /\ PermIsCurrent(i, p)

\* A permutation built anew is sorted.
LEMMA BuildPermNow ==
  ASSUME NEW i \in IndexType, NEW key \in Keys
  PROVE  PermNow(i, key, BuildPerm(i, key))
<1>. DEFINE s == SortIds(i, key, DOMAIN i.rows)
            p == BuildPerm(i, key)
<1>1. i.rows \in Seq(RowType) /\ i.stat \in Nat
  BY DEF IndexType
<1>2. Len(i.rows) \in Nat /\ DOMAIN i.rows = 1..Len(i.rows)
  BY <1>1
<1>3. s \in Seq(DOMAIN i.rows) /\ SortedIds(i, key, s)
  BY <1>1, SortIdsSorts
<1>4. p.ids = s /\ p.covers = Len(i.rows) /\ p.stat = i.stat
  BY DEF BuildPerm
<1>. HIDE DEF s, p
<1>5. PermOK(i, key, p)
  BY <1>1, <1>2, <1>3, <1>4 DEF PermOK
<1>6. PermIsCurrent(i, p)
  BY <1>4 DEF PermIsCurrent
<1>. QED BY <1>5, <1>6 DEF p, PermNow

\* Extending a permutation by the appended ids, or rebuilding it after a stat change, gives a sorted one.
LEMMA ExtendPermNow ==
  ASSUME NEW i \in IndexType, NEW key \in Keys, NEW p, PermOK(i, key, p)
  PROVE  PermNow(i, key, ExtendPerm(i, key, p))
<1>. DEFINE e == ExtendPerm(i, key, p)
            n == p.covers
            all == Len(i.rows)
            tail == SortIds(i, key, (n + 1)..all)
            ids == MergeRuns(i, key, p.ids, tail)
<1>1. i.rows \in Seq(RowType) /\ i.stat \in Nat
  BY DEF IndexType
<1>2. n \in Nat /\ all \in Nat /\ DOMAIN i.rows = 1..all /\ n <= all
  BY <1>1 DEF PermOK
<1>3. CASE p.stat # i.stat \/ p.covers > Len(i.rows)
  <2>1. e = BuildPerm(i, key)
    BY <1>3 DEF ExtendPerm
  <2>. HIDE DEF e
  <2>2. PermNow(i, key, e)
    BY <2>1, BuildPermNow
  <2>. QED BY <2>2 DEF e
<1>4. CASE ~(p.stat # i.stat \/ p.covers > Len(i.rows))
  <2>1. e.ids = ids /\ e.covers = all /\ e.stat = p.stat /\ p.stat = i.stat
    BY <1>4 DEF ExtendPerm
  <2>2. (n + 1)..all \in SUBSET DOMAIN i.rows
    BY <1>2
  <2>3. tail \in Seq((n + 1)..all) /\ SortedIds(i, key, tail)
    BY <1>1, <2>2, SortIdsSorts
  <2>4. p.ids \in Seq(1..n) /\ SortedIds(i, key, p.ids)
    BY <1>4 DEF PermOK
  <2>. HIDE DEF tail, e, n, all, ids
  <2>5. /\ p.ids \in Seq(DOMAIN i.rows) /\ tail \in Seq(DOMAIN i.rows)
        /\ \A a \in DOMAIN p.ids, b \in DOMAIN tail : p.ids[a] # tail[b]
    <3>1. \A a \in DOMAIN p.ids : p.ids[a] \in 1..n
      BY <2>4, ElementsAre
    <3>2. \A b \in DOMAIN tail : tail[b] \in (n + 1)..all
      BY <2>3, ElementsAre
    <3>3. \A x \in 1..n, y \in (n + 1)..all : x # y
      BY <1>2
    <3>4. 1..n \in SUBSET DOMAIN i.rows
      BY <1>2
    <3>5. p.ids \in Seq(DOMAIN i.rows) /\ tail \in Seq(DOMAIN i.rows)
      BY <3>4, <2>2, <2>3, <2>4
    <3>. QED BY <3>1, <3>2, <3>3, <3>5
  <2>6. ids \in Seq(DOMAIN i.rows) /\ SortedIds(i, key, ids)
    <3>1. DOMAIN i.rows \in SUBSET DOMAIN i.rows
      OBVIOUS
    <3>2. MergeRuns(i, key, p.ids, tail) \in Seq(DOMAIN i.rows)
          /\ SortedIds(i, key, MergeRuns(i, key, p.ids, tail))
      BY <3>1, <1>1, <2>3, <2>4, <2>5, MergeRunsSorts
    <3>. QED BY <3>2 DEF ids
  <2>7. PermOK(i, key, e)
    BY <1>1, <1>2, <2>1, <2>6 DEF PermOK, all
  <2>8. PermIsCurrent(i, e)
    BY <2>1 DEF PermIsCurrent, all
  <2>. QED BY <2>7, <2>8 DEF PermNow, e
<1>. QED BY <1>3, <1>4

\* What a batch may do to an index: the rows that were there stand for what
\* they stood for, and keep their sort keys unless the stat generation says so.
Batched(i, j) ==
  /\ IndexOK(j)
  /\ j.structural = i.structural
  /\ j.content = i.content + 1
  /\ j.stat >= i.stat
  /\ Len(i.rows) <= Len(j.rows)
  /\ \A id \in DOMAIN i.rows : j.rows[id].uid = i.rows[id].uid
  /\ j.stat = i.stat =>
       \A id \in DOMAIN i.rows : /\ j.rows[id].size = i.rows[id].size
                                 /\ j.rows[id].mtime = i.rows[id].mtime

\* What is known of a cached permutation survives a batch: sorted while stat generations agree.
LEMMA PermStays ==
  ASSUME NEW i \in IndexType, NEW j, Batched(i, j), NEW key \in {"size", "mtime"}, NEW p,
         PermOK(i, key, p)
  PROVE  PermOK(j, key, p)
<1>1. /\ p.stat \in Nat /\ p.stat <= i.stat /\ i.stat \in Nat /\ j.stat \in Nat /\ i.stat <= j.stat
      /\ p.covers \in Nat /\ p.covers <= Len(i.rows) /\ Len(i.rows) <= Len(j.rows)
      /\ p.ids \in Seq(1..p.covers) /\ i.rows \in Seq(RowType) /\ j.rows \in Seq(RowType)
  BY DEF PermOK, Batched, IndexOK, IndexType
<1>2. Len(i.rows) \in Nat /\ Len(j.rows) \in Nat /\ DOMAIN i.rows = 1..Len(i.rows)
  BY <1>1
<1>3. ASSUME p.stat = j.stat PROVE SortedIds(j, key, p.ids)
  <2>1. j.stat = i.stat /\ p.stat = i.stat
    BY <1>1, <1>3
  <2>2. SameKeys(i, j, key, 1..p.covers)
    <3>1. 1..p.covers \in SUBSET DOMAIN i.rows
      BY <1>1, <1>2
    <3>. QED BY <2>1, <3>1 DEF Batched, SameKeys
  <2>3. SortedIds(i, key, p.ids) /\ key \in Keys
    BY <2>1 DEF PermOK, Keys
  <2>. QED BY <1>1, <2>2, <2>3, SortedSame
<1>4. p.stat <= j.stat /\ p.covers <= Len(j.rows)
  BY <1>1, <1>2
<1>. QED BY <1>1, <1>3, <1>4 DEF PermOK

\* An index before the tail is merged in.
Unmerged(i) ==
  /\ i \in IndexType /\ Rooted(i.rows) /\ Len(i.perm) <= Len(i.rows)
  /\ i.perm \in Seq(1..Len(i.perm)) /\ SortedIds(i, "name", i.perm)

\* Merging the tail completes a batch.
LEMMA MergedBatches ==
  ASSUME NEW i \in IndexType, NEW j, Unmerged(j),
         j.structural = i.structural, j.content = i.content, j.stat >= i.stat,
         Len(i.rows) <= Len(j.rows),
         \A id \in DOMAIN i.rows : j.rows[id].uid = i.rows[id].uid,
         j.stat = i.stat =>
           \A id \in DOMAIN i.rows : /\ j.rows[id].size = i.rows[id].size
                                     /\ j.rows[id].mtime = i.rows[id].mtime
  PROVE  Batched(i, MergeTail(j))
<1>. DEFINE m == MergeTail(j)
<1>1. /\ IndexOK(m) /\ m.rows = j.rows /\ m.content = j.content + 1
      /\ m.structural = j.structural /\ m.stat = j.stat
  BY MergeTailOK DEF Unmerged
<1>. HIDE DEF m
<1>2. Batched(i, m)
  BY <1>1 DEF Batched
<1>. QED BY <1>2 DEF m

\* What a well-formed index is, spelled out.
LEMMA PermIsPrefix ==
  ASSUME NEW i, IndexOK(i)
  PROVE  /\ i.perm \in Seq(1..Len(i.perm)) /\ Len(i.perm) = Len(i.rows) /\ Len(i.rows) \in Nat
         /\ DOMAIN i.rows = 1..Len(i.rows) /\ i \in IndexType /\ i.rows \in Seq(RowType)
         /\ SortedIds(i, "name", i.perm) /\ "name" \in Keys /\ Rooted(i.rows)
         /\ i = [rows |-> i.rows, perm |-> i.perm, content |-> i.content,
                 structural |-> i.structural, stat |-> i.stat, topo |-> i.topo]
         /\ i.content \in Nat /\ i.structural \in Nat /\ i.stat \in Nat /\ i.topo \in Nat
         /\ i.perm \in Seq(Nat)
<1>1. i \in IndexType /\ Rooted(i.rows) /\ i.perm \in Seq(DOMAIN i.rows)
      /\ Len(i.perm) = Len(i.rows) /\ SortedIds(i, "name", i.perm)
  BY DEF IndexOK, PermSorted
<1>2. /\ i.rows \in Seq(RowType)
      /\ i = [rows |-> i.rows, perm |-> i.perm, content |-> i.content,
              structural |-> i.structural, stat |-> i.stat, topo |-> i.topo]
      /\ i.content \in Nat /\ i.structural \in Nat /\ i.stat \in Nat /\ i.topo \in Nat
      /\ i.perm \in Seq(Nat)
  BY <1>1 DEF IndexType
<1>3. Len(i.rows) \in Nat /\ DOMAIN i.rows = 1..Len(i.rows)
  BY <1>2
<1>4. i.perm \in Seq(1..Len(i.perm))
  BY <1>1, <1>3
<1>. QED BY <1>1, <1>2, <1>3, <1>4 DEF Keys

\* Appending a row under a live directory is a batch: the index stays well formed.
LEMMA AppendBatches ==
  ASSUME NEW i, IndexOK(i), NEW row \in RowType, row.parent \in DOMAIN i.rows,
         i.rows[row.parent].dir, i.rows[row.parent].live
  PROVE  Batched(i, MergeTail([i EXCEPT !.rows = Append(@, row)]))
<1>. DEFINE rows == Append(i.rows, row)
            j == [i EXCEPT !.rows = Append(@, row)]
            n == Len(i.rows)
<1>1. /\ i.perm \in Seq(1..Len(i.perm)) /\ Len(i.perm) = n /\ n \in Nat
      /\ DOMAIN i.rows = 1..n /\ i \in IndexType /\ i.rows \in Seq(RowType)
      /\ SortedIds(i, "name", i.perm) /\ "name" \in Keys /\ Rooted(i.rows)
      /\ i = [rows |-> i.rows, perm |-> i.perm, content |-> i.content,
              structural |-> i.structural, stat |-> i.stat, topo |-> i.topo]
      /\ i.content \in Nat /\ i.structural \in Nat /\ i.stat \in Nat /\ i.topo \in Nat
      /\ i.perm \in Seq(Nat)
  BY PermIsPrefix
<1>2. /\ rows \in Seq(RowType) /\ Len(rows) = n + 1 /\ DOMAIN rows = 1..(n + 1)
      /\ \A id \in 1..n : rows[id] = i.rows[id]
      /\ rows[n + 1] = row
  BY <1>1
<1>3. j = [rows |-> rows, perm |-> i.perm, content |-> i.content,
           structural |-> i.structural, stat |-> i.stat, topo |-> i.topo]
  <2>. HIDE DEF rows
  <2>1. j = [i EXCEPT !.rows = rows]
    BY DEF rows
  <2>. HIDE DEF j
  <2>. QED BY <1>1, <2>1
<1>. HIDE DEF rows, j, n
<1>4. Rooted(rows)
  <2>. SUFFICES ASSUME NEW id \in DOMAIN rows, rows[id].live
                PROVE  /\ rows[id].parent \in DOMAIN rows
                       /\ rows[rows[id].parent].live /\ rows[rows[id].parent].dir
    BY DEF Rooted
  <2>1. CASE id = n + 1
    <3>1. row.parent \in 1..n /\ row.parent \in 1..(n + 1)
      BY <1>1
    <3>. QED BY <3>1, <2>1, <1>2
  <2>2. CASE id # n + 1
    <3>1. id \in 1..n
      BY <1>1, <1>2, <2>2
    <3>2. i.rows[id].parent \in 1..n /\ i.rows[i.rows[id].parent].live /\ i.rows[i.rows[id].parent].dir
      BY <3>1, <1>1, <1>2 DEF Rooted
    <3>3. \A x \in 1..n : x \in 1..(n + 1)
      BY <1>1
    <3>4. i.rows[id].parent \in 1..(n + 1)
      BY <3>2, <3>3
    <3>. QED BY <3>1, <3>2, <3>4, <1>2
  <2>. QED BY <2>1, <2>2
<1>5. j.rows = rows /\ j.perm = i.perm /\ j.content = i.content /\ j.structural = i.structural /\ j.stat = i.stat
  BY <1>3
<1>6. j \in IndexType
  BY <1>1, <1>2, <1>3 DEF IndexType
<1>7. SortedIds(j, "name", i.perm)
  <2>1. SameKeys(i, j, "name", 1..n)
    BY <1>2, <1>5 DEF SameKeys
  <2>. QED BY <2>1, <1>1, SortedSame
<1>8. Unmerged(j)
  <2>1. Len(i.perm) <= Len(rows)
    BY <1>1, <1>2
  <2>. QED BY <2>1, <1>1, <1>4, <1>5, <1>6, <1>7 DEF Unmerged
<1>9. /\ j.stat >= i.stat /\ Len(i.rows) <= Len(j.rows)
      /\ \A id \in DOMAIN i.rows : j.rows[id] = i.rows[id]
  BY <1>1, <1>2, <1>5 DEF n
<1>10. Batched(i, MergeTail(j))
  BY <1>1, <1>5, <1>8, <1>9, MergedBatches
<1>. QED BY <1>10 DEF j, rows

\* A batch that changes one row in place, its uid and its parent excepted.
LEMMA ChangeUnmerged ==
  ASSUME NEW i, IndexOK(i), NEW id \in DOMAIN i.rows, NEW row \in RowType,
         row.uid = i.rows[id].uid, row.parent = i.rows[id].parent, row.dir = i.rows[id].dir,
         row.live => i.rows[id].live,
         row.live \/ ~i.rows[id].dir,
         NEW j \in IndexType, j.rows = [i.rows EXCEPT ![id] = row]
  PROVE  /\ Rooted(j.rows) /\ Len(j.rows) = Len(i.rows) /\ DOMAIN j.rows = DOMAIN i.rows
         /\ \A k \in DOMAIN i.rows : j.rows[k] = IF k = id THEN row ELSE i.rows[k]
         /\ \A k \in DOMAIN i.rows : j.rows[k].uid = i.rows[k].uid
<1>1. i.rows \in Seq(RowType) /\ Rooted(i.rows) /\ j.rows \in Seq(RowType)
  BY DEF IndexOK, IndexType
<1>2. /\ DOMAIN j.rows = DOMAIN i.rows
      /\ \A k \in DOMAIN i.rows : j.rows[k] = IF k = id THEN row ELSE i.rows[k]
  BY <1>1
<1>3. Len(j.rows) = Len(i.rows)
  <2>1. Len(j.rows) \in Nat /\ Len(i.rows) \in Nat /\ DOMAIN j.rows = 1..Len(j.rows)
        /\ DOMAIN i.rows = 1..Len(i.rows)
    BY <1>1
  <2>. QED BY <2>1, <1>2
<1>4. Rooted(j.rows)
  <2>. SUFFICES ASSUME NEW k \in DOMAIN j.rows, j.rows[k].live
                PROVE  /\ j.rows[k].parent \in DOMAIN j.rows
                       /\ j.rows[j.rows[k].parent].live /\ j.rows[j.rows[k].parent].dir
    BY DEF Rooted
  <2>1. k \in DOMAIN i.rows /\ i.rows[k].live /\ j.rows[k].parent = i.rows[k].parent
    BY <1>2
  <2>. DEFINE p == i.rows[k].parent
  <2>2. p \in DOMAIN i.rows /\ i.rows[p].live /\ i.rows[p].dir
    BY <2>1, <1>1 DEF Rooted
  <2>. HIDE DEF p
  <2>3. j.rows[p].live /\ j.rows[p].dir
    <3>1. CASE p = id
      BY <3>1, <2>2, <1>2
    <3>2. CASE p # id
      BY <3>2, <2>2, <1>2
    <3>. QED BY <3>1, <3>2
  <2>. QED BY <2>1, <2>2, <2>3, <1>2 DEF p
<1>. QED BY <1>2, <1>3, <1>4

\* Changing a row in place without its name is a batch.
LEMMA ChangeBatches ==
  ASSUME NEW i, IndexOK(i), NEW id \in DOMAIN i.rows, NEW row \in RowType,
         row.uid = i.rows[id].uid, row.parent = i.rows[id].parent, row.dir = i.rows[id].dir,
         row.live => i.rows[id].live,
         row.live \/ ~i.rows[id].dir,
         row.name = i.rows[id].name,
         NEW j \in IndexType, j.rows = [i.rows EXCEPT ![id] = row],
         j.perm = i.perm, j.structural = i.structural, j.content = i.content, j.stat >= i.stat,
         j.stat = i.stat => row.size = i.rows[id].size /\ row.mtime = i.rows[id].mtime
  PROVE  Batched(i, MergeTail(j))
<1>1. /\ i.perm \in Seq(1..Len(i.perm)) /\ Len(i.perm) = Len(i.rows) /\ Len(i.rows) \in Nat
      /\ DOMAIN i.rows = 1..Len(i.rows) /\ i \in IndexType /\ i.rows \in Seq(RowType)
      /\ SortedIds(i, "name", i.perm) /\ "name" \in Keys
  BY PermIsPrefix
<1>2. /\ Rooted(j.rows) /\ Len(j.rows) = Len(i.rows) /\ DOMAIN j.rows = DOMAIN i.rows
      /\ \A k \in DOMAIN i.rows : j.rows[k] = IF k = id THEN row ELSE i.rows[k]
      /\ \A k \in DOMAIN i.rows : j.rows[k].uid = i.rows[k].uid
  BY ChangeUnmerged
<1>3. SortedIds(j, "name", i.perm)
  <2>1. SameKeys(i, j, "name", 1..Len(i.perm))
    BY <1>1, <1>2 DEF SameKeys
  <2>. QED BY <2>1, <1>1, SortedSame
<1>4. Unmerged(j)
  <2>1. Len(j.perm) <= Len(j.rows) /\ j.perm \in Seq(1..Len(j.perm))
    BY <1>1, <1>2
  <2>. QED BY <2>1, <1>2, <1>3 DEF Unmerged
<1>5. j.stat = i.stat => \A k \in DOMAIN i.rows : /\ j.rows[k].size = i.rows[k].size
                                                 /\ j.rows[k].mtime = i.rows[k].mtime
  BY <1>2
<1>6. Len(i.rows) <= Len(j.rows)
  BY <1>1, <1>2
<1>. QED BY <1>1, <1>2, <1>4, <1>5, <1>6, MergedBatches

\* Deleting a file is a batch.
LEMMA DeleteBatches ==
  ASSUME NEW i, IndexOK(i), NEW id \in DOMAIN i.rows, i.rows[id].live, ~i.rows[id].dir
  PROVE  Batched(i, MergeTail([i EXCEPT !.rows[id].live = FALSE]))
<1>. DEFINE row == [i.rows[id] EXCEPT !.live = FALSE]
            rows == [i.rows EXCEPT ![id] = row]
            j == [i EXCEPT !.rows[id].live = FALSE]
<1>1. /\ i \in IndexType /\ i.rows \in Seq(RowType)
      /\ i = [rows |-> i.rows, perm |-> i.perm, content |-> i.content,
              structural |-> i.structural, stat |-> i.stat, topo |-> i.topo]
      /\ i.content \in Nat /\ i.structural \in Nat /\ i.stat \in Nat /\ i.topo \in Nat
      /\ i.perm \in Seq(Nat)
  BY PermIsPrefix
<1>2. i.rows[id] \in RowType
  BY <1>1
<1>3. /\ row \in RowType /\ row.uid = i.rows[id].uid /\ row.parent = i.rows[id].parent
      /\ row.dir = i.rows[id].dir /\ ~row.live /\ row.name = i.rows[id].name
      /\ row.size = i.rows[id].size /\ row.mtime = i.rows[id].mtime
  BY <1>2 DEF RowType, RowOf
<1>4. j = [i EXCEPT !.rows = rows]
  OBVIOUS
<1>. HIDE DEF row
<1>5. rows \in Seq(RowType)
  BY <1>1, <1>3
<1>. HIDE DEF rows, j
<1>6. j = [rows |-> rows, perm |-> i.perm, content |-> i.content,
           structural |-> i.structural, stat |-> i.stat, topo |-> i.topo]
  BY <1>1, <1>4
<1>7. j \in IndexType
  BY <1>1, <1>5, <1>6 DEF IndexType
<1>8. j.rows = [i.rows EXCEPT ![id] = row]
  BY <1>6 DEF rows
<1>9. j.perm = i.perm /\ j.structural = i.structural /\ j.content = i.content /\ j.stat = i.stat
      /\ j.stat >= i.stat
  BY <1>1, <1>6
<1>10. Batched(i, MergeTail(j))
  BY <1>3, <1>7, <1>8, <1>9, ChangeBatches
<1>. QED BY <1>10 DEF j

\* A stat change is a batch, and bumps the stat generation the sizes need.
LEMMA StatBatches ==
  ASSUME NEW i, IndexOK(i), NEW id \in DOMAIN i.rows, i.rows[id].live, NEW size \in Int
  PROVE  Batched(i, MergeTail([i EXCEPT !.rows[id].size = size, !.stat = @ + 1]))
<1>. DEFINE row == [i.rows[id] EXCEPT !.size = size]
            rows == [i.rows EXCEPT ![id] = row]
            j == [i EXCEPT !.rows[id].size = size, !.stat = @ + 1]
<1>1. /\ i \in IndexType /\ i.rows \in Seq(RowType)
      /\ i = [rows |-> i.rows, perm |-> i.perm, content |-> i.content,
              structural |-> i.structural, stat |-> i.stat, topo |-> i.topo]
      /\ i.content \in Nat /\ i.structural \in Nat /\ i.stat \in Nat /\ i.topo \in Nat
      /\ i.perm \in Seq(Nat)
  BY PermIsPrefix
<1>2. i.rows[id] \in RowType
  BY <1>1
<1>3. /\ row \in RowType /\ row.uid = i.rows[id].uid /\ row.parent = i.rows[id].parent
      /\ row.dir = i.rows[id].dir /\ row.live /\ row.name = i.rows[id].name
  BY <1>2 DEF RowType, RowOf
<1>4. j = [i EXCEPT !.rows = rows, !.stat = @ + 1]
  OBVIOUS
<1>. HIDE DEF row
<1>5. rows \in Seq(RowType)
  BY <1>1, <1>3
<1>. HIDE DEF rows, j
<1>6. j = [rows |-> rows, perm |-> i.perm, content |-> i.content,
           structural |-> i.structural, stat |-> i.stat + 1, topo |-> i.topo]
  BY <1>1, <1>4
<1>7. j \in IndexType
  <2>1. i.stat + 1 \in Nat
    BY <1>1
  <2>. QED BY <1>1, <1>5, <1>6, <2>1 DEF IndexType
<1>8. j.rows = [i.rows EXCEPT ![id] = row]
  BY <1>6 DEF rows
<1>9. /\ j.perm = i.perm /\ j.structural = i.structural /\ j.content = i.content
      /\ j.stat # i.stat /\ j.stat >= i.stat
  BY <1>1, <1>6
<1>10. Batched(i, MergeTail(j))
  BY <1>3, <1>7, <1>8, <1>9, ChangeBatches
<1>. QED BY <1>10 DEF j

\* Without one row the name order lists the others.
LEMMA PermWithout ==
  ASSUME NEW i, IndexOK(i), NEW id \in DOMAIN i.rows
  PROVE  /\ Filter(i.perm, DOMAIN i.rows \ {id}) \in Seq(DOMAIN i.rows \ {id})
         /\ SortedIds(i, "name", Filter(i.perm, DOMAIN i.rows \ {id}))
         /\ Len(Filter(i.perm, DOMAIN i.rows \ {id})) = Len(i.rows) - 1
<1>. DEFINE rest == DOMAIN i.rows \ {id}
            f == Filter(i.perm, rest)
            n == Len(i.rows)
<1>1. /\ Len(i.perm) = n /\ n \in Nat
      /\ DOMAIN i.rows = 1..n /\ i \in IndexType /\ i.rows \in Seq(RowType)
      /\ SortedIds(i, "name", i.perm) /\ "name" \in Keys /\ Rooted(i.rows)
  BY PermIsPrefix
<1>2. i.perm \in Seq(DOMAIN i.rows)
  BY DEF IndexOK, PermSorted
<1>3. f \in Seq((DOMAIN i.rows) \cap rest) /\ Len(f) = Cardinality(Positions(i.perm, rest))
  <2>. DEFINE X == DOMAIN i.rows  s == i.perm
  <2>1. s \in Seq(X)
    BY <1>2
  <2>. HIDE DEF rest, X, s
  <2>2. Filter(s, rest) \in Seq(X \cap rest)
        /\ Len(Filter(s, rest)) = Cardinality(Positions(s, rest))
    BY <2>1, FilterKeeps
  <2>. QED BY <2>2 DEF X, s
<1>4. SortedIds(i, "name", f)
  BY <1>1, <1>2, FilterSorted
<1>5. DOMAIN i.perm = 1..n /\ i.perm \in [1..n -> 1..n]
  BY <1>1, <1>2
<1>6. \A a, b \in DOMAIN i.perm : i.perm[a] = i.perm[b] => a = b
  <2>1. DOMAIN i.rows \in SUBSET DOMAIN i.rows
    OBVIOUS
  <2>. QED BY <2>1, <1>1, <1>2, SortedDistinct
<1>. HIDE DEF f, n
<1>7. i.perm \in Injection(1..n, 1..n)
  BY <1>5, <1>6 DEF Injection, IsInjective
<1>8. IsFiniteSet(1..n) /\ Cardinality(1..n) = n
  <2>1. IsFiniteSet(1..n) /\ Cardinality(1..n) = IF 1 > n THEN 0 ELSE n - 1 + 1
    BY <1>1, FS_Interval
  <2>. QED BY <2>1, <1>1
<1>9. i.perm \in Surjection(1..n, 1..n)
  BY <1>7, <1>8, FS_Injection
<1>10. PICK k \in 1..n : i.perm[k] = id
  BY <1>9, <1>1 DEF Surjection
<1>11. Positions(i.perm, rest) = (1..n) \ {k}
  BY <1>1, <1>5, <1>6, <1>10 DEF Positions
<1>12. Cardinality((1..n) \ {k}) = n - 1
  BY <1>8, <1>10, FS_RemoveElement
<1>13. f \in Seq(rest)
  <2>1. (DOMAIN i.rows) \cap rest = rest
    OBVIOUS
  <2>. QED BY <2>1, <1>3
<1>14. Len(f) = n - 1
  BY <1>3, <1>11, <1>12
<1>. QED BY <1>4, <1>13, <1>14 DEF f, n

\* A directory rename is a batch: its id is found its new place in the name order.
LEMMA RenameBatches ==
  ASSUME NEW i, IndexOK(i), NEW id \in DOMAIN i.rows, i.rows[id].live, NEW name \in Texts
  PROVE  LET j    == [i EXCEPT !.rows[id].name = name, !.topo = @ + 1]
             rest == Filter(j.perm, DOMAIN j.rows \ {id})
             at   == Cardinality({x \in Range(rest) : Less(j, "name", x, id)}) + 1
         IN  Batched(i, MergeTail([j EXCEPT !.perm = InsertAt(rest, at, id)]))
<1>. DEFINE row == [i.rows[id] EXCEPT !.name = name]
            rows == [i.rows EXCEPT ![id] = row]
            j == [i EXCEPT !.rows[id].name = name, !.topo = @ + 1]
            rest == Filter(j.perm, DOMAIN j.rows \ {id})
            at == Cardinality({x \in Range(rest) : Less(j, "name", x, id)}) + 1
            t == InsertAt(rest, at, id)
            u == [j EXCEPT !.perm = t]
            n == Len(i.rows)
<1>1. /\ Len(i.perm) = n /\ n \in Nat
      /\ DOMAIN i.rows = 1..n /\ i \in IndexType /\ i.rows \in Seq(RowType)
      /\ SortedIds(i, "name", i.perm) /\ "name" \in Keys
      /\ i = [rows |-> i.rows, perm |-> i.perm, content |-> i.content,
              structural |-> i.structural, stat |-> i.stat, topo |-> i.topo]
      /\ i.content \in Nat /\ i.structural \in Nat /\ i.stat \in Nat /\ i.topo \in Nat
      /\ i.perm \in Seq(Nat)
  BY PermIsPrefix
<1>2. i.rows[id] \in RowType
  BY <1>1
<1>3. /\ row \in RowType /\ row.uid = i.rows[id].uid /\ row.parent = i.rows[id].parent
      /\ row.dir = i.rows[id].dir /\ row.live
      /\ row.size = i.rows[id].size /\ row.mtime = i.rows[id].mtime
  BY <1>2 DEF RowType, RowOf, Texts
<1>4. j = [i EXCEPT !.rows = rows, !.topo = @ + 1]
  OBVIOUS
<1>. HIDE DEF row
<1>5. rows \in Seq(RowType)
  BY <1>1, <1>3
<1>. HIDE DEF rows, j
<1>6. j = [rows |-> rows, perm |-> i.perm, content |-> i.content,
           structural |-> i.structural, stat |-> i.stat, topo |-> i.topo + 1]
  BY <1>1, <1>4
<1>7. j.rows = rows /\ j.perm = i.perm
  BY <1>6
<1>. HIDE DEF n
<1>8. j \in IndexType
  <2>1. i.topo + 1 \in Nat
    BY <1>1
  <2>. QED BY <1>1, <1>5, <1>6, <2>1 DEF IndexType
<1>9. /\ Rooted(j.rows) /\ Len(j.rows) = n /\ DOMAIN j.rows = DOMAIN i.rows
      /\ \A k \in DOMAIN i.rows : j.rows[k] = IF k = id THEN row ELSE i.rows[k]
      /\ \A k \in DOMAIN i.rows : j.rows[k].uid = i.rows[k].uid
  <2>1. j.rows = [i.rows EXCEPT ![id] = row]
    BY <1>7 DEF rows
  <2>. QED BY <2>1, <1>3, <1>8, ChangeUnmerged DEF n
<1>10. /\ rest \in Seq(DOMAIN i.rows \ {id}) /\ SortedIds(i, "name", rest) /\ Len(rest) = n - 1
  <2>1. rest = Filter(i.perm, DOMAIN i.rows \ {id})
    BY <1>7, <1>9
  <2>. HIDE DEF rest
  <2>. QED BY <2>1, PermWithout DEF n
<1>. HIDE DEF rest
<1>11. SortedIds(j, "name", rest)
  <2>1. SameKeys(i, j, "name", DOMAIN i.rows \ {id})
    BY <1>9 DEF SameKeys
  <2>. QED BY <2>1, <1>1, <1>10, SortedSame
<1>12. t \in Seq(DOMAIN j.rows) /\ Len(t) = Len(rest) + 1 /\ SortedIds(j, "name", t)
  <2>1. j.rows \in Seq(RowType) /\ DOMAIN j.rows \in SUBSET DOMAIN j.rows
        /\ id \in DOMAIN j.rows /\ rest \in Seq(DOMAIN j.rows)
    BY <1>5, <1>7, <1>9, <1>10
  <2>2. \A k \in DOMAIN rest : rest[k] # id
    <3>1. \A k \in DOMAIN rest : rest[k] \in DOMAIN i.rows \ {id}
      BY <1>10, ElementsAre
    <3>. QED BY <3>1
  <2>. QED BY <2>1, <2>2, <1>1, <1>11, InsertSorts
<1>. HIDE DEF t
<1>13. u = [rows |-> rows, perm |-> t, content |-> i.content,
            structural |-> i.structural, stat |-> i.stat, topo |-> i.topo + 1]
  BY <1>6
<1>. HIDE DEF u
<1>14. Len(t) = n /\ t \in Seq(1..n) /\ t \in Seq(Nat)
  <2>1. Len(t) = n
    BY <1>1, <1>10, <1>12
  <2>2. DOMAIN j.rows = 1..n /\ 1..n \in SUBSET Nat
    BY <1>1, <1>9
  <2>. QED BY <2>1, <2>2, <1>12
<1>15. u \in IndexType
  <2>1. i.topo + 1 \in Nat
    BY <1>1
  <2>. QED BY <1>1, <1>5, <1>13, <1>14, <2>1 DEF IndexType
<1>16. u.rows = j.rows /\ u.perm = t /\ u.content = i.content /\ u.structural = i.structural
       /\ u.stat = i.stat
  BY <1>7, <1>13
<1>17. SortedIds(u, "name", t)
  <2>1. SameKeys(j, u, "name", DOMAIN j.rows)
    BY <1>16 DEF SameKeys
  <2>. QED BY <2>1, <1>1, <1>12, SortedSame
<1>18. Unmerged(u)
  BY <1>1, <1>9, <1>14, <1>15, <1>16, <1>17 DEF Unmerged
<1>19. \A k \in DOMAIN i.rows : u.rows[k].size = i.rows[k].size /\ u.rows[k].mtime = i.rows[k].mtime
  BY <1>3, <1>9, <1>16
<1>20. Len(i.rows) <= Len(u.rows) /\ u.stat >= i.stat
  BY <1>1, <1>9, <1>16 DEF n
<1>21. Batched(i, MergeTail(u))
  BY <1>1, <1>9, <1>16, <1>18, <1>19, <1>20, MergedBatches
<1>. QED BY <1>21 DEF u, t, rest, j

\* What survives a compaction: the live rows in their order, parents renumbered.
LiveIds(i) == {k \in DOMAIN i.rows : i.rows[k].live}
Renumbered(i, p) == Place(LiveIds(i), p) + 1

\* Each live row survives once, its parent renumbered with it.
LEMMA SurvivorsAre ==
  ASSUME NEW i, IndexOK(i)
  PROVE  /\ Len(Survivors(i)) \in Nat /\ DOMAIN Survivors(i) = 1..Len(Survivors(i))
         /\ \A p \in LiveIds(i) : Renumbered(i, p) \in DOMAIN Survivors(i)
         /\ \A k \in DOMAIN Survivors(i) :
              \E p \in LiveIds(i) : k = Renumbered(i, p)
         /\ \A p \in LiveIds(i) :
              Survivors(i)[Renumbered(i, p)] =
                [i.rows[p] EXCEPT !.parent = Renumbered(i, i.rows[p].parent)]
<1>. DEFINE n == Len(i.rows)
            s == [k \in DOMAIN i.rows |-> k]
            alive == LiveIds(i)
            f == Filter(s, alive)
            upto(k) == {j \in Range(f) : j <= k}
            new == [k \in Range(f) |-> Cardinality(upto(k))]
            S == [k \in DOMAIN f |-> [i.rows[f[k]] EXCEPT !.parent = new[@]]]
<1>1. i.rows \in Seq(RowType) /\ n \in Nat /\ DOMAIN i.rows = 1..n /\ Rooted(i.rows)
  BY PermIsPrefix
<1>2. Survivors(i) = S
  BY DEF Survivors, LiveIds
<1>3. s \in Seq(1..n) /\ DOMAIN s = 1..n /\ \A k \in 1..n : s[k] = k
  BY <1>1
<1>4. Positions(s, alive) = alive
  BY <1>1, <1>3 DEF Positions, LiveIds
<1>5. f \in Seq((1..n) \cap alive) /\ Filtered(s, alive, f)
  <2>. HIDE DEF s, alive, n, f
  <2>1. Filter(s, alive) \in Seq((1..n) \cap alive) /\ Filtered(s, alive, Filter(s, alive))
    BY <1>3, FilterAt
  <2>. QED BY <2>1 DEF f
<1>. HIDE DEF s, f
<1>6. /\ Len(f) = Cardinality(alive) /\ IsFiniteSet(alive) /\ Len(f) \in Nat /\ DOMAIN f = 1..Len(f)
      /\ \A p \in alive : Renumbered(i, p) \in 1..Len(f) /\ f[Renumbered(i, p)] = s[p]
      /\ \A k \in 1..Len(f) : \E p \in alive : Renumbered(i, p) = k
  BY <1>4, <1>5 DEF Filtered, Renumbered
<1>7. \A p \in alive : p \in 1..n /\ s[p] = p
  BY <1>1, <1>3 DEF LiveIds
<1>8. \A p \in alive : f[Renumbered(i, p)] = p
  BY <1>6, <1>7
<1>9. Range(f) = alive
  <2>1. \A x \in Range(f) : x \in alive
    <3>. SUFFICES ASSUME NEW k \in DOMAIN f PROVE f[k] \in alive
      BY DEF Range
    <3>. QED BY <1>6, <1>8
  <2>2. \A p \in alive : p \in Range(f)
    BY <1>6, <1>8 DEF Range
  <2>. QED BY <2>1, <2>2
<1>10. ASSUME NEW p \in alive PROVE p \in DOMAIN new /\ new[p] = Renumbered(i, p)
  <2>. DEFINE below == {j \in alive : j < p}
  <2>1. upto(p) = below \cup {p}
    BY <1>7, <1>9
  <2>2. IsFiniteSet(below)
    <3>1. below \in SUBSET alive
      OBVIOUS
    <3>. HIDE DEF below
    <3>. QED BY <3>1, <1>6, FS_Subset
  <2>3. p \notin below
    BY <1>7
  <2>. HIDE DEF below
  <2>4. Cardinality(below \cup {p}) = Cardinality(below) + 1
    BY <2>2, <2>3, FS_AddElement
  <2>5. Renumbered(i, p) = Cardinality(below) + 1
    BY DEF Renumbered, Place, below
  <2>6. new[p] = Cardinality(upto(p)) /\ p \in DOMAIN new
    BY <1>9
  <2>. HIDE DEF new, upto
  <2>. QED BY <2>1, <2>4, <2>5, <2>6
<1>11. \A p \in alive : i.rows[p].parent \in alive
  BY <1>1 DEF Rooted, LiveIds
<1>12. DOMAIN S = DOMAIN f /\ Len(S) = Len(f)
  <2>1. DOMAIN S = 1..Len(f)
    BY <1>6
  <2>. HIDE DEF S
  <2>. QED BY <2>1, <1>6
<1>13. ASSUME NEW p \in alive
       PROVE  S[Renumbered(i, p)] = [i.rows[p] EXCEPT !.parent = Renumbered(i, i.rows[p].parent)]
  <2>1. Renumbered(i, p) \in DOMAIN f /\ f[Renumbered(i, p)] = p
    BY <1>6, <1>8
  <2>2. S[Renumbered(i, p)] = [i.rows[p] EXCEPT !.parent = new[i.rows[p].parent]]
    BY <2>1
  <2>3. new[i.rows[p].parent] = Renumbered(i, i.rows[p].parent)
    BY <1>10, <1>11
  <2>. HIDE DEF S, new
  <2>. QED BY <2>2, <2>3
<1>. HIDE DEF S
<1>. QED BY <1>2, <1>6, <1>12, <1>13

\* The rows of a compacted index are a forest again.
LEMMA SurvivorsOK ==
  ASSUME NEW i, IndexOK(i)
  PROVE  Survivors(i) \in Seq(RowType) /\ Rooted(Survivors(i))
<1>. DEFINE S == Survivors(i)
<1>1. /\ Len(S) \in Nat /\ DOMAIN S = 1..Len(S)
      /\ \A p \in LiveIds(i) : Renumbered(i, p) \in DOMAIN S
      /\ \A k \in DOMAIN S : \E p \in LiveIds(i) : k = Renumbered(i, p)
      /\ \A p \in LiveIds(i) :
           S[Renumbered(i, p)] = [i.rows[p] EXCEPT !.parent = Renumbered(i, i.rows[p].parent)]
  BY SurvivorsAre
<1>2. i.rows \in Seq(RowType) /\ Rooted(i.rows)
  BY PermIsPrefix
<1>3. \A p \in LiveIds(i) : i.rows[p].parent \in LiveIds(i) /\ i.rows[i.rows[p].parent].dir
  BY <1>2 DEF Rooted, LiveIds
<1>. HIDE DEF S
<1>4. ASSUME NEW p \in LiveIds(i)
      PROVE  LET r == S[Renumbered(i, p)]
             IN  /\ r \in RowType /\ r.dir = i.rows[p].dir /\ r.live
                 /\ r.parent = Renumbered(i, i.rows[p].parent)
  <2>1. i.rows[p] \in RowType /\ i.rows[p].live
    BY <1>2 DEF LiveIds
  <2>2. Renumbered(i, i.rows[p].parent) \in Nat
    BY <1>1, <1>3
  <2>3. S[Renumbered(i, p)] = [i.rows[p] EXCEPT !.parent = Renumbered(i, i.rows[p].parent)]
    BY <1>1
  <2>. QED BY <2>1, <2>2, <2>3 DEF RowType, RowOf
<1>5. S \in Seq(RowType)
  <2>1. \A k \in 1..Len(S) : S[k] \in RowType
    BY <1>1, <1>4
  <2>2. S = [k \in 1..Len(S) |-> S[k]]
    <3>1. Survivors(i) = [k \in DOMAIN Survivors(i) |-> Survivors(i)[k]]
      <4>. DEFINE ids == Filter([k \in DOMAIN i.rows |-> k], LiveIds(i))
                  new == [k \in Range(ids) |-> Cardinality({j \in Range(ids) : j <= k})]
      <4>1. Survivors(i) = [k \in DOMAIN ids |-> [i.rows[ids[k]] EXCEPT !.parent = new[@]]]
        BY Zenon DEF Survivors, LiveIds
      <4>. HIDE DEF ids, new
      <4>. QED BY <4>1
    <3>. QED BY <3>1, <1>1 DEF S
  <2>3. S \in [1..Len(S) -> RowType]
    BY <2>1, <2>2
  <2>. QED BY <1>1, <2>3
<1>6. Rooted(S)
  <2>. SUFFICES ASSUME NEW k \in DOMAIN S
                PROVE  S[k].parent \in DOMAIN S /\ S[S[k].parent].live /\ S[S[k].parent].dir
    BY DEF Rooted
  <2>1. PICK p \in LiveIds(i) : k = Renumbered(i, p)
    BY <1>1
  <2>2. S[k].parent = Renumbered(i, i.rows[p].parent)
    BY <2>1, <1>4
  <2>. QED BY <2>2, <1>1, <1>3, <1>4
<1>. QED BY <1>5, <1>6 DEF S

----------------------------------------------------------------------------
(***************************************************************************)
(* The invariant.  Everything a query captured is stamped with the         *)
(* generations of its volume's index; what is known of it depends on how   *)
(* its stamps compare with the index now.  That is what makes it           *)
(* inductive: a batch or a replacement changes the index and no capture,   *)
(* and only ever makes the claims weaker.                                  *)
(***************************************************************************)
\* cmp_entries over given indexes.
EntryBeforeIn(ix, a, b, q) ==
  LET ra == ix[a.v].rows[a.id]
      rb == ix[b.v].rows[b.id]
  IN  IF q.desc THEN KeyBefore(q.sort, rb, ra) ELSE KeyBefore(q.sort, ra, rb)

\* A query with an order the engine knows.
OrderOf(q) == q.sort \in Keys /\ q.desc \in BOOLEAN

\* A derived cache holds permutations of this index or of an earlier state of it.
DerivedOK(i, c) ==
  /\ c = [gen |-> c.gen, cur |-> c.cur, prev |-> c.prev]
  /\ \A half \in {c.cur, c.prev} :
       /\ half = [size |-> half.size, mtime |-> half.mtime, topo |-> half.topo]
       /\ \A key \in {"size", "mtime"} : half[key] # <<>> => PermOK(i, key, half[key][1])

\* What a volume contributed to a query, judged by its stamps.
StampOK(i, g) ==
  /\ g.v \in Vols /\ OrderOf(g.q)
  /\ g.ids \in Seq(Nat) /\ DOMAIN g.uids = DOMAIN g.ids
  /\ g.content \in Nat /\ g.structural \in Nat /\ g.structural <= i.structural
  /\ g.structural = i.structural =>
       /\ g.content <= i.content
       /\ \A k \in DOMAIN g.ids : /\ g.ids[k] \in DOMAIN i.rows
                                  /\ i.rows[g.ids[k]].uid = g.uids[k]
       /\ g.content = i.content => OrderedIds(i, g.q, g.ids)

\* Captures of one query, of different volumes.
CapturedFor(ix, q, got) ==
  /\ OrderOf(q) /\ got \in Seq(Range(got))
  /\ \A a \in DOMAIN got : got[a].q = q /\ StampOK(ix[got[a].v], got[a])
  /\ \A a, b \in DOMAIN got : got[a].v = got[b].v => a = b

\* A call in progress: what it captured, and other volumes still to ask.
RunningOK(ix, k) ==
  \/ k = Idle
  \/ /\ k = [phase |-> "capture", q |-> k.q, groups |-> k.groups, todo |-> k.todo, got |-> k.got]
     /\ CapturedFor(ix, k.q, k.got)
     /\ k.todo \in Seq(Vols)
     /\ \A a, b \in DOMAIN k.todo : k.todo[a] = k.todo[b] => a = b
     /\ \A a \in DOMAIN k.todo, b \in DOMAIN k.got : k.todo[a] # k.got[b].v

\* No volume has changed since it was captured.
AllCurrent(ix, got) ==
  \A a \in DOMAIN got : /\ got[a].content = ix[got[a].v].content
                        /\ got[a].structural = ix[got[a].v].structural

\* A result against the indexes as they are: an interleaving of its captures, and in the
\* order of the query while none of them has changed.
ResultOK(ix, h) ==
  /\ CapturedFor(ix, h.q, h.got)
  /\ h.r.vols = [a \in DOMAIN h.got |-> h.got[a].v]
  /\ h.r.structural = [a \in DOMAIN h.got |-> h.got[a].structural]
  /\ h.r.rows \in Seq([v : Vols, id : Nat])
  /\ \A n \in DOMAIN h.r.rows : \E a \in DOMAIN h.got : \E k \in DOMAIN h.got[a].ids :
       h.r.rows[n] = EntryAt(h.got, a, k)
  /\ \A a \in DOMAIN h.got :
       Filter(h.r.rows, OfVolume(h.got[a].v)) = [k \in DOMAIN h.got[a].ids |-> EntryAt(h.got, a, k)]
  /\ AllCurrent(ix, h.got) =>
       \A m, n \in DOMAIN h.r.rows : m < n => ~EntryBeforeIn(ix, h.r.rows[n], h.r.rows[m], h.q)

\* The inductive invariant of the query engine, a part for each thing it keeps: indexes,
\* derived caches, refinement caches, calls in progress and results handed out.
IndexInv ==
  /\ idx = [v \in Vols |-> idx[v]]
  /\ \A v \in Vols : IndexOK(idx[v])
DerivedInv ==
  /\ derived = [v \in Vols |-> derived[v]]
  /\ \A v \in Vols : DerivedOK(idx[v], derived[v])
LastInv ==
  /\ last = [v \in Vols |-> last[v]]
  /\ \A v \in Vols : last[v] # <<>> =>
       last[v] = <<last[v][1]>> /\ last[v][1].v = v /\ StampOK(idx[v], last[v][1])
RunningInv ==
  /\ running = [c \in Clients |-> running[c]]
  /\ \A c \in Clients : RunningOK(idx, running[c])
ResultInv ==
  /\ result = [c \in Clients |-> result[c]]
  /\ \A c \in Clients : result[c] # <<>> =>
       result[c] = <<result[c][1]>> /\ ResultOK(idx, result[c][1])

QueryInv ==
  /\ setting \in Settings /\ batches \in Nat
  /\ IndexInv /\ DerivedInv /\ LastInv /\ RunningInv /\ ResultInv
\* How an index changes: not at all, by a batch, or by being replaced.
Evolves(i, j) == j = i \/ Batched(i, j) \/ (IndexOK(j) /\ j.structural > i.structural)

\* Generations tell: an index at the generations of a capture is the index captured.
LEMMA CurrentSame ==
  ASSUME NEW i \in IndexType, NEW g, StampOK(i, g), NEW j, Evolves(i, j),
         g.content = j.content, g.structural = j.structural
  PROVE  j = i
<1>1. /\ g.structural <= i.structural /\ i.structural \in Nat /\ i.content \in Nat
      /\ g.structural = i.structural => g.content <= i.content
      /\ g.content \in Nat /\ g.structural \in Nat
  BY DEF StampOK, IndexType
<1>2. CASE Batched(i, j)
  BY <1>1, <1>2 DEF Batched
<1>3. CASE IndexOK(j) /\ j.structural > i.structural
  BY <1>1, <1>3
<1>. QED BY <1>2, <1>3 DEF Evolves

\* What a capture says by its stamps survives every change of the index.
LEMMA StampStays ==
  ASSUME NEW i \in IndexType, NEW g, StampOK(i, g), NEW j, Evolves(i, j)
  PROVE  StampOK(j, g)
<1>1. /\ g.structural <= i.structural /\ i.structural \in Nat /\ i.content \in Nat
      /\ g.structural = i.structural => g.content <= i.content
      /\ g.content \in Nat /\ g.structural \in Nat
      /\ g.v \in Vols /\ OrderOf(g.q)
      /\ g.ids \in Seq(Nat) /\ DOMAIN g.uids = DOMAIN g.ids
  BY DEF StampOK, IndexType
<1>2. CASE j = i
  BY <1>2
<1>3. CASE Batched(i, j)
  <2>1. j.structural = i.structural /\ j.content = i.content + 1
    BY <1>3 DEF Batched
  <2>2. ASSUME g.structural = j.structural
        PROVE  /\ g.content <= j.content
               /\ \A k \in DOMAIN g.ids : /\ g.ids[k] \in DOMAIN j.rows
                                          /\ j.rows[g.ids[k]].uid = g.uids[k]
               /\ g.content # j.content
    <3>1. g.content <= i.content
      BY <1>1, <2>1, <2>2
    <3>2. \A k \in DOMAIN g.ids : /\ g.ids[k] \in DOMAIN i.rows
                                   /\ i.rows[g.ids[k]].uid = g.uids[k]
      BY <2>1, <2>2 DEF StampOK
    <3>3. \A id \in DOMAIN i.rows : id \in DOMAIN j.rows /\ j.rows[id].uid = i.rows[id].uid
      <4>1. i.rows \in Seq(RowType) /\ j.rows \in Seq(RowType) /\ Len(i.rows) <= Len(j.rows)
        BY <1>3 DEF Batched, IndexOK, IndexType
      <4>2. /\ Len(i.rows) \in Nat /\ Len(j.rows) \in Nat
            /\ DOMAIN i.rows = 1..Len(i.rows) /\ DOMAIN j.rows = 1..Len(j.rows)
        BY <4>1
      <4>3. \A id \in DOMAIN i.rows : id \in DOMAIN j.rows
        BY <4>1, <4>2
      <4>. QED BY <4>3, <1>3 DEF Batched
    <3>4. g.content <= j.content /\ g.content # j.content
      BY <3>1, <2>1, <1>1
    <3>. QED BY <3>2, <3>3, <3>4
  <2>3. g.structural <= j.structural
    BY <1>1, <2>1
  <2>. QED BY <1>1, <2>2, <2>3 DEF StampOK
<1>4. CASE IndexOK(j) /\ j.structural > i.structural
  <2>1. j.structural \in Nat
    BY <1>4 DEF IndexOK, IndexType
  <2>2. g.structural <= j.structural /\ g.structural # j.structural
    BY <2>1, <1>1, <1>4
  <2>. QED BY <1>1, <2>2 DEF StampOK
<1>. QED BY <1>2, <1>3, <1>4 DEF Evolves

\* Every index of one registry state against the next.
AllEvolve(ix, jx) == \A v \in Vols : IndexOK(ix[v]) /\ Evolves(ix[v], jx[v])

\* Likewise all captures of a query, a call in progress and a result.
LEMMA CapturedStays ==
  ASSUME NEW ix, NEW jx, AllEvolve(ix, jx), NEW q, NEW got, CapturedFor(ix, q, got)
  PROVE  CapturedFor(jx, q, got)
<1>1. ASSUME NEW a \in DOMAIN got PROVE StampOK(jx[got[a].v], got[a])
  <2>1. StampOK(ix[got[a].v], got[a]) /\ got[a].v \in Vols
    BY DEF CapturedFor, StampOK
  <2>2. ix[got[a].v] \in IndexType /\ Evolves(ix[got[a].v], jx[got[a].v])
    BY <2>1 DEF AllEvolve, IndexOK
  <2>. QED BY <2>1, <2>2, StampStays
<1>. QED BY <1>1 DEF CapturedFor

\* A call in progress stays well formed when indexes change.
LEMMA RunningStays ==
  ASSUME NEW ix, NEW jx, AllEvolve(ix, jx), NEW k, RunningOK(ix, k)
  PROVE  RunningOK(jx, k)
BY CapturedStays DEF RunningOK

\* So does a result: its order is claimed of unchanged volumes only.
LEMMA ResultStays ==
  ASSUME NEW ix, NEW jx, AllEvolve(ix, jx), NEW h, ResultOK(ix, h)
  PROVE  ResultOK(jx, h)
<1>1. CapturedFor(jx, h.q, h.got)
  BY CapturedStays DEF ResultOK
<1>2. ASSUME AllCurrent(jx, h.got)
      PROVE  \A m, n \in DOMAIN h.r.rows : m < n => ~EntryBeforeIn(jx, h.r.rows[n], h.r.rows[m], h.q)
  <2>1. \A a \in DOMAIN h.got : jx[h.got[a].v] = ix[h.got[a].v]
    <3>. SUFFICES ASSUME NEW a \in DOMAIN h.got PROVE jx[h.got[a].v] = ix[h.got[a].v]
      OBVIOUS
    <3>1. StampOK(ix[h.got[a].v], h.got[a]) /\ h.got[a].v \in Vols
      BY DEF ResultOK, CapturedFor, StampOK
    <3>2. ix[h.got[a].v] \in IndexType /\ Evolves(ix[h.got[a].v], jx[h.got[a].v])
      BY <3>1 DEF AllEvolve, IndexOK
    <3>3. h.got[a].content = jx[h.got[a].v].content /\ h.got[a].structural = jx[h.got[a].v].structural
      BY <1>2 DEF AllCurrent
    <3>. QED BY <3>1, <3>2, <3>3, CurrentSame
  <2>2. AllCurrent(ix, h.got)
    BY <2>1, <1>2 DEF AllCurrent
  <2>3. \A n \in DOMAIN h.r.rows : jx[h.r.rows[n].v] = ix[h.r.rows[n].v]
    <3>. SUFFICES ASSUME NEW n \in DOMAIN h.r.rows PROVE jx[h.r.rows[n].v] = ix[h.r.rows[n].v]
      OBVIOUS
    <3>1. \E a \in DOMAIN h.got : \E k \in DOMAIN h.got[a].ids : h.r.rows[n] = EntryAt(h.got, a, k)
      BY DEF ResultOK
    <3>2. PICK a \in DOMAIN h.got : h.r.rows[n].v = h.got[a].v
      BY <3>1 DEF EntryAt
    <3>. QED BY <3>2, <2>1
  <2>4. \A m, n \in DOMAIN h.r.rows : m < n => ~EntryBeforeIn(ix, h.r.rows[n], h.r.rows[m], h.q)
    BY <2>2 DEF ResultOK
  <2>5. \A m, n \in DOMAIN h.r.rows :
          EntryBeforeIn(jx, h.r.rows[n], h.r.rows[m], h.q)
            <=> EntryBeforeIn(ix, h.r.rows[n], h.r.rows[m], h.q)
    BY <2>3, Zenon DEF EntryBeforeIn
  <2>. QED BY <2>4, <2>5
<1>. QED BY <1>1, <1>2 DEF ResultOK

----------------------------------------------------------------------------
(***************************************************************************)
(* Every action keeps the invariant.                                       *)
(***************************************************************************)
\* The engine starts with well-formed indexes and empty caches.
LEMMA InitQuery == QueryInit => QueryInv
<1>. SUFFICES ASSUME QueryInit PROVE QueryInv
  OBVIOUS
<1>1. /\ setting \in Settings /\ batches = 0
      /\ idx = [v \in Vols |-> NewIndex(InitialRows[v], 0)]
      /\ derived = [v \in Vols |-> EmptyCache]
      /\ last = [v \in Vols |-> <<>>]
      /\ running = [c \in Clients |-> Idle]
      /\ result = [c \in Clients |-> <<>>]
  BY DEF QueryInit
<1>2. \A v \in Vols : idx[v] = NewIndex(InitialRows[v], 0)
  BY <1>1
<1>3. IndexInv
  <2>1. \A v \in Vols : InitialRows[v] \in Seq(RowType) /\ Rooted(InitialRows[v])
    BY QueryAssumption
  <2>2. 0 \in Nat
    OBVIOUS
  <2>3. \A v \in Vols : IndexOK(idx[v])
    BY <1>2, <2>1, <2>2, NewIndexOK
  <2>. QED BY <1>1, <2>3 DEF IndexInv
<1>4. DerivedInv
  <2>1. \A v \in Vols : derived[v] = EmptyCache
    BY <1>1
  <2>2. \A i : DerivedOK(i, EmptyCache)
    BY DEF DerivedOK, EmptyCache, NoDerived
  <2>. QED BY <1>1, <2>1, <2>2 DEF DerivedInv
<1>5. LastInv /\ ResultInv
  BY <1>1 DEF LastInv, ResultInv
<1>6. RunningInv
  <2>1. \A ix : RunningOK(ix, Idle)
    BY DEF RunningOK
  <2>. QED BY <1>1, <2>1 DEF RunningInv
<1>. QED BY <1>1, <1>3, <1>4, <1>5, <1>6 DEF QueryInv

\* When one index changes, what was captured of the registry stands.
LEMMA IndexChanges ==
  ASSUME QueryInv, NEW v \in Vols, NEW j, IndexOK(j), Evolves(idx[v], j),
         idx' = [idx EXCEPT ![v] = j]
  PROVE  /\ idx' = [w \in Vols |-> IF w = v THEN j ELSE idx[w]]
         /\ \A w \in Vols : IndexOK(idx[w]) /\ IndexOK(idx'[w])
         /\ AllEvolve(idx, idx')
<1>1. idx = [w \in Vols |-> idx[w]] /\ \A w \in Vols : IndexOK(idx[w])
  BY DEF QueryInv, IndexInv
<1>2. idx' = [w \in Vols |-> IF w = v THEN j ELSE idx[w]]
  BY <1>1
<1>3. \A w \in Vols : IndexOK(idx'[w]) /\ Evolves(idx[w], idx'[w])
  BY <1>1, <1>2 DEF Evolves
<1>. QED BY <1>1, <1>2, <1>3 DEF AllEvolve

\* A volume worker that changes one index keeps what was captured.
LEMMA IndexChangeKeeps ==
  ASSUME QueryInv, NEW v \in Vols, NEW j, IndexOK(j), Evolves(idx[v], j),
         idx' = [idx EXCEPT ![v] = j], UNCHANGED <<running, result>>
  PROVE  IndexInv' /\ RunningInv' /\ ResultInv'
<1>1. /\ idx' = [w \in Vols |-> IF w = v THEN j ELSE idx[w]]
      /\ \A w \in Vols : IndexOK(idx[w]) /\ IndexOK(idx'[w])
      /\ AllEvolve(idx, idx')
  BY IndexChanges
<1>2. IndexInv'
  BY <1>1 DEF IndexInv
<1>3. RunningInv'
  <2>1. \A c \in Clients : RunningOK(idx, running[c])
    BY DEF QueryInv, RunningInv
  <2>2. \A c \in Clients : RunningOK(idx', running[c])
    BY <1>1, <2>1, RunningStays
  <2>. QED BY <2>2 DEF QueryInv, RunningInv
<1>4. ResultInv'
  <2>1. \A c \in Clients : result[c] # <<>> => ResultOK(idx, result[c][1])
    BY DEF QueryInv, ResultInv
  <2>2. \A c \in Clients : result[c] # <<>> => ResultOK(idx', result[c][1])
    BY <1>1, <2>1, ResultStays
  <2>. QED BY <2>2 DEF QueryInv, ResultInv
<1>. QED BY <1>2, <1>3, <1>4

\* A batch keeps the invariant: caches stay, for what their stamps say.
LEMMA BatchKeeps ==
  ASSUME QueryInv, NEW v \in Vols, NEW i, Batch(v, i), Batched(idx[v], MergeTail(i))
  PROVE  QueryInv'
<1>. DEFINE j == MergeTail(i)
<1>1. /\ batches' = batches + 1 /\ idx' = [idx EXCEPT ![v] = j]
      /\ UNCHANGED <<setting, derived, last, running, result>>
  BY DEF Batch
<1>. HIDE DEF j
<1>2. Batched(idx[v], j) /\ IndexOK(j) /\ Evolves(idx[v], j)
  BY DEF Batched, Evolves, j
<1>3. /\ idx' = [w \in Vols |-> IF w = v THEN j ELSE idx[w]]
      /\ \A w \in Vols : IndexOK(idx[w]) /\ IndexOK(idx'[w])
      /\ AllEvolve(idx, idx')
  BY <1>1, <1>2, IndexChanges
<1>4. IndexInv' /\ RunningInv' /\ ResultInv'
  BY <1>1, <1>2, IndexChangeKeeps
<1>5. DerivedInv'
  <2>1. derived = [w \in Vols |-> derived[w]] /\ \A w \in Vols : DerivedOK(idx[w], derived[w])
    BY DEF QueryInv, DerivedInv
  <2>2. ASSUME NEW c, DerivedOK(idx[v], c) PROVE DerivedOK(j, c)
    <3>1. idx[v] \in IndexType
      BY <1>3 DEF IndexOK
    <3>. QED BY <1>2, <2>2, <3>1, PermStays DEF DerivedOK
  <2>3. \A w \in Vols : DerivedOK(idx'[w], derived[w])
    BY <1>3, <2>1, <2>2
  <2>. QED BY <1>1, <2>1, <2>3 DEF DerivedInv
<1>6. LastInv'
  <2>1. /\ last = [w \in Vols |-> last[w]]
        /\ \A w \in Vols : last[w] # <<>> =>
             last[w] = <<last[w][1]>> /\ last[w][1].v = w /\ StampOK(idx[w], last[w][1])
    BY DEF QueryInv, LastInv
  <2>2. \A w \in Vols : idx[w] \in IndexType /\ Evolves(idx[w], idx'[w])
    BY <1>3 DEF AllEvolve, IndexOK
  <2>3. \A w \in Vols : last[w] # <<>> => StampOK(idx'[w], last[w][1])
    BY <2>1, <2>2, StampStays
  <2>. QED BY <1>1, <2>1, <2>3 DEF LastInv
<1>7. setting' \in Settings /\ batches' \in Nat
  BY <1>1 DEF QueryInv
<1>. QED BY <1>4, <1>5, <1>6, <1>7 DEF QueryInv

\* Replacing an index keeps the invariant: its caches are dropped with it.
LEMMA InstallKeeps ==
  ASSUME QueryInv, NEW v \in Vols, InstallIndex(v)
  PROVE  QueryInv'
<1>. DEFINE rows == Survivors(idx[v])
            s == idx[v].structural + 1
            j == NewIndex(rows, s)
<1>1. /\ batches' = batches + 1
      /\ derived' = [derived EXCEPT ![v] = EmptyCache]
      /\ last' = [last EXCEPT ![v] = <<>>]
      /\ UNCHANGED <<setting, running, result>>
  BY DEF InstallIndex
<1>2. idx' = [idx EXCEPT ![v] = j]
  BY DEF InstallIndex
<1>3. IndexOK(idx[v]) /\ idx[v].structural \in Nat
  <2>1. IndexOK(idx[v])
    BY DEF QueryInv, IndexInv
  <2>. QED BY <2>1 DEF IndexOK, IndexType
<1>4. rows \in Seq(RowType) /\ Rooted(rows)
  BY <1>3, SurvivorsOK
<1>5. s \in Nat /\ s > idx[v].structural
  BY <1>3
<1>. HIDE DEF rows
<1>6. IndexOK(j) /\ j.structural = s
  <2>. HIDE DEF s
  <2>. QED BY <1>4, <1>5, NewIndexOK
<1>. HIDE DEF j
<1>7. Evolves(idx[v], j)
  BY <1>5, <1>6 DEF Evolves
<1>. HIDE DEF s
<1>8. /\ idx' = [w \in Vols |-> IF w = v THEN j ELSE idx[w]]
      /\ AllEvolve(idx, idx')
  BY <1>2, <1>6, <1>7, IndexChanges
<1>9. IndexInv' /\ RunningInv' /\ ResultInv'
  BY <1>1, <1>2, <1>6, <1>7, IndexChangeKeeps
<1>10. DerivedInv'
  <2>1. derived = [w \in Vols |-> derived[w]] /\ \A w \in Vols : DerivedOK(idx[w], derived[w])
    BY DEF QueryInv, DerivedInv
  <2>2. derived' = [w \in Vols |-> IF w = v THEN EmptyCache ELSE derived[w]]
    BY <1>1, <2>1
  <2>3. \A i : DerivedOK(i, EmptyCache)
    BY DEF DerivedOK, EmptyCache, NoDerived
  <2>. QED BY <1>8, <2>1, <2>2, <2>3 DEF DerivedInv
<1>11. LastInv'
  <2>1. /\ last = [w \in Vols |-> last[w]]
        /\ \A w \in Vols : last[w] # <<>> =>
             last[w] = <<last[w][1]>> /\ last[w][1].v = w /\ StampOK(idx[w], last[w][1])
    BY DEF QueryInv, LastInv
  <2>2. last' = [w \in Vols |-> IF w = v THEN <<>> ELSE last[w]]
    BY <1>1, <2>1
  <2>. QED BY <1>8, <2>1, <2>2 DEF LastInv
<1>12. setting' \in Settings /\ batches' \in Nat
  BY <1>1 DEF QueryInv
<1>. QED BY <1>9, <1>10, <1>11, <1>12 DEF QueryInv

\* The steps of a volume worker.
LEMMA AppendKeeps ==
  ASSUME QueryInv, NEW v \in Vols, NEW row \in NewRows, AppendRow(v, row)
  PROVE  QueryInv'
<1>. DEFINE new == [row EXCEPT !.uid = <<row.uid, batches>>]
            i == [idx[v] EXCEPT !.rows = Append(@, new)]
<1>1. /\ row.parent \in DOMAIN idx[v].rows
      /\ idx[v].rows[row.parent].dir /\ idx[v].rows[row.parent].live
      /\ Batch(v, i)
  BY DEF AppendRow
<1>2. IndexOK(idx[v]) /\ batches \in Nat
  BY DEF QueryInv, IndexInv
<1>3. row \in RowOf(STRING)
  BY QueryAssumption
<1>4. new \in RowType /\ new.parent = row.parent
  BY <1>2, <1>3 DEF RowType, RowOf
<1>. HIDE DEF new
<1>5. Batched(idx[v], MergeTail(i))
  BY <1>1, <1>2, <1>4, AppendBatches
<1>. HIDE DEF i
<1>. QED BY <1>1, <1>5, BatchKeeps

\* So do the batches that change a row.
LEMMA ChangeKeeps ==
  ASSUME QueryInv, NEW v \in Vols, NEW id \in DOMAIN idx[v].rows
  PROVE  /\ DeleteRow(v, id) => QueryInv'
         /\ \A size \in NewSizes : UpdateStat(v, id, size) => QueryInv'
         /\ \A name \in NewNames : RenameDir(v, id, name) => QueryInv'
<1>1. IndexOK(idx[v])
  BY DEF QueryInv, IndexInv
<1>2. ASSUME DeleteRow(v, id) PROVE QueryInv'
  <2>. DEFINE i == [idx[v] EXCEPT !.rows[id].live = FALSE]
  <2>1. Batch(v, i) /\ idx[v].rows[id].live /\ ~idx[v].rows[id].dir
    BY <1>2 DEF DeleteRow
  <2>2. Batched(idx[v], MergeTail(i))
    BY <1>1, <2>1, DeleteBatches
  <2>. HIDE DEF i
  <2>. QED BY <2>1, <2>2, BatchKeeps
<1>3. ASSUME NEW size \in NewSizes, UpdateStat(v, id, size) PROVE QueryInv'
  <2>. DEFINE i == [idx[v] EXCEPT !.rows[id].size = size, !.stat = @ + 1]
  <2>1. Batch(v, i) /\ idx[v].rows[id].live
    BY <1>3 DEF UpdateStat
  <2>2. size \in Int
    BY QueryAssumption
  <2>3. Batched(idx[v], MergeTail(i))
    BY <1>1, <2>1, <2>2, StatBatches
  <2>. HIDE DEF i
  <2>. QED BY <2>1, <2>3, BatchKeeps
<1>4. ASSUME NEW name \in NewNames, RenameDir(v, id, name) PROVE QueryInv'
  <2>. DEFINE i == [idx[v] EXCEPT !.rows[id].name = name, !.topo = @ + 1]
              rest == Filter(i.perm, DOMAIN i.rows \ {id})
              at == Cardinality({x \in Range(rest) : Less(i, "name", x, id)}) + 1
              u == [i EXCEPT !.perm = InsertAt(rest, at, id)]
  <2>1. Batch(v, u) /\ idx[v].rows[id].live
    BY <1>4 DEF RenameDir
  <2>2. name \in Texts
    BY QueryAssumption DEF Texts
  <2>3. Batched(idx[v], MergeTail(u))
    BY <1>1, <2>1, <2>2, RenameBatches
  <2>. HIDE DEF u
  <2>. QED BY <2>1, <2>3, BatchKeeps
<1>. QED BY <1>2, <1>3, <1>4

\* A volume leaving or entering Ready keeps it.
LEMMA PhaseKeeps ==
  ASSUME QueryInv, NEW v \in Vols, SetPhase(v)
  PROVE  QueryInv'
<1>1. batches' = batches + 1 /\ UNCHANGED <<setting, idx, derived, last, running, result>>
  BY DEF SetPhase
<1>2. batches' \in Nat
  BY <1>1 DEF QueryInv
<1>3. IndexInv' /\ DerivedInv' /\ LastInv' /\ RunningInv' /\ ResultInv'
  BY <1>1 DEF QueryInv, IndexInv, DerivedInv, LastInv, RunningInv, ResultInv
<1>. QED BY <1>1, <1>2, <1>3 DEF QueryInv

\* What filtering an ordered result leaves is ordered.
LEMMA FilterOrders ==
  ASSUME NEW i, NEW q, NEW X, NEW s \in Seq(X), NEW kept, OrderedIds(i, q, s)
  PROVE  Filter(s, kept) \in Seq(X) /\ OrderedIds(i, q, Filter(s, kept))
<1>. DEFINE f == Filter(s, kept)
<1>1. PICK p \in [DOMAIN f -> DOMAIN s] :
        /\ \A k \in DOMAIN f : f[k] = s[p[k]]
        /\ \A k, m \in DOMAIN f : k < m => p[k] < p[m]
  BY FilterKeeps
<1>2. f \in Seq(X)
  <2>1. f \in Seq(X \cap kept)
    BY FilterKeeps
  <2>. HIDE DEF f
  <2>2. X \cap kept \subseteq X
    OBVIOUS
  <2>. QED BY <2>1, <2>2
<1>. HIDE DEF f
<1>3. ASSUME NEW a \in DOMAIN f, NEW b \in DOMAIN f, a < b
      PROVE  IF q.desc THEN Less(i, q.sort, f[b], f[a]) ELSE Less(i, q.sort, f[a], f[b])
  <2>1. p[a] \in DOMAIN s /\ p[b] \in DOMAIN s /\ p[a] < p[b] /\ f[a] = s[p[a]] /\ f[b] = s[p[b]]
    BY <1>1, <1>3
  <2>. QED BY <2>1 DEF OrderedIds
<1>4. OrderedIds(i, q, f)
  BY <1>3 DEF OrderedIds
<1>. QED BY <1>2, <1>4 DEF f

\* The derived cache after a rotation, and after a value was brought up to date.
LEMMA RotateOK ==
  ASSUME NEW v \in Vols, DerivedOK(idx[v], derived[v])
  PROVE  DerivedOK(idx[v], Rotate(v))
<1>. DEFINE c == derived[v]
            new == [gen |-> idx[v].content, cur |-> NoDerived, prev |-> c.cur]
<1>1. CASE Rotate(v) = c
  BY <1>1
<1>2. CASE Rotate(v) = new
  <2>1. new = [gen |-> new.gen, cur |-> new.cur, prev |-> new.prev]
    OBVIOUS
  <2>2. new.cur = NoDerived /\ new.prev = c.cur
    OBVIOUS
  <2>3. /\ c.cur = [size |-> c.cur.size, mtime |-> c.cur.mtime, topo |-> c.cur.topo]
        /\ \A key \in {"size", "mtime"} : c.cur[key] # <<>> => PermOK(idx[v], key, c.cur[key][1])
    BY DEF DerivedOK
  <2>4. /\ NoDerived = [size |-> NoDerived.size, mtime |-> NoDerived.mtime, topo |-> NoDerived.topo]
        /\ \A key \in {"size", "mtime"} : NoDerived[key] = <<>>
    BY DEF NoDerived
  <2>. HIDE DEF new, c
  <2>5. \A half \in {new.cur, new.prev} :
          /\ half = [size |-> half.size, mtime |-> half.mtime, topo |-> half.topo]
          /\ \A key \in {"size", "mtime"} : half[key] # <<>> => PermOK(idx[v], key, half[key][1])
    BY <2>2, <2>3, <2>4
  <2>6. DerivedOK(idx[v], new)
    BY <2>1, <2>5 DEF DerivedOK
  <2>. QED BY <1>2, <2>6
<1>. QED BY <1>1, <1>2 DEF Rotate

\* A derived value is of the present generation, from whatever it was extended.
LEMMA DeriveNow ==
  ASSUME NEW v \in Vols, IndexOK(idx[v]), NEW key \in {"size", "mtime"}, NEW from,
         from # <<>> => PermOK(idx[v], key, from[1])
  PROVE  PermNow(idx[v], key, Derive(v, key, from))
<1>1. idx[v] \in IndexType /\ key \in Keys /\ key # "topo"
  BY DEF IndexOK, Keys
<1>2. CASE from = <<>>
  <2>1. Derive(v, key, from) = BuildPerm(idx[v], key)
    BY <1>1, <1>2 DEF Derive
  <2>. QED BY <2>1, <1>1, BuildPermNow
<1>3. CASE from # <<>>
  <2>1. Derive(v, key, from) = ExtendPerm(idx[v], key, from[1])
    BY <1>1, <1>3 DEF Derive
  <2>2. PermNow(idx[v], key, ExtendPerm(idx[v], key, from[1]))
    BY <1>1, <1>3, ExtendPermNow
  <2>. QED BY <2>1, <2>2
<1>. QED BY <1>2, <1>3

\* cached_derived_or_try_update returns a current value and caches only what is known.
LEMMA CachedOK ==
  ASSUME NEW v \in Vols, IndexOK(idx[v]), NEW c, DerivedOK(idx[v], c),
         NEW key \in {"size", "mtime", "topo"}
  PROVE  /\ DerivedOK(idx[v], CachedDerived(v, c, key))
         /\ key # "topo" => PermNow(idx[v], key, CachedDerived(v, c, key).cur[key][1])
<1>. DEFINE from == IF c.cur[key] # <<>> THEN c.cur[key] ELSE c.prev[key]
            d == Derive(v, key, from)
            new == [c EXCEPT !.cur[key] = <<d>>, !.prev[key] = <<>>]
            fresh == c.cur[key] # <<>> /\ IsCurrent(v, key, c.cur[key][1])
<1>1. CachedDerived(v, c, key) = IF fresh THEN c ELSE new
  BY DEF CachedDerived
<1>2. /\ c = [gen |-> c.gen, cur |-> c.cur, prev |-> c.prev]
      /\ \A half \in {c.cur, c.prev} :
           /\ half = [size |-> half.size, mtime |-> half.mtime, topo |-> half.topo]
           /\ \A k \in {"size", "mtime"} : half[k] # <<>> => PermOK(idx[v], k, half[k][1])
  BY DEF DerivedOK
<1>3. CASE fresh
  <2>1. key # "topo" => PermNow(idx[v], key, c.cur[key][1])
    <3>. SUFFICES ASSUME key # "topo" PROVE PermNow(idx[v], key, c.cur[key][1])
      OBVIOUS
    <3>1. PermIsCurrent(idx[v], c.cur[key][1])
      BY <1>3 DEF IsCurrent
    <3>2. PermOK(idx[v], key, c.cur[key][1])
      BY <1>2, <1>3
    <3>. QED BY <3>1, <3>2 DEF PermNow
  <2>. QED BY <2>1, <1>1, <1>3
<1>4. CASE ~fresh
  <2>1. key # "topo" => PermNow(idx[v], key, d)
    <3>. SUFFICES ASSUME key # "topo" PROVE PermNow(idx[v], key, d)
      OBVIOUS
    <3>1. from # <<>> => PermOK(idx[v], key, from[1])
      BY <1>2
    <3>. HIDE DEF from
    <3>. QED BY <3>1, DeriveNow
  <2>2. /\ new.gen = c.gen /\ new.cur = [c.cur EXCEPT ![key] = <<d>>]
        /\ new.prev = [c.prev EXCEPT ![key] = <<>>]
        /\ new = [gen |-> new.gen, cur |-> new.cur, prev |-> new.prev]
    <3>. DEFINE cur == [c.cur EXCEPT ![key] = <<d>>]  prev == [c.prev EXCEPT ![key] = <<>>]
    <3>1. new = [c EXCEPT !.cur = cur, !.prev = prev]
      OBVIOUS
    <3>. HIDE DEF cur, prev, new
    <3>2. new = [gen |-> c.gen, cur |-> cur, prev |-> prev]
      BY <3>1, <1>2
    <3>3. new.gen = c.gen /\ new.cur = cur /\ new.prev = prev
      BY <3>2
    <3>. QED BY <3>2, <3>3 DEF cur, prev
  <2>. HIDE DEF new, d, fresh
  <2>3. /\ new.cur = [size |-> new.cur.size, mtime |-> new.cur.mtime, topo |-> new.cur.topo]
        /\ new.prev = [size |-> new.prev.size, mtime |-> new.prev.mtime, topo |-> new.prev.topo]
        /\ new.cur[key] = <<d>> /\ new.prev[key] = <<>>
        /\ \A k \in {"size", "mtime"} : k # key => new.cur[k] = c.cur[k] /\ new.prev[k] = c.prev[k]
    <3>1. /\ c.cur = [size |-> c.cur.size, mtime |-> c.cur.mtime, topo |-> c.cur.topo]
          /\ c.prev = [size |-> c.prev.size, mtime |-> c.prev.mtime, topo |-> c.prev.topo]
      BY <1>2
    <3>2. CASE key = "size"
      BY <2>2, <3>1, <3>2
    <3>3. CASE key = "mtime"
      BY <2>2, <3>1, <3>3
    <3>4. CASE key = "topo"
      BY <2>2, <3>1, <3>4
    <3>. QED BY <3>2, <3>3, <3>4
  <2>4. \A k \in {"size", "mtime"} :
          /\ new.cur[k] # <<>> => PermOK(idx[v], k, new.cur[k][1])
          /\ new.prev[k] # <<>> => PermOK(idx[v], k, new.prev[k][1])
    <3>. SUFFICES ASSUME NEW k \in {"size", "mtime"}
                  PROVE  /\ new.cur[k] # <<>> => PermOK(idx[v], k, new.cur[k][1])
                         /\ new.prev[k] # <<>> => PermOK(idx[v], k, new.prev[k][1])
      OBVIOUS
    <3>1. CASE k = key
      <4>1. new.cur[k] = <<d>> /\ new.cur[k][1] = d /\ new.prev[k] = <<>>
        BY <3>1, <2>3
      <4>2. PermOK(idx[v], k, d)
        BY <3>1, <2>1 DEF PermNow
      <4>. QED BY <4>1, <4>2
    <3>2. CASE k # key
      BY <3>2, <2>3, <1>2
    <3>. QED BY <3>1, <3>2
  <2>5. DerivedOK(idx[v], new)
    BY <2>2, <2>3, <2>4 DEF DerivedOK
  <2>6. key # "topo" => PermNow(idx[v], key, new.cur[key][1])
    BY <2>1, <2>3
  <2>. QED BY <1>1, <1>4, <2>5, <2>6
<1>. QED BY <1>3, <1>4

\* The next capture joins the others.
LEMMA Joins ==
  ASSUME NEW got, got \in Seq(Range(got)), NEW x
  PROVE  /\ Append(got, x) \in Seq(Range(Append(got, x)))
         /\ Len(got) \in Nat /\ DOMAIN got = 1..Len(got)
         /\ DOMAIN Append(got, x) = 1..(Len(got) + 1)
         /\ \A a \in DOMAIN got : a \in DOMAIN Append(got, x) /\ Append(got, x)[a] = got[a]
         /\ Append(got, x)[Len(got) + 1] = x
         /\ \A a \in DOMAIN Append(got, x) : a \in DOMAIN got \/ a = Len(got) + 1
<1>. DEFINE R == Range(got)  X == R \cup {x}  t == Append(got, x)
<1>1. got \in Seq(R)
  OBVIOUS
<1>. HIDE DEF R
<1>2. got \in Seq(X) /\ x \in X
  BY <1>1
<1>. HIDE DEF X
<1>3. /\ t \in Seq(X) /\ Len(t) = Len(got) + 1 /\ Len(got) \in Nat
      /\ DOMAIN got = 1..Len(got) /\ DOMAIN t = 1..(Len(got) + 1)
      /\ \A a \in 1..Len(got) : t[a] = got[a]
      /\ t[Len(got) + 1] = x
  BY <1>2
<1>. HIDE DEF t
<1>4. t \in Seq(Range(t))
  <2>1. t \in [1..Len(t) -> X]
    BY <1>3
  <2>2. t = [a \in 1..Len(t) |-> t[a]]
    BY <2>1
  <2>3. \A a \in 1..Len(t) : t[a] \in Range(t)
    BY <1>3 DEF Range
  <2>4. t \in [1..Len(t) -> Range(t)]
    BY <2>2, <2>3
  <2>. QED BY <2>4, <1>3
<1>5. \A a \in 1..Len(got) : a \in 1..(Len(got) + 1)
  BY <1>3
<1>6. \A a \in 1..(Len(got) + 1) : a \in 1..Len(got) \/ a = Len(got) + 1
  BY <1>3
<1>. QED BY <1>3, <1>4, <1>5, <1>6 DEF t

\* A capture of another volume joins those of the query.
LEMMA CapturedJoins ==
  ASSUME NEW ix, NEW q, NEW got, CapturedFor(ix, q, got), NEW x, x.q = q, StampOK(ix[x.v], x),
         \A a \in DOMAIN got : got[a].v # x.v
  PROVE  CapturedFor(ix, q, Append(got, x))
<1>. DEFINE t == Append(got, x)
<1>1. /\ t \in Seq(Range(t))
      /\ \A a \in DOMAIN got : a \in DOMAIN t /\ t[a] = got[a]
      /\ t[Len(got) + 1] = x
      /\ \A a \in DOMAIN t : a \in DOMAIN got \/ a = Len(got) + 1
  BY Joins DEF CapturedFor
<1>. HIDE DEF t
<1>2. \A a \in DOMAIN t : t[a].q = q /\ StampOK(ix[t[a].v], t[a])
  BY <1>1 DEF CapturedFor
<1>3. \A a, b \in DOMAIN t : t[a].v = t[b].v => a = b
  BY <1>1 DEF CapturedFor
<1>4. OrderOf(q)
  BY DEF CapturedFor
<1>. QED BY <1>1, <1>2, <1>3, <1>4 DEF CapturedFor, t

\* A query starts with nothing captured.
LEMMA NothingCaptured ==
  ASSUME NEW ix, NEW q, OrderOf(q)
  PROVE  CapturedFor(ix, q, <<>>)
<1>1. <<>> \in Seq(Range(<<>>)) /\ DOMAIN <<>> = {}
  OBVIOUS
<1>. QED BY <1>1 DEF CapturedFor

\* The volumes a query asks, each once.
LEMMA AskedOnce ==
  ASSUME NEW kept
  PROVE  /\ Filter(Volumes, kept) \in Seq(Vols)
         /\ \A a, b \in DOMAIN Filter(Volumes, kept) :
              Filter(Volumes, kept)[a] = Filter(Volumes, kept)[b] => a = b
<1>. DEFINE f == Filter(Volumes, kept)
<1>1. Volumes \in Seq(Vols) /\ \A i, j \in DOMAIN Volumes : Volumes[i] = Volumes[j] => i = j
  BY QueryAssumption
<1>2. f \in Seq(Vols)
  <2>1. f \in Seq(Vols \cap kept)
    <3>. DEFINE X == Vols
    <3>1. Volumes \in Seq(X)
      BY <1>1
    <3>. HIDE DEF X
    <3>2. Filter(Volumes, kept) \in Seq(X \cap kept)
      BY <3>1, FilterKeeps
    <3>. QED BY <3>2 DEF X
  <2>2. Vols \cap kept \subseteq Vols
    OBVIOUS
  <2>. HIDE DEF f
  <2>. QED BY <2>1, <2>2
<1>3. PICK p \in [DOMAIN f -> DOMAIN Volumes] :
        /\ \A k \in DOMAIN f : f[k] = Volumes[p[k]]
        /\ \A k, m \in DOMAIN f : k < m => p[k] < p[m]
  BY <1>1, FilterKeeps
<1>4. DOMAIN f \subseteq Nat /\ DOMAIN Volumes \subseteq Nat
  <2>. HIDE DEF f
  <2>. QED BY <1>1, <1>2
<1>. HIDE DEF f
<1>5. ASSUME NEW a \in DOMAIN f, NEW b \in DOMAIN f, f[a] = f[b] PROVE a = b
  <2>1. p[a] = p[b] /\ p[a] \in Nat
    BY <1>1, <1>3, <1>4, <1>5
  <2>2. ~(a < b) /\ ~(b < a)
    BY <2>1, <1>3
  <2>. QED BY <2>2, <1>4
<1>. QED BY <1>2, <1>5 DEF f

\* A query that starts asks each ready volume once.
LEMMA StartKeeps ==
  ASSUME QueryInv, NEW c \in Clients, NEW q \in setting.queries, Start(c, q)
  PROVE  QueryInv'
<1>. DEFINE plan == CompileCached(q)
            todo == Filter(Volumes, {v \in Vols : ready[v]})
            new == [phase |-> "capture", q |-> q, groups |-> plan.groups, got |-> <<>>, todo |-> todo]
<1>1. /\ running' = IF plan.ok THEN [running EXCEPT ![c] = new] ELSE running
      /\ UNCHANGED <<setting, idx, derived, last, result, batches>>
  BY Zenon DEF Start, StartCompiled
<1>2. OrderOf(q)
  <2>1. setting \in Settings
    BY DEF QueryInv
  <2>. QED BY <2>1, QueryAssumption DEF OrderOf, Keys
<1>3. todo \in Seq(Vols) /\ \A a, b \in DOMAIN todo : todo[a] = todo[b] => a = b
  <2>. DEFINE kept == {v \in Vols : ready[v]}
  <2>. HIDE DEF kept
  <2>1. /\ Filter(Volumes, kept) \in Seq(Vols)
        /\ \A a, b \in DOMAIN Filter(Volumes, kept) :
             Filter(Volumes, kept)[a] = Filter(Volumes, kept)[b] => a = b
    BY AskedOnce
  <2>. QED BY <2>1 DEF kept
<1>. HIDE DEF plan, todo
<1>4. RunningOK(idx, new)
  <2>1. /\ new = [phase |-> "capture", q |-> new.q, groups |-> new.groups, todo |-> new.todo,
                  got |-> new.got]
        /\ new.q = q /\ new.todo = todo /\ new.got = <<>> /\ DOMAIN new.got = {}
    OBVIOUS
  <2>. HIDE DEF new
  <2>2. CapturedFor(idx, new.q, new.got)
    BY <1>2, <2>1, NothingCaptured
  <2>. QED BY <1>3, <2>1, <2>2 DEF RunningOK
<1>. HIDE DEF new
<1>5. RunningInv'
  <2>1. running = [d \in Clients |-> running[d]] /\ \A d \in Clients : RunningOK(idx, running[d])
    BY DEF QueryInv, RunningInv
  <2>2. running' = [d \in Clients |-> running'[d]]
    BY <1>1, <2>1
  <2>3. \A d \in Clients : running'[d] = running[d] \/ running'[d] = new
    BY <1>1, <2>1
  <2>. QED BY <1>1, <1>4, <2>1, <2>2, <2>3 DEF RunningInv
<1>6. IndexInv' /\ DerivedInv' /\ LastInv' /\ ResultInv' /\ setting' \in Settings /\ batches' \in Nat
  BY <1>1 DEF QueryInv, IndexInv, DerivedInv, LastInv, ResultInv
<1>. QED BY <1>5, <1>6 DEF QueryInv

\* A call that ends leaves the client idle.
LEMMA FailKeeps ==
  ASSUME RunningInv, NEW c \in Clients, Fail(c), idx' = idx
  PROVE  RunningInv'
<1>1. running = [d \in Clients |-> running[d]] /\ \A d \in Clients : RunningOK(idx, running[d])
  BY DEF RunningInv
<1>2. running' = [running EXCEPT ![c] = Idle]
  BY DEF Fail
<1>3. running' = [d \in Clients |-> running'[d]]
      /\ \A d \in Clients : running'[d] = running[d] \/ running'[d] = Idle
  BY <1>1, <1>2
<1>4. RunningOK(idx, Idle)
  BY DEF RunningOK
<1>. QED BY <1>1, <1>3, <1>4 DEF RunningInv

\* A query that is cancelled or finds its merge stale publishes nothing.
LEMMA EndKeeps ==
  ASSUME QueryInv, NEW c \in Clients, FinishStale(c) \/ Cancel(c)
  PROVE  QueryInv'
<1>1. Fail(c) /\ UNCHANGED <<setting, idx, derived, last, result, batches>>
  BY DEF FinishStale, Cancel
<1>2. RunningInv'
  BY <1>1, FailKeeps DEF QueryInv
<1>3. IndexInv' /\ DerivedInv' /\ LastInv' /\ ResultInv' /\ setting' \in Settings /\ batches' \in Nat
  BY <1>1 DEF QueryInv, IndexInv, DerivedInv, LastInv, ResultInv
<1>. QED BY <1>2, <1>3 DEF QueryInv

\* Freeing a result keeps the invariant.
LEMMA FreeKeeps ==
  ASSUME QueryInv, NEW c \in Clients, Free(c)
  PROVE  QueryInv'
<1>1. /\ result' = [result EXCEPT ![c] = <<>>]
      /\ UNCHANGED <<setting, idx, derived, last, running, batches>>
  BY DEF Free
<1>2. ResultInv'
  <2>1. /\ result = [d \in Clients |-> result[d]]
        /\ \A d \in Clients : result[d] # <<>> =>
             result[d] = <<result[d][1]>> /\ ResultOK(idx, result[d][1])
    BY DEF QueryInv, ResultInv
  <2>2. /\ result' = [d \in Clients |-> result'[d]]
        /\ \A d \in Clients : result'[d] = result[d] \/ result'[d] = <<>>
    BY <1>1, <2>1
  <2>. QED BY <1>1, <2>1, <2>2 DEF ResultInv
<1>3. IndexInv' /\ DerivedInv' /\ LastInv' /\ RunningInv' /\ setting' \in Settings /\ batches' \in Nat
  BY <1>1 DEF QueryInv, IndexInv, DerivedInv, LastInv, RunningInv
<1>. QED BY <1>2, <1>3 DEF QueryInv

\* A list of elements of a smaller set.
LEMMA ListOf ==
  ASSUME NEW X, NEW Y, X \subseteq Y, NEW s \in Seq(X)
  PROVE  s \in Seq(Y)
<1>1. Len(s) \in Nat /\ s \in [1..Len(s) -> X]
  OBVIOUS
<1>2. s \in [1..Len(s) -> Y]
  BY <1>1
<1>. QED BY <1>1, <1>2

\* A reused result is in the order of the new query, on this very index.
LEMMA ReusableOrdered ==
  ASSUME QueryInv, NEW v \in Vols, NEW q, NEW groups, Reusable(v, q, groups)
  PROVE  /\ last[v][1].ids \in Seq(DOMAIN idx[v].rows)
         /\ OrderedIds(idx[v], q, last[v][1].ids)
<1>. DEFINE g == last[v][1]
<1>1. StampOK(idx[v], g)
  BY DEF Reusable, QueryInv, LastInv
<1>2. g.content = idx[v].content /\ g.structural = idx[v].structural /\ Subsumes(g.groups, g.q, groups, q)
  BY DEF Reusable
<1>. HIDE DEF g
<1>3. /\ g.ids \in Seq(Nat)
      /\ \A k \in DOMAIN g.ids : g.ids[k] \in DOMAIN idx[v].rows
      /\ OrderedIds(idx[v], g.q, g.ids)
  BY <1>1, <1>2 DEF StampOK
<1>4. g.q.sort = q.sort /\ g.q.desc = q.desc
  BY <1>2 DEF Subsumes
<1>5. OrderedIds(idx[v], q, g.ids)
  BY <1>3, <1>4 DEF OrderedIds
<1>6. g.ids \in Seq(DOMAIN idx[v].rows)
  <2>. DEFINE X == DOMAIN idx[v].rows  s == g.ids
  <2>1. s \in Seq(Nat) /\ \A k \in DOMAIN s : s[k] \in X
    BY <1>3
  <2>. HIDE DEF X, s
  <2>2. s \in Seq(X)
    BY <2>1
  <2>. QED BY <2>2 DEF X, s
<1>. QED BY <1>5, <1>6 DEF g

\* The tail of a list.
LEMMA Tails ==
  ASSUME NEW X, NEW s \in Seq(X), s # <<>>
  PROVE  /\ Head(s) \in X /\ Head(s) = s[1] /\ 1 \in DOMAIN s
         /\ Tail(s) \in Seq(X)
         /\ \A a \in DOMAIN Tail(s) : a + 1 \in DOMAIN s /\ Tail(s)[a] = s[a + 1]
         /\ DOMAIN Tail(s) \subseteq Nat \ {0}
OBVIOUS

\* The derived cache a capture leaves, and the permutation it searches.
LEMMA CaptureDerives ==
  ASSUME QueryInv, NEW v \in Vols, NEW q, OrderOf(q), NEW paths \in BOOLEAN, NEW reuse \in BOOLEAN,
         NEW sorted \in BOOLEAN, sorted <=> (~reuse /\ q.sort # "name"),
         NEW d0, d0 = IF paths \/ sorted THEN Rotate(v) ELSE derived[v],
         NEW d1, d1 = IF paths THEN CachedDerived(v, d0, "topo") ELSE d0,
         NEW d2, d2 = IF sorted THEN CachedDerived(v, d1, q.sort) ELSE d1,
         NEW perm, perm = IF sorted THEN d2.cur[q.sort][1].ids ELSE idx[v].perm
  PROVE  /\ DerivedOK(idx[v], d2)
         /\ ~reuse => perm \in Seq(DOMAIN idx[v].rows) /\ SortedIds(idx[v], q.sort, perm)
<1>1. IndexOK(idx[v]) /\ DerivedOK(idx[v], derived[v])
  BY DEF QueryInv, IndexInv, DerivedInv
<1>2. DerivedOK(idx[v], d0)
  BY <1>1, RotateOK
<1>3. DerivedOK(idx[v], d1)
  <2>1. DerivedOK(idx[v], CachedDerived(v, d0, "topo"))
    BY <1>1, <1>2, CachedOK
  <2>. QED BY <1>2, <2>1
<1>4. DerivedOK(idx[v], d2)
  <2>1. sorted => q.sort \in {"size", "mtime", "topo"}
    BY DEF OrderOf, Keys
  <2>2. sorted => DerivedOK(idx[v], CachedDerived(v, d1, q.sort))
    BY <1>1, <1>3, <2>1, CachedOK
  <2>. QED BY <1>3, <2>2
<1>5. ASSUME ~reuse PROVE perm \in Seq(DOMAIN idx[v].rows) /\ SortedIds(idx[v], q.sort, perm)
  <2>1. CASE sorted
    <3>. DEFINE p == CachedDerived(v, d1, q.sort).cur[q.sort][1]
    <3>1. q.sort \in {"size", "mtime", "topo"} /\ q.sort # "topo"
      BY <2>1 DEF OrderOf, Keys
    <3>2. PermNow(idx[v], q.sort, p)
      BY <1>1, <1>3, <3>1, CachedOK
    <3>3. perm = p.ids
      BY <2>1
    <3>. HIDE DEF p
    <3>4. p.stat = idx[v].stat /\ p.covers = Len(idx[v].rows) /\ PermOK(idx[v], q.sort, p)
      BY <3>2 DEF PermNow, PermIsCurrent
    <3>5. SortedIds(idx[v], q.sort, p.ids) /\ p.ids \in Seq(1..Len(idx[v].rows))
      BY <3>4 DEF PermOK
    <3>6. DOMAIN idx[v].rows = 1..Len(idx[v].rows)
      BY <1>1, PermIsPrefix
    <3>. QED BY <3>3, <3>5, <3>6
  <2>2. CASE ~sorted
    <3>1. perm = idx[v].perm /\ q.sort = "name"
      BY <1>5, <2>2
    <3>. QED BY <3>1, <1>1 DEF IndexOK, PermSorted
  <2>. QED BY <2>1, <2>2
<1>. QED BY <1>4, <1>5

\* What a capture contributes bears the stamps of the index it was taken from.
LEMMA FreshStamp ==
  ASSUME QueryInv, NEW v \in Vols, NEW q, OrderOf(q), NEW groups, NEW ids,
         ids \in Seq(DOMAIN idx[v].rows), OrderedIds(idx[v], q, ids)
  PROVE  LET g == [v |-> v, q |-> q, groups |-> groups, ids |-> ids,
                   uids |-> [i \in DOMAIN ids |-> idx[v].rows[ids[i]].uid],
                   content |-> idx[v].content, structural |-> idx[v].structural]
         IN  StampOK(idx[g.v], g) /\ g.v = v /\ g.q = q
<1>. DEFINE uids == [i \in DOMAIN ids |-> idx[v].rows[ids[i]].uid]
            g == [v |-> v, q |-> q, groups |-> groups, ids |-> ids, uids |-> uids,
                  content |-> idx[v].content, structural |-> idx[v].structural]
<1>1. /\ idx[v].content \in Nat /\ idx[v].structural \in Nat /\ idx[v].rows \in Seq(RowType)
  BY DEF QueryInv, IndexInv, IndexOK, IndexType
<1>2. ids \in Seq(Nat) /\ \A k \in DOMAIN ids : ids[k] \in DOMAIN idx[v].rows
  <2>. DEFINE X == DOMAIN idx[v].rows
  <2>1. X \subseteq Nat /\ ids \in Seq(X)
    BY <1>1
  <2>. HIDE DEF X
  <2>2. ids \in Seq(Nat)
    BY <2>1, ListOf
  <2>3. \A k \in DOMAIN ids : ids[k] \in X
    BY <2>1, ElementsAre
  <2>. QED BY <2>2, <2>3 DEF X
<1>3. DOMAIN uids = DOMAIN ids /\ \A k \in DOMAIN ids : uids[k] = idx[v].rows[ids[k]].uid
  OBVIOUS
<1>. HIDE DEF uids
<1>4. /\ g.v = v /\ g.q = q /\ g.ids = ids /\ g.uids = uids /\ g.content = idx[v].content
      /\ g.structural = idx[v].structural
  OBVIOUS
<1>. HIDE DEF g
<1>5. StampOK(idx[v], g)
  BY <1>1, <1>2, <1>3, <1>4 DEF StampOK
<1>. QED BY <1>4, <1>5 DEF g, uids

\* What an updated call is.
LEMMA CallMovesOn ==
  ASSUME NEW p, NEW q, NEW r, NEW a, NEW b, NEW t, NEW g, NEW k, NEW n,
         k = [phase |-> p, q |-> q, groups |-> r, todo |-> a, got |-> b],
         n = [k EXCEPT !.todo = t, !.got = g]
  PROVE  n = [phase |-> p, q |-> q, groups |-> r, todo |-> t, got |-> g]
OBVIOUS

\* Capturing a volume keeps the invariant, whether it refines the last result or searches.
LEMMA CaptureKeeps ==
  ASSUME QueryInv, NEW c \in Clients, Capture(c)
  PROVE  QueryInv'
<1>. DEFINE k      == running[c]
            v      == Head(k.todo)
            reuse  == Reusable(v, k.q, k.groups)
            paths  == NeedsPaths(k.groups)
            sorted == ~reuse /\ k.q.sort # "name"
            d0     == IF paths \/ sorted THEN Rotate(v) ELSE derived[v]
            d1     == IF paths THEN CachedDerived(v, d0, "topo") ELSE d0
            d2     == IF sorted THEN CachedDerived(v, d1, k.q.sort) ELSE d1
            topo   == IF paths THEN d2.cur.topo[1].parents ELSE <<>>
            perm   == IF sorted THEN d2.cur[k.q.sort][1].ids ELSE idx[v].perm
            ids    == IF reuse THEN Refine(idx[v], topo, k.groups, k.q, last[v][1].ids)
                      ELSE Search(idx[v], perm, topo, k.groups, k.q)
            x      == [v |-> v, q |-> k.q, groups |-> k.groups, ids |-> ids,
                       uids |-> [i \in DOMAIN ids |-> idx[v].rows[ids[i]].uid],
                       content |-> idx[v].content, structural |-> idx[v].structural]
<1>1. /\ k.phase = "capture" /\ k.todo # <<>>
      /\ derived' = [derived EXCEPT ![v] = d2]
      /\ running' = [running EXCEPT ![c].todo = Tail(@), ![c].got = Append(@, x)]
      /\ UNCHANGED <<setting, idx, last, result, batches>>
  BY Zenon DEF Capture
<1>a. k.phase = "capture" /\ k.todo # <<>>
  BY Zenon DEF Capture
<1>2. running = [d \in Clients |-> running[d]] /\ \A d \in Clients : RunningOK(idx, running[d])
  BY DEF QueryInv, RunningInv
<1>3. /\ k = [phase |-> "capture", q |-> k.q, groups |-> k.groups, todo |-> k.todo, got |-> k.got]
      /\ CapturedFor(idx, k.q, k.got) /\ OrderOf(k.q)
      /\ k.todo \in Seq(Vols)
      /\ \A a, b \in DOMAIN k.todo : k.todo[a] = k.todo[b] => a = b
      /\ \A a \in DOMAIN k.todo, b \in DOMAIN k.got : k.todo[a] # k.got[b].v
  <2>1. k # Idle
    BY <1>a DEF Idle
  <2>. QED BY <1>2, <2>1 DEF RunningOK, CapturedFor
<1>. HIDE DEF k
<1>4. /\ v \in Vols /\ v = k.todo[1] /\ 1 \in DOMAIN k.todo
      /\ Tail(k.todo) \in Seq(Vols)
      /\ \A a \in DOMAIN Tail(k.todo) : a + 1 \in DOMAIN k.todo /\ Tail(k.todo)[a] = k.todo[a + 1]
      /\ DOMAIN Tail(k.todo) \subseteq Nat \ {0}
  BY <1>a, <1>3, Tails
<1>. HIDE DEF v
<1>5. reuse \in BOOLEAN /\ paths \in BOOLEAN
  BY DEF Reusable, NeedsPaths
<1>6. reuse => /\ last[v][1].ids \in Seq(DOMAIN idx[v].rows)
               /\ OrderedIds(idx[v], k.q, last[v][1].ids)
  BY <1>4, ReusableOrdered
<1>. HIDE DEF reuse, paths
<1>b. sorted \in BOOLEAN /\ (sorted <=> (~reuse /\ k.q.sort # "name"))
  OBVIOUS
<1>. HIDE DEF sorted
<1>c. d0 = IF paths \/ sorted THEN Rotate(v) ELSE derived[v]
  OBVIOUS
<1>. HIDE DEF d0
<1>d. d1 = IF paths THEN CachedDerived(v, d0, "topo") ELSE d0
  OBVIOUS
<1>. HIDE DEF d1
<1>e. d2 = IF sorted THEN CachedDerived(v, d1, k.q.sort) ELSE d1
  OBVIOUS
<1>. HIDE DEF d2
<1>f. perm = IF sorted THEN d2.cur[k.q.sort][1].ids ELSE idx[v].perm
  OBVIOUS
<1>. HIDE DEF topo, perm
<1>7. /\ DerivedOK(idx[v], d2)
      /\ ~reuse => perm \in Seq(DOMAIN idx[v].rows) /\ SortedIds(idx[v], k.q.sort, perm)
  <2>. DEFINE q == k.q
  <2>1. OrderOf(q)
    BY <1>3
  <2>2. /\ sorted <=> (~reuse /\ q.sort # "name")
        /\ d2 = IF sorted THEN CachedDerived(v, d1, q.sort) ELSE d1
        /\ perm = IF sorted THEN d2.cur[q.sort][1].ids ELSE idx[v].perm
    BY <1>b, <1>e, <1>f
  <2>. HIDE DEF q
  <2>3. /\ DerivedOK(idx[v], d2)
        /\ ~reuse => perm \in Seq(DOMAIN idx[v].rows) /\ SortedIds(idx[v], q.sort, perm)
    BY <1>4, <1>5, <1>b, <1>c, <1>d, <2>1, <2>2, CaptureDerives, SMTT(30)
  <2>. QED BY <2>3 DEF q
<1>8. ids \in Seq(DOMAIN idx[v].rows) /\ OrderedIds(idx[v], k.q, ids)
  <2>1. CASE reuse
    <3>. DEFINE kept == {id \in Range(last[v][1].ids) :
                           /\ Shown(idx[v], k.q.hidden, id)
                           /\ \E i \in DOMAIN k.groups : TermsMatch(idx[v], topo, AllTerms(k.groups[i]), id)}
    <3>1. ids = Filter(last[v][1].ids, kept)
      BY <2>1 DEF Refine
    <3>. HIDE DEF kept, ids
    <3>2. /\ Filter(last[v][1].ids, kept) \in Seq(DOMAIN idx[v].rows)
          /\ OrderedIds(idx[v], k.q, Filter(last[v][1].ids, kept))
      BY <1>6, <2>1, FilterOrders
    <3>. QED BY <3>1, <3>2
  <2>2. CASE ~reuse
    <3>. DEFINE kept == {id \in Range(perm) :
                           /\ Shown(idx[v], k.q.hidden, id)
                           /\ \E i \in DOMAIN k.groups : GroupMatches(idx[v], topo, k.groups[i], id)}
    <3>1. ids = Materialize(perm, k.q.desc, kept)
      BY <2>2 DEF Search
    <3>. HIDE DEF kept, ids
    <3>3. /\ Materialize(perm, k.q.desc, kept) \in Seq(DOMAIN idx[v].rows)
          /\ OrderedIds(idx[v], k.q, Materialize(perm, k.q.desc, kept))
      <4>. DEFINE X == DOMAIN idx[v].rows  i == idx[v]  q == k.q
      <4>1. perm \in Seq(X) /\ SortedIds(i, q.sort, perm)
        BY <1>7, <2>2
      <4>. HIDE DEF X, i, q
      <4>2. /\ Materialize(perm, q.desc, kept) \in Seq(X)
            /\ OrderedIds(i, q, Materialize(perm, q.desc, kept))
        BY <4>1, MaterializeOrders
      <4>. QED BY <4>2 DEF X, i, q
    <3>. QED BY <3>1, <3>3
  <2>. QED BY <2>1, <2>2
<1>. HIDE DEF ids
<1>9. StampOK(idx[x.v], x) /\ x.v = v /\ x.q = k.q
  BY <1>3, <1>4, <1>8, FreshStamp
<1>. HIDE DEF x
<1>10. CapturedFor(idx, k.q, Append(k.got, x))
  <2>1. \A a \in DOMAIN k.got : k.got[a].v # x.v
    BY <1>3, <1>4, <1>9
  <2>. QED BY <1>3, <1>9, <2>1, CapturedJoins
<1>. DEFINE new == [phase |-> "capture", q |-> k.q, groups |-> k.groups, todo |-> Tail(k.todo),
                    got |-> Append(k.got, x)]
<1>11. RunningOK(idx, new)
  <2>1. /\ new = [phase |-> "capture", q |-> new.q, groups |-> new.groups, todo |-> new.todo,
                  got |-> new.got]
        /\ new.q = k.q /\ new.todo = Tail(k.todo) /\ new.got = Append(k.got, x)
    OBVIOUS
  <2>. HIDE DEF new
  <2>2. \A a, b \in DOMAIN Tail(k.todo) : Tail(k.todo)[a] = Tail(k.todo)[b] => a = b
    <3>. SUFFICES ASSUME NEW a \in DOMAIN Tail(k.todo), NEW b \in DOMAIN Tail(k.todo),
                         Tail(k.todo)[a] = Tail(k.todo)[b]
                  PROVE  a = b
      OBVIOUS
    <3>1. a + 1 = b + 1
      BY <1>3, <1>4
    <3>2. a \in Nat /\ b \in Nat
      BY <1>4
    <3>. QED BY <3>1, <3>2
  <2>3. \A a \in DOMAIN Tail(k.todo), b \in DOMAIN Append(k.got, x) : Tail(k.todo)[a] # Append(k.got, x)[b].v
    <3>. SUFFICES ASSUME NEW a \in DOMAIN Tail(k.todo), NEW b \in DOMAIN Append(k.got, x)
                  PROVE  Tail(k.todo)[a] # Append(k.got, x)[b].v
      OBVIOUS
    <3>1. a + 1 \in DOMAIN k.todo /\ Tail(k.todo)[a] = k.todo[a + 1] /\ a + 1 # 1
      BY <1>4
    <3>2. k.got \in Seq(Range(k.got))
      BY <1>3 DEF CapturedFor
    <3>3. \/ b \in DOMAIN k.got /\ Append(k.got, x)[b] = k.got[b]
          \/ Append(k.got, x)[b] = x
      BY <3>2, Joins
    <3>. QED BY <3>1, <3>3, <1>3, <1>4, <1>9
  <2>. QED BY <1>4, <1>10, <2>1, <2>2, <2>3 DEF RunningOK
<1>12. RunningInv'
  <2>1. running' = [running EXCEPT ![c] = new]
    <3>. DEFINE t == Tail(k.todo)  g == Append(k.got, x)
    <3>1. running' = [running EXCEPT ![c] = [k EXCEPT !.todo = t, !.got = g]]
      BY <1>1 DEF k
    <3>2. k = [phase |-> "capture", q |-> k.q, groups |-> k.groups, todo |-> k.todo, got |-> k.got]
      BY <1>3
    <3>. HIDE DEF t, g
    <3>. DEFINE n == [k EXCEPT !.todo = t, !.got = g]
    <3>3. n = [k EXCEPT !.todo = t, !.got = g]
      OBVIOUS
    <3>. HIDE DEF n
    <3>. DEFINE p == "capture"  q == k.q  r == k.groups  a == k.todo  b == k.got
    <3>s. k = [phase |-> p, q |-> q, groups |-> r, todo |-> a, got |-> b]
      BY <3>2
    <3>. HIDE DEF p, q, r, a, b
    <3>u. n = [phase |-> p, q |-> q, groups |-> r, todo |-> t, got |-> g]
      BY <3>3, <3>s, CallMovesOn
    <3>4. n = [phase |-> "capture", q |-> k.q, groups |-> k.groups, todo |-> t, got |-> g]
      BY <3>u DEF p, q, r, a, b
    <3>5. [k EXCEPT !.todo = t, !.got = g] = new
      BY <3>4 DEF t, g, n
    <3>. HIDE DEF new
    <3>. QED BY <3>1, <3>5
  <2>. HIDE DEF new
  <2>2. /\ running' = [d \in Clients |-> running'[d]]
        /\ \A d \in Clients : running'[d] = running[d] \/ running'[d] = new
    BY <1>2, <2>1
  <2>. QED BY <1>1, <1>2, <1>11, <2>2 DEF RunningInv
<1>13. DerivedInv'
  <2>1. derived = [w \in Vols |-> derived[w]] /\ \A w \in Vols : DerivedOK(idx[w], derived[w])
    BY DEF QueryInv, DerivedInv
  <2>2. derived' = [w \in Vols |-> IF w = v THEN d2 ELSE derived[w]]
    BY <1>1, <2>1
  <2>. QED BY <1>1, <1>7, <2>1, <2>2 DEF DerivedInv
<1>14. IndexInv' /\ LastInv' /\ ResultInv' /\ setting' \in Settings /\ batches' \in Nat
  BY <1>1 DEF QueryInv, IndexInv, LastInv, ResultInv
<1>. QED BY <1>12, <1>13, <1>14 DEF QueryInv

\* A function on 1..n is a list.
LEMMA FunctionIsList ==
  ASSUME NEW n \in Nat, NEW X, NEW f \in [1..n -> X]
  PROVE  f \in Seq(X)
OBVIOUS

\* Filtering by what holds of every element changes nothing.
LEMMA FilterAll ==
  ASSUME NEW X, NEW s \in Seq(X), NEW kept, \A i \in DOMAIN s : s[i] \in kept
  PROVE  Filter(s, kept) = s
<1>. DEFINE n == Len(s)  f == Filter(s, kept)
<1>1. n \in Nat /\ DOMAIN s = 1..n /\ s = [i \in 1..n |-> s[i]]
  OBVIOUS
<1>2. f \in Seq(X \cap kept) /\ Filtered(s, kept, f)
  BY FilterAt
<1>3. Positions(s, kept) = 1..n
  BY <1>1 DEF Positions
<1>. HIDE DEF n, f
<1>4. Cardinality(1..n) = n
  <2>1. Cardinality(1..n) = IF 1 > n THEN 0 ELSE n - 1 + 1
    BY <1>1, FS_Interval
  <2>. QED BY <2>1, <1>1
<1>5. Len(f) = n /\ \A i \in 1..n : f[Place(1..n, i) + 1] = s[i]
  BY <1>2, <1>3, <1>4 DEF Filtered
<1>6. ASSUME NEW i \in 1..n PROVE Place(1..n, i) + 1 = i
  <2>1. {j \in 1..n : j < i} = 1..(i - 1)
    BY <1>1
  <2>2. i - 1 \in Int /\ i \in Nat /\ i >= 1
    BY <1>1
  <2>3. Cardinality(1..(i - 1)) = IF 1 > i - 1 THEN 0 ELSE (i - 1) - 1 + 1
    BY <2>2, FS_Interval
  <2>4. Cardinality(1..(i - 1)) = i - 1
    BY <2>2, <2>3
  <2>5. Place(1..n, i) = Cardinality(1..(i - 1))
    BY <2>1 DEF Place
  <2>. QED BY <2>2, <2>4, <2>5
<1>7. f = [i \in 1..n |-> f[i]]
  <2>1. f \in [1..Len(f) -> X \cap kept]
    BY <1>2
  <2>. QED BY <2>1, <1>5
<1>8. \A i \in 1..n : f[i] = s[i]
  BY <1>5, <1>6
<1>. QED BY <1>1, <1>7, <1>8 DEF f

\* The lesser of two ids has no greater key.
LEMMA LessNotAfter ==
  ASSUME NEW i, i.rows \in Seq(RowType), NEW key \in Keys,
         NEW a \in DOMAIN i.rows, NEW b \in DOMAIN i.rows, Less(i, key, a, b)
  PROVE  ~KeyBefore(key, i.rows[b], i.rows[a])
<1>. DEFINE x == i.rows[a]  y == i.rows[b]
<1>1. x \in RowType /\ y \in RowType
  OBVIOUS
<1>2. KeyBefore(key, x, y) \/ ~KeyBefore(key, y, x)
  BY Zenon DEF Less
<1>. HIDE DEF x, y
<1>3. KeyBefore(key, x, y) => ~KeyBefore(key, y, x)
  BY <1>1, KeyOrder
<1>4. KeyBefore(key, y, x) \in BOOLEAN
  BY <1>1, KeyOrder
<1>. QED BY <1>2, <1>3, <1>4 DEF x, y

\* Captures of volumes that have not changed are in the query's order.
LEMMA OrderedCaptures ==
  ASSUME IndexInv, NEW q, NEW got, CapturedFor(idx, q, got), AllCurrent(idx, got)
  PROVE  Ordered(got, q)
<1>. SUFFICES ASSUME NEW g \in DOMAIN got, NEW a \in DOMAIN got[g].ids, NEW b \in DOMAIN got[g].ids,
                     a < b
              PROVE  ~EntryBefore(EntryAt(got, g, b), EntryAt(got, g, a), q)
  BY DEF Ordered
<1>. DEFINE i == idx[got[g].v]  ids == got[g].ids  x == EntryAt(got, g, a)  y == EntryAt(got, g, b)
<1>1. StampOK(i, got[g]) /\ got[g].q = q /\ q.sort \in Keys /\ OrderOf(q)
  BY DEF CapturedFor, OrderOf
<1>2. got[g].content = i.content /\ got[g].structural = i.structural
  BY DEF AllCurrent
<1>3. got[g].v \in Vols /\ ids[a] \in DOMAIN i.rows /\ ids[b] \in DOMAIN i.rows
      /\ OrderedIds(i, q, ids)
  BY <1>1, <1>2 DEF StampOK
<1>4. i.rows \in Seq(RowType)
  BY <1>3 DEF IndexInv, IndexOK, IndexType
<1>5. x.v = got[g].v /\ x.id = ids[a] /\ y.v = got[g].v /\ y.id = ids[b]
  BY DEF EntryAt
<1>6. EntryBefore(y, x, q) <=> IF q.desc THEN KeyBefore(q.sort, i.rows[ids[a]], i.rows[ids[b]])
                               ELSE KeyBefore(q.sort, i.rows[ids[b]], i.rows[ids[a]])
  <2>. HIDE DEF x, y, ids
  <2>. QED BY <1>5, Zenon DEF EntryBefore
<1>7. IF q.desc THEN Less(i, q.sort, ids[b], ids[a]) ELSE Less(i, q.sort, ids[a], ids[b])
  BY <1>3 DEF OrderedIds
<1>. HIDE DEF i, ids, x, y
<1>8. /\ Less(i, q.sort, ids[b], ids[a]) => ~KeyBefore(q.sort, i.rows[ids[a]], i.rows[ids[b]])
      /\ Less(i, q.sort, ids[a], ids[b]) => ~KeyBefore(q.sort, i.rows[ids[b]], i.rows[ids[a]])
  BY <1>1, <1>3, <1>4, LessNotAfter
<1>9. ~EntryBefore(y, x, q)
  BY <1>6, <1>7, <1>8
<1>. QED BY <1>9 DEF x, y

\* Captures of indexes not replaced are of rows that are there.
LEMMA CapturesNow ==
  ASSUME IndexInv, NEW q, NEW got, CapturedFor(idx, q, got),
         \A a \in DOMAIN got : idx[got[a].v].structural = got[a].structural
  PROVE  Captures(got)
<1>1. Len(got) \in Nat /\ DOMAIN got = 1..Len(got)
  BY DEF CapturedFor
<1>2. ASSUME NEW g \in DOMAIN got
      PROVE  /\ got[g].v \in Vols /\ got[g].ids \in Seq(Nat)
             /\ \A k \in DOMAIN got[g].ids : got[g].ids[k] \in DOMAIN idx[got[g].v].rows
  BY DEF CapturedFor, StampOK
<1>3. \A g, h \in DOMAIN got : got[g].v = got[h].v => g = h
  BY DEF CapturedFor
<1>. QED BY <1>1, <1>2, <1>3 DEF Captures

\* The rows of a query of one volume: its ids, copied.
Copied(got) == [k \in DOMAIN got[1].ids |-> [v |-> got[1].v, id |-> got[1].ids[k]]]

\* The rows of a result, in terms of what its volumes contributed.
RowsOK(ix, q, got, rows) ==
  /\ rows \in Seq([v : Vols, id : Nat])
  /\ \A n \in DOMAIN rows : \E a \in DOMAIN got : \E k \in DOMAIN got[a].ids :
       rows[n] = EntryAt(got, a, k)
  /\ \A a \in DOMAIN got :
       Filter(rows, OfVolume(got[a].v)) = [k \in DOMAIN got[a].ids |-> EntryAt(got, a, k)]
  /\ AllCurrent(ix, got) =>
       \A m, n \in DOMAIN rows : m < n => ~EntryBeforeIn(ix, rows[n], rows[m], q)

\* cmp_entries reads the indexes as they are.
LEMMA BeforeIn ==
  ASSUME NEW a, NEW b, NEW q
  PROVE  EntryBefore(a, b, q) <=> EntryBeforeIn(idx, a, b, q)
BY Zenon DEF EntryBefore, EntryBeforeIn

\* Copying one volume makes a result.
LEMMA CopyOK ==
  ASSUME IndexInv, NEW q, NEW got, CapturedFor(idx, q, got), Len(got) = 1
  PROVE  RowsOK(idx, q, got, Copied(got))
<1>. DEFINE rows == Copied(got)  ids == got[1].ids  v == got[1].v
<1>1. /\ DOMAIN got = {1} /\ 1 \in DOMAIN got
  BY DEF CapturedFor
<1>2. v \in Vols /\ ids \in Seq(Nat)
  BY <1>1 DEF CapturedFor, StampOK
<1>3. /\ DOMAIN rows = DOMAIN ids
      /\ \A k \in DOMAIN ids : rows[k] = EntryAt(got, 1, k)
      /\ rows = [k \in DOMAIN ids |-> EntryAt(got, 1, k)]
  BY DEF Copied, EntryAt
<1>4. \A k \in DOMAIN ids : EntryAt(got, 1, k) = [v |-> v, id |-> ids[k]] /\ ids[k] \in Nat
  BY <1>2, ElementsAre DEF EntryAt
<1>. HIDE DEF rows, ids, v
<1>5. rows \in Seq([v : Vols, id : Nat]) /\ \A k \in DOMAIN rows : rows[k] \in OfVolume(v)
  <2>1. \A k \in DOMAIN ids : rows[k] \in [v : Vols, id : Nat] /\ rows[k] \in OfVolume(v)
    BY <1>2, <1>3, <1>4 DEF OfVolume
  <2>2. Len(ids) \in Nat /\ DOMAIN ids = 1..Len(ids)
    BY <1>2
  <2>3. rows \in [1..Len(ids) -> [v : Vols, id : Nat]]
    BY <1>3, <2>1, <2>2
  <2>4. rows \in Seq([v : Vols, id : Nat])
    BY <2>2, <2>3, FunctionIsList
  <2>. QED BY <1>3, <2>1, <2>4
<1>6. Filter(rows, OfVolume(v)) = rows
  BY <1>5, FilterAll
<1>7. ASSUME AllCurrent(idx, got), NEW m \in DOMAIN rows, NEW n \in DOMAIN rows, m < n
      PROVE  ~EntryBeforeIn(idx, rows[n], rows[m], q)
  <2>1. Ordered(got, q)
    BY <1>7, OrderedCaptures
  <2>2. ~EntryBefore(EntryAt(got, 1, n), EntryAt(got, 1, m), q)
    BY <1>1, <1>3, <1>7, <2>1 DEF Ordered, ids
  <2>3. rows[n] = EntryAt(got, 1, n) /\ rows[m] = EntryAt(got, 1, m)
    BY <1>3
  <2>. QED BY <2>2, <2>3, BeforeIn
<1>8. /\ \A n \in DOMAIN rows : \E a \in DOMAIN got : \E k \in DOMAIN got[a].ids :
           rows[n] = EntryAt(got, a, k)
      /\ \A a \in DOMAIN got :
           Filter(rows, OfVolume(got[a].v)) = [k \in DOMAIN got[a].ids |-> EntryAt(got, a, k)]
  BY <1>1, <1>3, <1>6 DEF v, ids
<1>9. RowsOK(idx, q, got, rows)
  BY <1>5, <1>7, <1>8 DEF RowsOK
<1>. QED BY <1>9 DEF rows

\* Merging several volumes makes a result.
LEMMA MergeOK ==
  ASSUME IndexInv, NEW q, NEW got, CapturedFor(idx, q, got),
         \A a \in DOMAIN got : idx[got[a].v].structural = got[a].structural
  PROVE  RowsOK(idx, q, got, MergeVolumes(got, q))
<1>. DEFINE rows == MergeVolumes(got, q)
<1>1. Captures(got)
  BY CapturesNow
<1>2. IndexRows
  BY DEF IndexRows, IndexInv, IndexOK, IndexType
<1>3. q.sort \in Keys /\ q.desc \in BOOLEAN
  BY DEF CapturedFor, OrderOf
<1>4. /\ rows \in Seq(Entries)
      /\ \A g \in DOMAIN got :
           Filter(rows, OfVolume(got[g].v)) = [k \in DOMAIN got[g].ids |-> EntryAt(got, g, k)]
      /\ \A i \in DOMAIN rows : \E g \in DOMAIN got : \E k \in DOMAIN got[g].ids :
           rows[i] = EntryAt(got, g, k)
      /\ Ordered(got, q) =>
           \A i, j \in DOMAIN rows : i < j => ~EntryBefore(rows[j], rows[i], q)
  BY <1>1, <1>2, <1>3, MergeVolumesMerges, Zenon
<1>. HIDE DEF rows
<1>5. rows \in Seq([v : Vols, id : Nat])
  <2>1. Entries \subseteq [v : Vols, id : Nat]
    BY DEF Entries
  <2>. QED BY <1>4, <2>1, ListOf
<1>6. ASSUME AllCurrent(idx, got), NEW m \in DOMAIN rows, NEW n \in DOMAIN rows, m < n
      PROVE  ~EntryBeforeIn(idx, rows[n], rows[m], q)
  <2>1. Ordered(got, q)
    BY <1>6, OrderedCaptures
  <2>2. ~EntryBefore(rows[n], rows[m], q)
    BY <1>4, <1>6, <2>1
  <2>. QED BY <2>2, BeforeIn
<1>7. RowsOK(idx, q, got, rows)
  BY <1>4, <1>5, <1>6 DEF RowsOK
<1>. QED BY <1>7 DEF rows

\* Such rows with their volumes and structural generations are a result.
LEMMA RowsMakeResult ==
  ASSUME NEW ix, NEW h, CapturedFor(ix, h.q, h.got), RowsOK(ix, h.q, h.got, h.r.rows),
         h.r.vols = [a \in DOMAIN h.got |-> h.got[a].v],
         h.r.structural = [a \in DOMAIN h.got |-> h.got[a].structural]
  PROVE  ResultOK(ix, h)
BY DEF RowsOK, ResultOK

\* Publishing a result keeps the invariant: the caches it leaves are its own captures.
LEMMA FinishKeeps ==
  ASSUME QueryInv, NEW c \in Clients, Finish(c)
  PROVE  QueryInv'
<1>. DEFINE k    == running[c]
            rows == IF Len(k.got) = 1 THEN [i \in DOMAIN k.got[1].ids |->
                                              [v |-> k.got[1].v, id |-> k.got[1].ids[i]]]
                    ELSE MergeVolumes(k.got, k.q)
            res  == [vols |-> [i \in DOMAIN k.got |-> k.got[i].v],
                     structural |-> [i \in DOMAIN k.got |-> k.got[i].structural],
                     rows |-> rows]
            same == result[c] # <<>> /\ SameOrderedIds(res, result[c][1].r)
            h    == [r |-> res, unchanged |-> same, got |-> k.got, q |-> k.q]
<1>1. /\ k.phase = "capture" /\ k.todo = <<>> /\ ~MergeIsStale(k.got)
      /\ Fail(c)
      /\ UNCHANGED <<setting, idx, derived, batches>>
  BY Zenon DEF Finish
<1>2. result' = [result EXCEPT ![c] = <<h>>]
  BY Zenon DEF Finish
<1>3. last' = [v \in Vols |-> IF \E i \in DOMAIN k.got : k.got[i].v = v
                              THEN <<k.got[CHOOSE i \in DOMAIN k.got : k.got[i].v = v]>>
                              ELSE last[v]]
  BY Zenon DEF Finish
<1>4. CapturedFor(idx, k.q, k.got)
  <2>1. k # Idle
    BY <1>1 DEF Idle
  <2>2. RunningOK(idx, k)
    BY DEF QueryInv, RunningInv
  <2>. QED BY <2>1, <2>2 DEF RunningOK
<1>5. IndexInv
  BY DEF QueryInv
<1>6. RowsOK(idx, k.q, k.got, rows)
  <2>. HIDE DEF k
  <2>1. CASE Len(k.got) = 1
    <3>1. rows = Copied(k.got)
      BY <2>1 DEF Copied
    <3>. HIDE DEF rows
    <3>2. RowsOK(idx, k.q, k.got, Copied(k.got))
      BY <1>4, <1>5, <2>1, CopyOK
    <3>. QED BY <3>1, <3>2
  <2>2. CASE Len(k.got) # 1
    <3>1. rows = MergeVolumes(k.got, k.q)
      BY <2>2
    <3>. HIDE DEF rows
    <3>2. \A a \in DOMAIN k.got : idx[k.got[a].v].structural = k.got[a].structural
      BY <1>1, <2>2 DEF MergeIsStale
    <3>3. RowsOK(idx, k.q, k.got, MergeVolumes(k.got, k.q))
      BY <1>4, <1>5, <3>2, MergeOK
    <3>. QED BY <3>1, <3>3
  <2>. QED BY <2>1, <2>2
<1>. HIDE DEF rows, same
<1>7. ResultOK(idx, h)
  <2>1. /\ h.q = k.q /\ h.got = k.got /\ h.r.rows = rows
        /\ h.r.vols = [a \in DOMAIN k.got |-> k.got[a].v]
        /\ h.r.structural = [a \in DOMAIN k.got |-> k.got[a].structural]
    OBVIOUS
  <2>. HIDE DEF h, k
  <2>2. /\ CapturedFor(idx, h.q, h.got) /\ RowsOK(idx, h.q, h.got, h.r.rows)
        /\ h.r.vols = [a \in DOMAIN h.got |-> h.got[a].v]
        /\ h.r.structural = [a \in DOMAIN h.got |-> h.got[a].structural]
    BY <1>4, <1>6, <2>1
  <2>. QED BY <2>2, RowsMakeResult
<1>. HIDE DEF h, res
<1>8. ResultInv'
  <2>1. /\ result = [d \in Clients |-> result[d]]
        /\ \A d \in Clients : result[d] # <<>> =>
             result[d] = <<result[d][1]>> /\ ResultOK(idx, result[d][1])
    BY DEF QueryInv, ResultInv
  <2>2. /\ result' = [d \in Clients |-> result'[d]]
        /\ \A d \in Clients : result'[d] = result[d] \/ result'[d] = <<h>>
    BY <1>2, <2>1
  <2>3. <<h>>[1] = h
    OBVIOUS
  <2>. QED BY <1>1, <1>7, <2>1, <2>2, <2>3 DEF ResultInv
<1>9. LastInv'
  <2>1. \A v \in Vols : last[v] # <<>> =>
             last[v] = <<last[v][1]>> /\ last[v][1].v = v /\ StampOK(idx[v], last[v][1])
    BY DEF QueryInv, LastInv
  <2>. DEFINE got == k.got  of(v) == CHOOSE i \in DOMAIN got : got[i].v = v
  <2>2. /\ last' = [v \in Vols |-> last'[v]]
        /\ \A v \in Vols : last'[v] = IF \E i \in DOMAIN got : got[i].v = v THEN <<got[of(v)]>> ELSE last[v]
    BY <1>3
  <2>. HIDE DEF k
  <2>3. \A v \in Vols : (\E i \in DOMAIN got : got[i].v = v) => of(v) \in DOMAIN got /\ got[of(v)].v = v
    OBVIOUS
  <2>. HIDE DEF of
  <2>4. \A v \in Vols : (\E i \in DOMAIN got : got[i].v = v) =>
          got[of(v)].v = v /\ StampOK(idx[v], got[of(v)])
    BY <1>4, <2>3 DEF CapturedFor
  <2>5. \A v \in Vols : last'[v] # <<>> =>
          last'[v] = <<last'[v][1]>> /\ last'[v][1].v = v /\ StampOK(idx[v], last'[v][1])
    <3>. SUFFICES ASSUME NEW v \in Vols, last'[v] # <<>>
                  PROVE  last'[v] = <<last'[v][1]>> /\ last'[v][1].v = v /\ StampOK(idx[v], last'[v][1])
      OBVIOUS
    <3>1. CASE \E i \in DOMAIN got : got[i].v = v
      <4>. DEFINE x == got[of(v)]
      <4>1. last'[v] = <<x>> /\ <<x>>[1] = x
        BY <2>2, <3>1
      <4>2. x.v = v /\ StampOK(idx[v], x)
        BY <2>4, <3>1
      <4>. HIDE DEF x
      <4>. QED BY <4>1, <4>2
    <3>2. CASE ~(\E i \in DOMAIN got : got[i].v = v)
      BY <2>1, <2>2, <3>2
    <3>. QED BY <3>1, <3>2
  <2>. QED BY <1>1, <2>2, <2>5 DEF LastInv
<1>10. RunningInv'
  BY <1>1, FailKeeps DEF QueryInv
<1>11. IndexInv' /\ DerivedInv' /\ setting' \in Settings /\ batches' \in Nat
  BY <1>1 DEF QueryInv, IndexInv, DerivedInv
<1>. QED BY <1>8, <1>9, <1>10, <1>11 DEF QueryInv

\* Every step keeps the invariant.
LEMMA QueryStep == QueryInv /\ [QueryNext]_queryVars => QueryInv'
<1>. SUFFICES ASSUME QueryInv, [QueryNext]_queryVars PROVE QueryInv'
  OBVIOUS
<1>1. setting.volumes \subseteq Vols
  BY QueryAssumption DEF QueryInv
<1>2. CASE UNCHANGED queryVars
  BY <1>2 DEF queryVars, QueryInv, IndexInv, DerivedInv, LastInv, RunningInv, ResultInv
<1>3. ASSUME NEW v \in setting.volumes, NEW row \in NewRows, AppendRow(v, row) PROVE QueryInv'
  BY <1>1, <1>3, AppendKeeps
<1>4. ASSUME NEW v \in setting.volumes, NEW id \in DOMAIN idx[v].rows, DeleteRow(v, id) PROVE QueryInv'
  BY <1>1, <1>4, ChangeKeeps
<1>5. ASSUME NEW v \in setting.volumes, NEW id \in DOMAIN idx[v].rows, NEW size \in NewSizes,
             UpdateStat(v, id, size)
      PROVE QueryInv'
  BY <1>1, <1>5, ChangeKeeps
<1>6. ASSUME NEW v \in setting.volumes, NEW id \in DOMAIN idx[v].rows, NEW name \in NewNames,
             RenameDir(v, id, name)
      PROVE QueryInv'
  BY <1>1, <1>6, ChangeKeeps
<1>7. ASSUME NEW v \in setting.volumes, InstallIndex(v) PROVE QueryInv'
  BY <1>1, <1>7, InstallKeeps
<1>8. ASSUME NEW v \in setting.volumes, SetPhase(v) PROVE QueryInv'
  BY <1>1, <1>8, PhaseKeeps
<1>9. ASSUME NEW c \in Clients, NEW q \in setting.queries, Start(c, q) PROVE QueryInv'
  BY <1>9, StartKeeps
<1>10. ASSUME NEW c \in Clients, Capture(c) PROVE QueryInv'
  BY <1>10, CaptureKeeps
<1>11. ASSUME NEW c \in Clients, Finish(c) PROVE QueryInv'
  BY <1>11, FinishKeeps
<1>12. ASSUME NEW c \in Clients, FinishStale(c) \/ Cancel(c) PROVE QueryInv'
  BY <1>12, EndKeeps
<1>13. ASSUME NEW c \in Clients, Free(c) PROVE QueryInv'
  BY <1>13, FreeKeeps
<1>. QED BY <1>2, <1>3, <1>4, <1>5, <1>6, <1>7, <1>8, <1>9, <1>10, <1>11, <1>12, <1>13 DEF QueryNext

\* The inductive invariant holds in every reachable state, for every number of volumes and
\* clients, every forest of rows and every order of batches, replacements and queries
\* (search.rs query_cancellable, index maintenance under the volumes' write locks).
THEOREM QueryInvariant == QuerySpec => []QueryInv
<1>1. QueryInit => QueryInv
  BY InitQuery
<1>2. QueryInv /\ [QueryNext]_queryVars => QueryInv'
  BY QueryStep
<1>. QED BY <1>1, <1>2, PTL DEF QuerySpec

----------------------------------------------------------------------------
(***************************************************************************)
(* What the invariant says of the results clients hold.                    *)
(***************************************************************************)
\* The only result in a client's handle.
LEMMA HandleOf ==
  ASSUME QueryInv, NEW c \in Clients, NEW h \in Range(result[c])
  PROVE  result[c] # <<>> /\ h = result[c][1] /\ ResultOK(idx, h)
<1>1. result[c] # <<>>
  BY DEF Range
<1>2. result[c] = <<result[c][1]>> /\ ResultOK(idx, result[c][1])
  BY <1>1 DEF QueryInv, ResultInv
<1>. DEFINE x == result[c][1]
<1>3. result[c] = <<x>> /\ ResultOK(idx, x)
  BY <1>2
<1>. HIDE DEF x
<1>4. h = x
  BY <1>3 DEF Range
<1>. QED BY <1>1, <1>3, <1>4 DEF x

\* A result is merged from its captures, in order while they are current.
LEMMA ResultMerges ==
  ASSUME NEW h, ResultOK(idx, h)
  PROVE  /\ \A g \in Range(h.got) :
              Filter(h.r.rows, [v : {g.v}, id : Nat]) = [k \in DOMAIN g.ids |-> [v |-> g.v, id |-> g.ids[k]]]
         /\ (\A g \in Range(h.got) : /\ g.content = idx[g.v].content
                                     /\ g.structural = idx[g.v].structural)
            => \A i, j \in DOMAIN h.r.rows : i < j => ~EntryBefore(h.r.rows[j], h.r.rows[i], h.q)
<1>1. ASSUME NEW g \in Range(h.got)
      PROVE  Filter(h.r.rows, [v : {g.v}, id : Nat]) = [k \in DOMAIN g.ids |-> [v |-> g.v, id |-> g.ids[k]]]
  <2>1. PICK a \in DOMAIN h.got : g = h.got[a]
    BY DEF Range
  <2>2. Filter(h.r.rows, OfVolume(h.got[a].v)) = [k \in DOMAIN h.got[a].ids |-> EntryAt(h.got, a, k)]
    BY DEF ResultOK
  <2>. QED BY <2>1, <2>2 DEF OfVolume, EntryAt
<1>2. ASSUME \A g \in Range(h.got) : /\ g.content = idx[g.v].content
                                     /\ g.structural = idx[g.v].structural,
             NEW i \in DOMAIN h.r.rows, NEW j \in DOMAIN h.r.rows, i < j
      PROVE  ~EntryBefore(h.r.rows[j], h.r.rows[i], h.q)
  <2>1. AllCurrent(idx, h.got)
    BY <1>2 DEF AllCurrent, Range
  <2>2. ~EntryBeforeIn(idx, h.r.rows[j], h.r.rows[i], h.q)
    BY <1>2, <2>1 DEF ResultOK
  <2>. QED BY <2>2, BeforeIn
<1>. QED BY <1>1, <1>2

\* The invariant implies the order of results.
LEMMA InOrder == QueryInv => MergedInOrder
BY HandleOf, ResultMerges DEF MergedInOrder

\* While its volumes keep their structural generation, a result's rows denote what
\* they denoted when captured.
LEMMA UidsCurrent ==
  ASSUME NEW h, ResultOK(idx, h), ResultIsCurrent(h.r)
  PROVE  /\ DOMAIN Uids(h) = DOMAIN h.r.rows
         /\ \A n \in DOMAIN h.r.rows :
              Uids(h)[n] = idx[h.r.rows[n].v].rows[h.r.rows[n].id].uid
         /\ Uids(h) = [n \in DOMAIN h.r.rows |-> idx[h.r.rows[n].v].rows[h.r.rows[n].id].uid]
<1>. DEFINE from(x) == CHOOSE g \in Range(h.got) : g.v = x.v
            at(x) == CHOOSE k \in DOMAIN from(x).ids : from(x).ids[k] = x.id
<1>1. Uids(h) = [n \in DOMAIN h.r.rows |-> from(h.r.rows[n]).uids[at(h.r.rows[n])]]
  BY DEF Uids
<1>2. ASSUME NEW n \in DOMAIN h.r.rows
      PROVE  LET x == h.r.rows[n] IN from(x).uids[at(x)] = idx[x.v].rows[x.id].uid
  <2>. DEFINE x == h.r.rows[n]
  <2>1. PICK a \in DOMAIN h.got : \E k \in DOMAIN h.got[a].ids : x = EntryAt(h.got, a, k)
    BY DEF ResultOK
  <2>2. PICK k \in DOMAIN h.got[a].ids : x = EntryAt(h.got, a, k)
    BY <2>1
  <2>3. x.v = h.got[a].v /\ x.id = h.got[a].ids[k]
    BY <2>2 DEF EntryAt
  <2>. HIDE DEF x
  <2>4. from(x) \in Range(h.got) /\ from(x).v = x.v
    <3>1. \E g \in Range(h.got) : g.v = x.v
      BY <2>3 DEF Range
    <3>. QED BY <3>1
  <2>. HIDE DEF from
  <2>5. from(x) = h.got[a]
    <3>1. PICK b \in DOMAIN h.got : from(x) = h.got[b]
      BY <2>4 DEF Range
    <3>2. \A b1, b2 \in DOMAIN h.got : h.got[b1].v = h.got[b2].v => b1 = b2
      BY DEF ResultOK, CapturedFor
    <3>. QED BY <3>1, <3>2, <2>3, <2>4
  <2>6. at(x) \in DOMAIN h.got[a].ids /\ h.got[a].ids[at(x)] = x.id
    BY <2>3, <2>5
  <2>. HIDE DEF at
  <2>7. StampOK(idx[h.got[a].v], h.got[a])
    BY DEF ResultOK, CapturedFor
  <2>8. h.got[a].structural = idx[h.got[a].v].structural
    <3>1. h.r.vols = [b \in DOMAIN h.got |-> h.got[b].v]
          /\ h.r.structural = [b \in DOMAIN h.got |-> h.got[b].structural]
      BY DEF ResultOK
    <3>. QED BY <3>1 DEF ResultIsCurrent
  <2>9. idx[h.got[a].v].rows[h.got[a].ids[at(x)]].uid = h.got[a].uids[at(x)]
    BY <2>6, <2>7, <2>8 DEF StampOK
  <2>10. from(x).uids[at(x)] = idx[x.v].rows[x.id].uid
    BY <2>3, <2>5, <2>6, <2>9
  <2>. QED BY <2>10 DEF x
<1>. HIDE DEF from, at
<1>. QED BY <1>1, <1>2

\* The lesser of two numbers.
LEMMA MinOfTwo ==
  ASSUME NEW a \in Int, NEW b \in Int
  PROVE  Min({a, b}) = IF a <= b THEN a ELSE b
BY DEF Min

\* What fill_page serves: at most count rows, those at the offset, of a current result.
LEMMA PageIs ==
  ASSUME NEW r, NEW X, r.rows \in Seq(X), NEW offset \in Nat, NEW count \in Nat, FillPage(r, offset, count).ok
  PROVE  LET p == FillPage(r, offset, count)
         IN  /\ count <= MaxPageRows /\ ResultIsCurrent(r)
             /\ Len(p.rows) \in Nat /\ Len(p.rows) <= count
             /\ \A k \in DOMAIN p.rows : offset + k \in DOMAIN r.rows /\ p.rows[k] = r.rows[offset + k]
<1>. DEFINE rows == r.rows  n == Len(rows)
            end  == Min({offset + count, n})
            from == Min({offset, end})
            page == SubSeq(rows, from + 1, end)
            p == FillPage(r, offset, count)
<1>1. ~(count > MaxPageRows) /\ ResultIsCurrent(r) /\ p.rows = page
  BY Zenon DEF FillPage
<1>2. rows \in Seq(X) /\ n \in Nat /\ DOMAIN rows = 1..n
  OBVIOUS
<1>. HIDE DEF n, p
<1>3. end = IF offset + count <= n THEN offset + count ELSE n
  BY <1>2, MinOfTwo
<1>4. end \in Nat /\ end <= n /\ end <= offset + count
  BY <1>2, <1>3
<1>. HIDE DEF end
<1>5. from = IF offset <= end THEN offset ELSE end
  BY <1>4, MinOfTwo
<1>6. from \in Nat
  BY <1>4, <1>5
<1>. HIDE DEF from, rows
<1>7. /\ Len(page) = IF from + 1 <= end THEN end - from ELSE 0
      /\ DOMAIN page = 1..Len(page)
      /\ \A k \in 1..Len(page) : page[k] = rows[from + k]
  <2>1. /\ page = [k \in 1..(end - (from + 1) + 1) |-> rows[k + (from + 1) - 1]]
    BY <1>2, <1>4, <1>6 DEF SubSeq
  <2>. QED BY <2>1, <1>2, <1>4, <1>6
<1>8. Len(page) \in Nat /\ Len(page) <= count
  BY <1>4, <1>5, <1>6, <1>7
<1>9. ASSUME NEW k \in DOMAIN page PROVE offset + k \in 1..n /\ page[k] = rows[offset + k]
  <2>1. from + 1 <= end /\ k \in 1..(end - from)
    BY <1>4, <1>6, <1>7
  <2>2. from = offset
    BY <2>1, <1>4, <1>5, <1>6
  <2>3. offset + k \in 1..n
    BY <1>2, <1>4, <2>1, <2>2
  <2>. QED BY <1>7, <2>2, <2>3
<1>10. count <= MaxPageRows
  BY <1>1, QueryAssumption
<1>. HIDE DEF page
<1>. QED BY <1>1, <1>2, <1>8, <1>9, <1>10 DEF p, rows

\* The invariant implies that a page shows the links captured.
LEMMA PagesShow == QueryInv => PagesShowCaptured
<1>. SUFFICES ASSUME QueryInv, NEW c \in Clients, NEW h \in Range(result[c]),
                     NEW offset \in 0..(Len(h.r.rows) + 1), NEW count \in 0..(MaxPageRows + 1),
                     FillPage(h.r, offset, count).ok
              PROVE  LET p == FillPage(h.r, offset, count)
                     IN  /\ Len(p.rows) <= MaxPageRows
                         /\ \A k \in DOMAIN p.rows :
                              idx[p.rows[k].v].rows[p.rows[k].id].uid = Uids(h)[offset + k]
  BY DEF PagesShowCaptured
<1>. DEFINE p == FillPage(h.r, offset, count)
<1>1. ResultOK(idx, h)
  BY HandleOf
<1>2. h.r.rows \in Seq([v : Vols, id : Nat])
  BY <1>1 DEF ResultOK
<1>3. offset \in Nat /\ count \in Nat /\ MaxPageRows \in Nat
  BY <1>2, QueryAssumption
<1>4. /\ count <= MaxPageRows /\ ResultIsCurrent(h.r)
      /\ Len(p.rows) \in Nat /\ Len(p.rows) <= count
      /\ \A k \in DOMAIN p.rows : offset + k \in DOMAIN h.r.rows /\ p.rows[k] = h.r.rows[offset + k]
  BY <1>2, <1>3, PageIs
<1>. HIDE DEF p
<1>5. \A n \in DOMAIN h.r.rows :
        Uids(h)[n] = idx[h.r.rows[n].v].rows[h.r.rows[n].id].uid
  BY <1>1, <1>4, UidsCurrent
<1>6. Len(p.rows) <= MaxPageRows
  BY <1>3, <1>4
<1>7. \A k \in DOMAIN p.rows :
        idx[p.rows[k].v].rows[p.rows[k].id].uid = Uids(h)[offset + k]
  BY <1>4, <1>5
<1>. QED BY <1>6, <1>7 DEF p

\* Two results with the same presentation identity list the same links.
LEMMA SameIdsSameLinks ==
  ASSUME NEW g, NEW h, ResultOK(idx, g), ResultOK(idx, h), SameOrderedIds(h.r, g.r)
  PROVE  Uids(h) = Uids(g)
<1>1. ResultIsCurrent(h.r) /\ ResultIsCurrent(g.r) /\ h.r.rows = g.r.rows
  BY DEF SameOrderedIds
<1>2. Uids(h) = [n \in DOMAIN h.r.rows |-> idx[h.r.rows[n].v].rows[h.r.rows[n].id].uid]
  BY <1>1, UidsCurrent
<1>3. Uids(g) = [n \in DOMAIN g.r.rows |-> idx[g.r.rows[n].v].rows[g.r.rows[n].id].uid]
  BY <1>1, UidsCurrent
<1>. QED BY <1>1, <1>2, <1>3

\* Uids reads no variable: what it says of a handle does not change with a step.
ShowsSame(c) ==
  (result'[c] # result[c] /\ result'[c] # <<>>) =>
    (result'[c][1].unchanged =>
       result[c] # <<>> /\ Uids(result'[c][1]) = Uids(result[c][1]))

\* A result published as unchanged lists the links the client shows.
LEMMA FinishShowsSame ==
  ASSUME QueryInv, QueryInv', NEW c \in Clients, Finish(c), NEW d \in Clients
  PROVE  ShowsSame(d)
<1>. SUFFICES ASSUME result'[d] # result[d], result'[d] # <<>>, result'[d][1].unchanged
              PROVE  result[d] # <<>> /\ Uids(result'[d][1]) = Uids(result[d][1])
  BY DEF ShowsSame
<1>. DEFINE k    == running[c]
            rows == IF Len(k.got) = 1 THEN [i \in DOMAIN k.got[1].ids |->
                                              [v |-> k.got[1].v, id |-> k.got[1].ids[i]]]
                    ELSE MergeVolumes(k.got, k.q)
            res  == [vols |-> [i \in DOMAIN k.got |-> k.got[i].v],
                     structural |-> [i \in DOMAIN k.got |-> k.got[i].structural],
                     rows |-> rows]
            same == result[c] # <<>> /\ SameOrderedIds(res, result[c][1].r)
            h    == [r |-> res, unchanged |-> same, got |-> k.got, q |-> k.q]
<1>1. result' = [result EXCEPT ![c] = <<h>>] /\ idx' = idx
  BY Zenon DEF Finish
<1>2. h.r = res /\ h.unchanged = same
  OBVIOUS
<1>. HIDE DEF h, res
<1>3. result = [e \in Clients |-> result[e]]
  BY DEF QueryInv, ResultInv
<1>4. d = c /\ result'[c] = <<h>>
  BY <1>1, <1>3
<1>5. result'[d][1] = h
  BY <1>4
<1>6. result[c] # <<>> /\ SameOrderedIds(h.r, result[c][1].r)
  BY <1>2, <1>5
<1>7. ResultOK(idx, result[c][1])
  BY <1>6 DEF QueryInv, ResultInv
<1>8. ResultOK(idx, h)
  BY <1>1, <1>4, <1>5 DEF QueryInv, ResultInv
<1>9. Uids(h) = Uids(result[c][1])
  BY <1>6, <1>7, <1>8, SameIdsSameLinks
<1>. QED BY <1>4, <1>5, <1>6, <1>9

\* No step hands a client another list as unchanged.
LEMMA StepShowsSame ==
  ASSUME QueryInv, QueryInv', [QueryNext]_queryVars, NEW d \in Clients
  PROVE  ShowsSame(d)
<1>1. CASE result' = result
  BY <1>1 DEF ShowsSame
<1>2. ASSUME NEW c \in Clients, Finish(c) PROVE ShowsSame(d)
  BY <1>2, FinishShowsSame
<1>3. ASSUME NEW c \in Clients, Free(c) PROVE ShowsSame(d)
  <2>1. result' = [result EXCEPT ![c] = <<>>] /\ result = [e \in Clients |-> result[e]]
    BY <1>3 DEF Free, QueryInv, ResultInv
  <2>2. result'[d] = <<>> \/ result'[d] = result[d]
    BY <2>1
  <2>. QED BY <2>2 DEF ShowsSame
<1>4. \/ result' = result
      \/ \E c \in Clients : Finish(c) \/ Free(c)
  <2>1. CASE UNCHANGED queryVars
    BY <2>1 DEF queryVars
  <2>2. ASSUME NEW v, NEW i, Batch(v, i) PROVE result' = result
    BY <2>2 DEF Batch
  <2>3. ASSUME NEW v, \/ \E row \in NewRows : AppendRow(v, row)
                      \/ \E id \in DOMAIN idx[v].rows :
                           \/ DeleteRow(v, id)
                           \/ \E size \in NewSizes : UpdateStat(v, id, size)
                           \/ \E name \in NewNames : RenameDir(v, id, name)
        PROVE result' = result
    BY <2>2, <2>3, Zenon DEF AppendRow, DeleteRow, UpdateStat, RenameDir
  <2>4. ASSUME NEW v, InstallIndex(v) \/ SetPhase(v) PROVE result' = result
    BY <2>4, Zenon DEF InstallIndex, SetPhase
  <2>5. ASSUME NEW c, NEW q, Start(c, q) PROVE result' = result
    BY <2>5, Zenon DEF Start, StartCompiled
  <2>6. ASSUME NEW c, Capture(c) \/ FinishStale(c) \/ Cancel(c) PROVE result' = result
    BY <2>6, Zenon DEF Capture, FinishStale, Cancel
  <2>. QED BY <2>1, <2>3, <2>4, <2>5, <2>6, Zenon DEF QueryNext
<1>. QED BY <1>1, <1>2, <1>3, <1>4

\* A result is an interleaving of what its volumes contributed, none lost, doubled or moved,
\* and is in the requested order across volumes while none has changed (search.rs
\* merge_permutations, cmp_entries).
THEOREM ResultsInOrder == QuerySpec => []MergedInOrder
BY QueryInvariant, InOrder, PTL

\* A page that is served shows, row for row, the links the query captured, whatever batches,
\* compactions and rescans came between (results.rs fill_page).
THEOREM PagesShowLinks == QuerySpec => []PagesShowCaptured
BY QueryInvariant, PagesShow, PTL

\* A result reported as unchanged lists the same links in the same order as the result the
\* client already shows (search.rs presentation_unchanged, results.rs same_ordered_ids).
THEOREM UnchangedShowsSame == QuerySpec => UnchangedIsSame
<1>1. QueryInv /\ QueryInv' /\ [QueryNext]_queryVars
      => [\A c \in Clients :
            (result'[c] # result[c] /\ result'[c] # <<>>) =>
              (result'[c][1].unchanged =>
                 result[c] # <<>> /\ Uids(result'[c][1]) = Uids(result[c][1]))]_queryVars
  BY StepShowsSame DEF ShowsSame
<1>. QED BY <1>1, QueryInvariant, PTL DEF QuerySpec, UnchangedIsSame
=============================================================================
