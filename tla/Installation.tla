----------------------------- MODULE Installation -----------------------------
(***************************************************************************)
(* The machine-wide installation of the service: setup and uninstall (run  *)
(* elevated, from the app's bundle), the daily collection of unused        *)
(* installs, the service's own start, and the trusted data root they       *)
(* share.                                                                  *)
(*                                                                         *)
(* The root directory is an object with an identity; it is trusted when    *)
(* the registry recorded that identity.  Every holder opens it for a       *)
(* delete-denying lease, so at most one process holds it; hardening ends   *)
(* in a handoff that releases the strict handle before the operational one *)
(* is opened, and another process may come in between.                     *)
(*                                                                         *)
(* A command may fail or be killed at any step, and the machine may be     *)
(* rebooted at any step.                                                   *)
(***************************************************************************)
EXTENDS Naturals, FiniteSets

CONSTANTS
  Accounts,   \* user accounts of the machine
  MaxRoots,   \* bound on the root objects created
  MaxBoots,   \* bound on the reboots
  GcEnabled   \* gc_max_idle_days > 0

ASSUME InstallationAssumption ==
  Accounts # {} /\ MaxRoots \in Nat \ {0} /\ MaxBoots \in Nat /\ GcEnabled \in BOOLEAN

Data == {"index", "logs", "config"}
Absent == 0

VARIABLES
  reg,     \* the SCM's record: [is, start, dacl], dacl who may start it
  task,    \* the collection task is registered
  svc, svcSids,  \* the service process; the accounts it lets connect
  root,    \* identity of the object under the fixed name, or Absent
  made,    \* root objects made so far
  prov,    \* the identity the registry records
  files,   \* children of the root
  conf,    \* the accounts service.json authorizes
  logs,    \* the accounts that may read logs/
  lease,   \* the process that holds the root open
  stale,   \* last_use is older than the threshold
  inst,    \* the elevated command: [cmd, at, err, who]
  gc,      \* the collection: where it is
  pending, \* paths the next boot deletes
  boots,
  taken    \* a boot deleted the image of a registered service

scmVars == <<reg, task, svc, svcSids>>
rootVars == <<root, made, prov, files, conf, logs, lease, stale>>
bootVars == <<pending, boots, taken>>
vars == <<scmVars, rootVars, inst, gc, bootVars>>

NoReg == [is |-> "none", start |-> "disabled", dacl |-> {}]
Idle == [cmd |-> "none", at |-> "idle", err |-> FALSE, who |-> {}]

\* An empty machine, or the data of a version that recorded no provenance.
Init ==
  /\ reg = NoReg /\ task = FALSE /\ svc = "stopped" /\ svcSids = {}
  /\ root \in {Absent, 1} /\ made = 1 /\ prov = Absent
  /\ files = (IF root = Absent THEN {} ELSE Data) 
  /\ conf \in {{}, Accounts} /\ logs = {} /\ lease = "none"
  /\ stale = FALSE /\ inst = Idle /\ gc = "idle"
  /\ pending = {} /\ boots = 0 /\ taken = FALSE

Trusted == root # Absent /\ root = prov
Startable == reg.is = "live" /\ reg.start = "demand"

\* open_root, open_operational_root: the handles of two processes exclude each
\* other.
RootFree == lease = "none"

\* try_load_file, validate: what reads back is what one setup wrote whole.
ConfigValid == "config" \in files

\* read_last_use, gc_should_remove: no stamp is no evidence of age.
Unused == GcEnabled /\ "stamp" \in files /\ stale

\* service_is_active: any state but Stopped.
Active == svc # "stopped"

\* Every descendant gets the root's own descriptor, that of logs/ too.
Hardened == logs' = {}

\* atomic_replace_with: staged, then renamed over the old file.
Publish(f) == files' = files \cup {f}

\* The names the root's handle enumerates.
Entries == files

Erase(fs) == files' = files \ fs

Release(p) == lease' = IF lease = p THEN "none" ELSE lease

----------------------------------------------------------------------------
(***************************************************************************)
(* The service process (service_main).                                     *)
(***************************************************************************)
\* The SCM starts a process for a registration that is not disabled.
Start ==
  /\ Startable /\ svc = "stopped" /\ "exe" \in files
  /\ svc' = "starting"
  /\ UNCHANGED <<reg, task, svcSids, rootVars, inst, gc, bootVars>>

\* open_and_harden_machine: strict lease, then every descendant gets the root's
\* descriptor, that of logs/ too; an untrusted or leased root is an error.
SvcOpen ==
  /\ svc = "starting"
  /\ IF RootFree /\ Trusted
     THEN svc' = "handoff" /\ Hardened
     ELSE svc' = "stopped" /\ UNCHANGED logs
  /\ UNCHANGED <<reg, task, svcSids, root, made, prov, files, conf, lease, stale, inst, gc, bootVars>>

\* Reopened with write sharing, the same object still.
SvcReopen ==
  /\ svc = "handoff"
  /\ IF RootFree /\ Trusted
     THEN lease' = "svc" /\ svc' = "rooted"
     ELSE svc' = "stopped" /\ UNCHANGED lease
  /\ UNCHANGED <<reg, task, svcSids, root, made, prov, files, conf, logs, stale, inst, gc, bootVars>>

\* Mutant: the logs keep the descriptor the walk gave them.
SvcRunFlattened ==
  /\ svc = "rooted" /\ ConfigValid /\ conf # {}
  /\ svc' = "running" /\ svcSids' = conf
  /\ UNCHANGED <<reg, task, rootVars, inst, gc, bootVars>>

\* The configuration is read once; the logs' own policy is applied again; an
\* installed service needs an allowlist.  Then Running is reported.
SvcRun ==
  /\ svc = "rooted" /\ ConfigValid /\ conf # {}
  /\ svc' = "running" /\ svcSids' = conf /\ logs' = conf
  /\ UNCHANGED <<reg, task, root, made, prov, files, conf, lease, stale, inst, gc, bootVars>>

SvcStopAsked ==
  /\ svc = "running"
  /\ svc' = "stopping"
  /\ UNCHANGED <<reg, task, svcSids, rootVars, inst, gc, bootVars>>

\* A client's visit or the stop stamps last_use.
SvcStamp ==
  /\ svc \in {"running", "stopping"}
  /\ files' = files \cup {"stamp"} /\ stale' = FALSE
  /\ UNCHANGED <<scmVars, root, made, prov, conf, logs, lease, inst, gc, bootVars>>

\* Mutant: the root stays leased to a service that has stopped.
SvcEndsHolding ==
  /\ svc # "stopped"
  /\ svc' = "stopped" /\ svcSids' = {} /\ UNCHANGED lease
  /\ UNCHANGED <<reg, task, root, made, prov, files, conf, logs, stale, inst, gc, bootVars>>

\* Stopped, by itself, by a failure of its start or by a crash.
SvcEnds ==
  /\ svc # "stopped"
  /\ svc' = "stopped" /\ svcSids' = {} /\ Release("svc")
  /\ UNCHANGED <<reg, task, root, made, prov, files, conf, logs, stale, inst, gc, bootVars>>

\* The SCM forgets a marked service that is stopped and that nobody has open.
Vanish ==
  /\ reg.is = "marked" /\ svc = "stopped"
  /\ inst.at \notin {"stop", "wait"} /\ gc \notin {"stop", "wait"}
  /\ reg' = NoReg
  /\ UNCHANGED <<task, svc, svcSids, rootVars, inst, gc, bootVars>>

Ages ==
  /\ "stamp" \in files /\ svc \notin {"running", "stopping"}
  /\ stale' = TRUE
  /\ UNCHANGED <<scmVars, root, made, prov, files, conf, logs, lease, inst, gc, bootVars>>

----------------------------------------------------------------------------
(***************************************************************************)
(* Steps setup, uninstall and the collection share.                        *)
(***************************************************************************)
InstAt(at) == inst.at = at
To(at) == inst' = [inst EXCEPT !.at = at]
ToWithError(at) == inst' = [inst EXCEPT !.at = at, !.err = TRUE]   \* first_error

\* The installing account, and the owner it forwards if that is a user account.
Identities == {{u} : u \in Accounts} \cup {{u, v} : u, v \in Accounts}

Command(cmd, at) ==
  /\ inst = Idle
  /\ \E who \in IF cmd = "setup" THEN Identities ELSE {{}} :
       inst' = [Idle EXCEPT !.cmd = cmd, !.at = at, !.who = who]
  /\ UNCHANGED <<scmVars, rootVars, gc, bootVars>>

\* The command returns an error, or is killed: its handles are closed.
InstEnds ==
  /\ inst # Idle
  /\ inst' = Idle /\ Release("inst")
  /\ UNCHANGED <<scmVars, root, made, prov, files, conf, logs, stale, gc, bootVars>>

\* stop_service_handle asks; a service that is starting accepts no control,
\* which is an error.
StopIfRunning ==
  /\ svc \notin {"starting", "handoff", "rooted"}
  /\ svc' = IF svc = "running" THEN "stopping" ELSE svc

\* A running image cannot be replaced or deleted.
ImageFree == svc = "stopped" /\ gc = "idle"

\* deregister_service_and_task marks for deletion first; a service already
\* marked is an error, an absent one is not.
MarkOr(present, absent) ==
  \/ reg.is = "live" /\ present /\ reg' = [reg EXCEPT !.is = "marked"]
  \/ reg.is = "none" /\ absent /\ UNCHANGED reg

----------------------------------------------------------------------------
(***************************************************************************)
(* setup: retire the old service, trust the root, fill it, register,       *)
(* commit, restart.                                                        *)
(***************************************************************************)
\* Mutant: the old registration is deleted but never disabled, and a deletion
\* that fails is not an error.
RetireLeniently ==
  /\ InstAt("retire") /\ reg.is # "marked"
  /\ \/ reg.is = "live" /\ reg' = [reg EXCEPT !.is = "marked"]
     \/ UNCHANGED reg
  /\ To(IF reg.is = "live" THEN "stop" ELSE "task")
  /\ UNCHANGED <<task, svc, svcSids, rootVars, gc, bootVars>>

Retire ==
  /\ InstAt("retire") /\ reg.is # "marked"
  /\ IF reg.is = "live"
     THEN reg' = [reg EXCEPT !.start = "disabled", !.dacl = {}] /\ To("mark")
     ELSE UNCHANGED reg /\ To("task")
  /\ UNCHANGED <<task, svc, svcSids, rootVars, gc, bootVars>>

\* A deletion that fails is remembered; the stop is attempted all the same.
Mark ==
  /\ InstAt("mark")
  /\ IF reg.is = "live"
     THEN \/ reg' = [reg EXCEPT !.is = "marked"] /\ To("stop")
          \/ UNCHANGED reg /\ ToWithError("stop")
     ELSE UNCHANGED reg /\ ToWithError("stop")
  /\ UNCHANGED <<task, svc, svcSids, rootVars, gc, bootVars>>

Stop ==
  /\ InstAt("stop")
  /\ StopIfRunning
  /\ To("wait")
  /\ UNCHANGED <<reg, task, svcSids, rootVars, gc, bootVars>>

Waited ==
  /\ InstAt("wait") /\ svc = "stopped" /\ ~inst.err
  /\ To(IF inst.cmd = "setup" THEN "task" ELSE "untask")
  /\ UNCHANGED <<scmVars, rootVars, gc, bootVars>>

\* The deletion of the old task may fail; the root is made safe before that is
\* an error.
DropOldTask ==
  /\ InstAt("task")
  /\ \/ task' = FALSE /\ To("root")
     \/ UNCHANGED task /\ ToWithError("root")
  /\ UNCHANGED <<reg, svc, svcSids, rootVars, gc, bootVars>>

\* Made beside the fixed name and renamed onto it; what was there is renamed
\* away, its children with it.
NewRoot ==
  /\ made < MaxRoots
  /\ made' = made + 1 /\ root' = made + 1 /\ files' = {}

\* write_root_provenance
Record == prov' = root

\* create_or_harden_machine: a root whose identity is not the recorded one is
\* renamed away, a new one is published under the fixed name.
TrustRoot ==
  /\ InstAt("root") /\ RootFree
  /\ IF Trusted THEN UNCHANGED <<root, made, files>> ELSE NewRoot
  /\ Hardened /\ To("handoff")
  /\ UNCHANGED <<scmVars, prov, conf, lease, stale, gc, bootVars>>

\* The operational handle, then the provenance; only now is the task's error one.
RecordRoot ==
  /\ InstAt("handoff") /\ RootFree
  /\ lease' = (IF inst.err THEN "none" ELSE "inst") /\ Record
  /\ IF inst.err THEN inst' = Idle ELSE To("fill")
  /\ UNCHANGED <<scmVars, root, made, files, conf, logs, stale, gc, bootVars>>

\* Directories and their policies, the configuration, the image: in this order.
Fill ==
  /\ InstAt("fill")
  /\ files' = files \cup {"index", "logs"} /\ logs' = inst.who
  /\ To("config")
  /\ UNCHANGED <<scmVars, root, made, prov, conf, lease, stale, gc, bootVars>>

\* Mutant: the accounts of the configuration that was there are kept.
WriteConfigMerged ==
  /\ InstAt("config")
  /\ Publish("config") /\ conf' = conf \cup inst.who
  /\ To("image")
  /\ UNCHANGED <<scmVars, root, made, prov, logs, lease, stale, gc, bootVars>>

\* The allowlist is never merged with the one that was there.
WriteConfig ==
  /\ InstAt("config")
  /\ Publish("config") /\ conf' = inst.who
  /\ To("image")
  /\ UNCHANGED <<scmVars, root, made, prov, logs, lease, stale, gc, bootVars>>

CopyImage ==
  /\ InstAt("image") /\ ImageFree
  /\ Publish("exe") /\ taken' = FALSE
  /\ To("register")
  /\ UNCHANGED <<scmVars, root, made, prov, conf, logs, lease, stale, gc, pending, boots>>

\* Mutant: the service is created startable, as its final start type is.
RegisterStartable ==
  /\ InstAt("register") /\ reg.is = "none"
  /\ reg' = [is |-> "live", start |-> "demand", dacl |-> {}]
  /\ To("gctask")
  /\ UNCHANGED <<task, svc, svcSids, rootVars, gc, bootVars>>

\* Created disabled; a marked predecessor is an error.
Register ==
  /\ InstAt("register") /\ reg.is = "none"
  /\ reg' = [is |-> "live", start |-> "disabled", dacl |-> {}]
  /\ To("gctask")
  /\ UNCHANGED <<task, svc, svcSids, rootVars, gc, bootVars>>

GcTask ==
  /\ InstAt("gctask")
  /\ task' = GcEnabled
  /\ To("grant")
  /\ UNCHANGED <<reg, svc, svcSids, rootVars, gc, bootVars>>

\* set_service_handle_security, read back.
Grant ==
  /\ InstAt("grant")
  /\ reg' = [reg EXCEPT !.dacl = inst.who]
  /\ To("commit")
  /\ UNCHANGED <<task, svc, svcSids, rootVars, gc, bootVars>>

\* The last operation makes the service startable.
Commit ==
  /\ InstAt("commit")
  /\ reg' = [reg EXCEPT !.start = "demand"]
  /\ To("installed")
  /\ UNCHANGED <<task, svc, svcSids, rootVars, gc, bootVars>>

\* A failure before the commit takes the task and the service back, as far as
\* that works; the data stays for a retry.
RollBack ==
  /\ inst.at \in {"gctask", "grant", "commit"}
  /\ task' \in {task, FALSE}
  /\ reg' \in {reg, [reg EXCEPT !.is = "marked"]}
  /\ inst' = Idle /\ Release("inst")
  /\ UNCHANGED <<svc, svcSids, root, made, prov, files, conf, logs, stale, gc, bootVars>>

\* install returns, which drops the root; restart_service follows.
Installed ==
  /\ InstAt("installed")
  /\ Release("inst") /\ To("restart")
  /\ UNCHANGED <<scmVars, root, made, prov, files, conf, logs, stale, gc, bootVars>>

RestartStop ==
  /\ InstAt("restart")
  /\ StopIfRunning /\ To("restart wait")
  /\ UNCHANGED <<reg, task, svcSids, rootVars, gc, bootVars>>

RestartStart ==
  /\ InstAt("restart wait") /\ svc = "stopped"
  /\ svc' = IF Startable /\ "exe" \in files THEN "starting" ELSE svc
  /\ inst' = Idle
  /\ UNCHANGED <<reg, task, svcSids, rootVars, gc, bootVars>>

----------------------------------------------------------------------------
(***************************************************************************)
(* uninstall, with or without the data.                                    *)
(***************************************************************************)
Deregister ==
  /\ InstAt("deregister")
  /\ MarkOr(To("stop"), To("untask"))
  /\ UNCHANGED <<task, svc, svcSids, rootVars, gc, bootVars>>

DropTask ==
  /\ InstAt("untask")
  /\ task' = FALSE /\ To("open")
  /\ UNCHANGED <<reg, svc, svcSids, rootVars, gc, bootVars>>

\* A missing root is fine, an untrusted or leased one an error.
OpenToRemove ==
  /\ InstAt("open")
  /\ \/ root = Absent /\ inst' = Idle /\ UNCHANGED logs
     \/ Trusted /\ RootFree /\ Hardened /\ To("reopen")
  /\ UNCHANGED <<scmVars, root, made, prov, files, conf, lease, stale, gc, bootVars>>

ReopenToRemove ==
  /\ InstAt("reopen") /\ RootFree /\ Trusted
  /\ lease' = "inst" /\ To("remove")
  /\ UNCHANGED <<scmVars, root, made, prov, files, conf, logs, stale, gc, bootVars>>

\* Only the image, or everything one object at a time and the root last.
Remove ==
  /\ InstAt("remove")
  /\ IF inst.cmd = "uninstall"
     THEN /\ "exe" \in files => ImageFree
          /\ Erase({"exe"}) /\ inst' = Idle /\ Release("inst") /\ UNCHANGED root
     ELSE \/ \E f \in Entries : (f = "exe" => ImageFree) /\ Erase({f}) /\ UNCHANGED <<root, inst, lease>>
          \/ /\ files = {} /\ root' = Absent
             /\ inst' = Idle /\ Release("inst") /\ UNCHANGED files
  /\ UNCHANGED <<scmVars, made, prov, conf, logs, stale, gc, bootVars>>

----------------------------------------------------------------------------
(***************************************************************************)
(* gc: the daily task.                                                     *)
(***************************************************************************)
GcTo(at) == gc' = at

GcEnds ==
  /\ gc # "idle"
  /\ gc' = "idle" /\ Release("gc")
  /\ UNCHANGED <<scmVars, root, made, prov, files, conf, logs, stale, inst, bootVars>>

GcBegins ==
  /\ task /\ gc = "idle" /\ "exe" \in files /\ ~Active
  /\ GcTo("open")
  /\ UNCHANGED <<scmVars, rootVars, inst, bootVars>>

GcOpen ==
  /\ gc = "open" /\ RootFree /\ Trusted
  /\ Hardened /\ GcTo("handoff")
  /\ UNCHANGED <<scmVars, root, made, prov, files, conf, lease, stale, inst, bootVars>>

\* Mutant: the collection decides without the root's lease.
GcReopenUnleased ==
  /\ gc = "handoff" /\ Trusted
  /\ GcTo("decide")
  /\ UNCHANGED <<scmVars, rootVars, inst, bootVars>>

GcReopen ==
  /\ gc = "handoff" /\ RootFree /\ Trusted
  /\ lease' = "gc" /\ GcTo("decide")
  /\ UNCHANGED <<scmVars, root, made, prov, files, conf, logs, stale, inst, bootVars>>

\* A valid configuration, an old stamp, and a service that is not active.
GcDecide ==
  /\ gc = "decide" /\ ConfigValid /\ Unused /\ ~Active
  /\ GcTo("mark")
  /\ UNCHANGED <<scmVars, rootVars, inst, bootVars>>

GcMark ==
  /\ gc = "mark"
  /\ MarkOr(GcTo("stop"), GcTo("task"))
  /\ UNCHANGED <<task, svc, svcSids, rootVars, inst, bootVars>>

GcStop ==
  /\ gc = "stop"
  /\ StopIfRunning /\ GcTo("wait")
  /\ UNCHANGED <<reg, task, svcSids, rootVars, inst, bootVars>>

GcWaited ==
  /\ gc = "wait" /\ svc = "stopped"
  /\ GcTo("task")
  /\ UNCHANGED <<scmVars, rootVars, inst, bootVars>>

GcDropTask ==
  /\ gc = "task"
  /\ task' = FALSE /\ GcTo("data")
  /\ UNCHANGED <<reg, svc, svcSids, rootVars, inst, bootVars>>

\* Mutant: the stamp is forgotten.
GcRemoveData ==
  /\ gc = "data"
  /\ Erase(Data)
  /\ GcTo("pend")
  /\ UNCHANGED <<scmVars, root, made, prov, conf, logs, lease, stale, inst, bootVars>>

\* index, logs, service.json, last_use, in this order, each of which may fail.
GcRemove ==
  /\ gc = "data"
  /\ \E fs \in {{"index"}, {"index", "logs"}, Data, Data \cup {"stamp"}} : Erase(fs)
  /\ GcTo(IF files' \cap (Data \cup {"stamp"}) = {} THEN "pend" ELSE "data")
  /\ UNCHANGED <<scmVars, root, made, prov, conf, logs, lease, stale, inst, bootVars>>

GcPend ==
  /\ gc = "pend"
  /\ pending' \in {{"exe"}, {"exe", "dir"}}
  /\ gc' = "idle" /\ Release("gc")
  /\ UNCHANGED <<scmVars, root, made, prov, files, conf, logs, stale, inst, boots, taken>>

----------------------------------------------------------------------------
\* The machine restarts: processes are gone, a marked service with them, and
\* the paths a collection left are deleted, the directory if it is empty.
Boot ==
  /\ boots < MaxBoots
  /\ boots' = boots + 1
  /\ reg' = IF reg.is = "marked" THEN NoReg ELSE reg
  /\ svc' = "stopped" /\ svcSids' = {} /\ inst' = Idle /\ gc' = "idle" /\ lease' = "none"
  /\ files' = IF "exe" \in pending THEN files \ {"exe"} ELSE files
  /\ root' = IF "dir" \in pending /\ files' = {} THEN Absent ELSE root
  /\ pending' = {}
  /\ taken' = (taken \/ ("exe" \in pending /\ reg.is = "live"))
  /\ UNCHANGED <<task, made, prov, conf, logs, stale>>

InstStep ==
  \/ Retire \/ Mark \/ Stop \/ Waited \/ DropOldTask \/ TrustRoot \/ RecordRoot
  \/ Fill \/ WriteConfig \/ CopyImage \/ Register \/ GcTask \/ Grant \/ Commit
  \/ Installed \/ RestartStop \/ RestartStart
  \/ Deregister \/ DropTask \/ OpenToRemove \/ ReopenToRemove \/ Remove

GcStep == \/ GcOpen \/ GcReopen \/ GcDecide \/ GcMark \/ GcStop \/ GcWaited
          \/ GcDropTask \/ GcRemove \/ GcPend

SvcStep == SvcOpen \/ SvcReopen \/ SvcRun

Next ==
  \/ Command("setup", "retire") \/ Command("uninstall", "deregister")
  \/ Command("purge", "deregister")
  \/ InstStep \/ InstEnds \/ RollBack
  \/ GcBegins \/ GcStep \/ GcEnds
  \/ Start \/ SvcStep \/ SvcStopAsked \/ SvcStamp \/ SvcEnds \/ Vanish
  \/ Ages \/ Boot

Spec == Init /\ [][Next]_vars

----------------------------------------------------------------------------
(***************************************************************************)
(* Properties                                                              *)
(***************************************************************************)
Children == Data \cup {"exe", "stamp"}
HoldsRoot == {"fill", "config", "image", "register", "gctask", "grant", "commit",
              "installed", "remove"}

\* Variables stay in their domains and the lease belongs to a process that is
\* at a step that holds the root.
TypeOK ==
  /\ reg.is \in {"none", "live", "marked"} /\ reg.start \in {"disabled", "demand"}
  /\ task \in BOOLEAN /\ root \in 0..made /\ made <= MaxRoots
  /\ files \subseteq Children /\ (root = Absent => files = {})
  /\ {conf, logs, svcSids, reg.dacl, inst.who} \subseteq SUBSET Accounts
  /\ lease = "inst" <=> inst.at \in HoldsRoot
  /\ lease = "gc" => gc \in {"decide", "mark", "stop", "wait", "task", "data", "pend"}
  /\ lease = "svc" <=> svc \in {"rooted", "running", "stopping"}

\* The commit point of setup: whatever failed, was killed or ran at the same
\* time, a service that can be started has its trusted root, its
\* configuration, its image and its collection task, and who may start it is
\* who may connect to it.  (Except where taken says that a boot
\* deleted the image a collection had asked it to, after a setup replaced it.)
StartableIsComplete ==
  Startable /\ ~taken => /\ Trusted /\ Data \cup {"exe"} \subseteq files
                         /\ task = GcEnabled /\ reg.dacl = conf /\ conf # {}

\* A service runs only over a root that is trusted and that it alone holds; the
\* accounts it admits are those of the configuration on disk and of the last
\* setup, which alone may start it and read its logs.
RunsOnlyTrusted ==
  svc = "running" => /\ Trusted /\ lease = "svc" /\ "config" \in files
                     /\ svcSids = conf /\ logs = conf
                     /\ reg.is # "none" => reg.dacl \in {conf, {}}

\* From the retirement of the old service to the commit no service process runs
\* and none can be started, whoever asks.
QuietMaintenance ==
  (inst.cmd = "setup" /\ inst.at \in {"task", "root", "handoff", "fill", "config", "image",
                                      "register", "gctask", "grant", "commit"})
    => svc = "stopped" /\ ~Startable

\* The collection never takes a running service away, though it asks the SCM
\* before and a start may come in between.
GcSparesRunning ==
  [][gc = "mark" /\ gc' = "stop" => svc # "running"]_vars

\* A collection that ends well leaves nothing but its own image, which the next
\* boot deletes: no service, no task, no data.
GcLeavesNothing ==
  gc = "pend" => files \subseteq {"exe"} /\ ~task /\ reg.is # "live"

\* Whatever a command was interrupted by, it leaves the machine in a state it may
\* be found in: a service that starts is complete, none starts in the middle of
\* setup, and a collected one is gone.
CommandsComplete == TypeOK /\ StartableIsComplete /\ QuietMaintenance /\ GcLeavesNothing
==============================================================================
