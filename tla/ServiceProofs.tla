---------------------------- MODULE ServiceProofs ----------------------------
(***************************************************************************)
(* Proofs about the service on its machine (Installation), for any         *)
(* accounts, root objects and reboots, and about its process (ServiceHost),*)
(* for any finite number of connections, any number of pipe instances and  *)
(* any queue capacity.                                                     *)
(*                                                                         *)
(* Three processes change the machine, and what keeps them apart is the    *)
(* lease on the root: only its holder writes under the root, and a setup   *)
(* or a collection does its dangerous part while it holds it.  The first   *)
(* inductive invariant says which steps hold the lease, that the root is   *)
(* trusted while anyone does, and what each command has already done at    *)
(* each of its steps.                                                      *)
(*                                                                         *)
(* The teardown of the process is quiet because it joins in order: the     *)
(* accept thread first, after which no connection can appear, then the     *)
(* threads of the connections, each of which Spawn recorded as it started  *)
(* it.  The event queue keeps the newest event because it loses its oldest.*)
(***************************************************************************)
EXTENDS Installation, ServiceHost, Integers, FiniteSetTheorems, SequenceTheorems, TLAPS
----------------------------------------------------------------------------
(***************************************************************************)
(* The service on its machine.                                             *)
(***************************************************************************)
SetupSteps ==
  {"retire", "mark", "stop", "wait", "task", "root", "handoff", "fill", "config", "image",
   "register", "gctask", "grant", "commit", "installed", "restart", "restart wait"}
RemovalSteps == {"deregister", "stop", "wait", "untask", "open", "reopen", "remove"}
GcSteps == {"idle", "open", "handoff", "decide", "mark", "stop", "wait", "task", "data", "pend"}
SvcSteps == {"stopped", "starting", "handoff", "rooted", "running", "stopping"}

Statuses == {"none", "live", "marked"}
RegRec == [is : Statuses, start : {"disabled", "demand"}, dacl : SUBSET Accounts]

\* Who may hold the root, and at which of their steps they do.
GcHolds == {"decide", "mark", "stop", "wait", "task", "data", "pend"}
SvcHolds == {"rooted", "running", "stopping"}

\* Steps of setup between the retirement of the old service and the new one's
\* commit, and the part of them that follows the wait for the old process.
Retired == {"mark", "stop", "wait", "task", "root", "handoff", "fill", "config", "image",
            "register", "gctask", "grant", "commit"}
Quiet == Retired \ {"mark", "stop", "wait"}

\* A command is such a record, whatever its step.
CommandType ==
  /\ inst = [cmd |-> inst.cmd, at |-> inst.at, err |-> inst.err, who |-> inst.who]
  /\ inst.err \in BOOLEAN /\ inst.who \in SUBSET Accounts

Types ==
  /\ reg \in RegRec /\ task \in BOOLEAN
  /\ svc \in SvcSteps /\ svcSids \in SUBSET Accounts
  /\ root \in Nat /\ made \in Nat /\ root <= made /\ made <= MaxRoots /\ prov \in Nat
  /\ files \in SUBSET Children /\ conf \in SUBSET Accounts /\ logs \in SUBSET Accounts
  /\ lease \in {"none", "svc", "inst", "gc"}
  /\ CommandType /\ gc \in GcSteps
  /\ pending \in {{}, {"exe"}, {"exe", "dir"}}
  /\ taken \in BOOLEAN

\* A command is at a step of its own.
CommandInv ==
  /\ inst.cmd \in {"none", "setup", "uninstall", "purge"}
  /\ inst.cmd = "none" => inst.at = "idle"
  /\ inst.cmd = "setup" => inst.at \in SetupSteps /\ inst.who # {}
  /\ inst.cmd \in {"uninstall", "purge"} => inst.at \in RemovalSteps

\* The lease is held at exactly the steps that believe they hold it.
LeaseInv ==
  /\ lease = "inst" <=> inst.at \in HoldsRoot
  /\ lease = "gc" <=> gc \in GcHolds
  /\ lease = "svc" <=> svc \in SvcHolds

\* Who holds the root holds a trusted one.
TrustInv ==
  /\ lease # "none" => Trusted
  /\ inst.at = "handoff" => root # Absent
  /\ root = Absent => files = {}

\* What is registered while a command or a collection is at work.
RegInv ==
  /\ reg.is = "none" => reg = NoReg /\ svc = "stopped"
  /\ inst.cmd = "setup" /\ inst.at \in Retired => reg.start = "disabled"
  /\ inst.cmd = "setup" /\ inst.at \in Quiet => svc = "stopped"
  /\ inst.cmd # "setup" /\ inst.at \in RemovalSteps \ {"deregister"} => reg.is # "live"
  /\ inst.at \in {"gctask", "grant", "commit"} => reg.is = "live"
  /\ gc \in {"stop", "wait", "task", "data", "pend"} => reg.is # "live"

\* Who may start the service may connect to it: setup empties the one list before
\* it replaces the other.
AccountInv ==
  /\ reg.dacl \in {conf, {}}
  /\ inst.cmd = "setup" /\ inst.at \in Retired \ {"commit"} => reg.dacl = {}
  /\ inst.at = "commit" => reg.dacl = inst.who

\* What setup has put in place so far.
FillInv ==
  /\ inst.at \in {"config", "image", "register", "gctask", "grant", "commit"} =>
       {"index", "logs"} \subseteq files
  /\ inst.at \in {"image", "register", "gctask", "grant", "commit"} =>
       "config" \in files /\ conf = inst.who
  /\ inst.at \in {"register", "gctask", "grant", "commit"} => "exe" \in files
  /\ inst.at \in {"grant", "commit"} => task = GcEnabled

\* A running service and the configuration it has read.
RunInv ==
  svc = "running" => "config" \in files /\ svcSids = conf /\ logs = conf

\* What a collection has already taken away.
CollectInv ==
  /\ gc \in {"data", "pend"} => ~task
  /\ gc = "pend" => files \subseteq {"exe"}

InstallInv ==
  /\ Types
  /\ CommandInv
  /\ LeaseInv
  /\ TrustInv
  /\ RegInv
  /\ AccountInv
  /\ FillInv
  /\ RunInv
  /\ CollectInv
  /\ StartableIsComplete

\* A command begins with nothing done and nothing in error.
Begins == \/ Command("setup", "retire") \/ Command("uninstall", "deregister")
          \/ Command("purge", "deregister")

\* The first step of a command.
LEMMA BeginMoves ==
  ASSUME Begins
  PROVE  /\ CommandType' /\ inst.at = "idle"
         /\ \/ inst'.cmd = "setup" /\ inst'.at = "retire" /\ inst'.who # {}
            \/ inst'.cmd \in {"uninstall", "purge"} /\ inst'.at = "deregister"
         /\ UNCHANGED <<reg, task, svc, svcSids, root, made, prov, files, conf, logs, lease,
                        stale, gc, pending, boots, taken>>
<1>1. ASSUME NEW cmd, NEW at, NEW who \in SUBSET Accounts,
             inst' = [Idle EXCEPT !.cmd = cmd, !.at = at, !.who = who]
      PROVE  CommandType' /\ inst'.cmd = cmd /\ inst'.at = at /\ inst'.who = who
  <2>1. inst' = [cmd |-> cmd, at |-> at, err |-> FALSE, who |-> who]
    BY <1>1 DEF Idle
  <2> QED BY <2>1, <1>1 DEF CommandType
<1>2. Identities \subseteq SUBSET Accounts /\ {} \notin Identities
  BY DEF Identities
<1>6. {} \in SUBSET Accounts
  OBVIOUS
<1>3. CASE Command("setup", "retire")
  <2>1. PICK who \in Identities :
          inst' = [Idle EXCEPT !.cmd = "setup", !.at = "retire", !.who = who]
    BY <1>3 DEF Command
  <2>2. CommandType' /\ inst'.cmd = "setup" /\ inst'.at = "retire" /\ inst'.who = who
    BY <1>1, <1>2, <2>1
  <2> QED BY <1>2, <1>3, <2>2 DEF Command, Idle, scmVars, rootVars, bootVars
<1>4. CASE Command("uninstall", "deregister")
  <2>1. inst' = [Idle EXCEPT !.cmd = "uninstall", !.at = "deregister", !.who = {}]
    BY <1>4 DEF Command
  <2>2. CommandType' /\ inst'.cmd = "uninstall" /\ inst'.at = "deregister"
    BY <1>1, <1>6, <2>1
  <2> QED BY <1>4, <2>2 DEF Command, Idle, scmVars, rootVars, bootVars
<1>5. CASE Command("purge", "deregister")
  <2>1. inst' = [Idle EXCEPT !.cmd = "purge", !.at = "deregister", !.who = {}]
    BY <1>5 DEF Command
  <2>2. CommandType' /\ inst'.cmd = "purge" /\ inst'.at = "deregister"
    BY <1>1, <1>6, <2>1
  <2> QED BY <1>5, <2>2 DEF Command, Idle, scmVars, rootVars, bootVars
<1> QED BY <1>3, <1>4, <1>5 DEF Begins

\* A command goes to its next step, and may remember an error there.
LEMMA ToMoves ==
  ASSUME CommandType, NEW at, To(at)
  PROVE  CommandType' /\ inst'.at = at /\ UNCHANGED <<inst.cmd, inst.err, inst.who>>
BY DEF CommandType, To

\* The same, with the error remembered.
LEMMA ErrMoves ==
  ASSUME CommandType, NEW at, ToWithError(at)
  PROVE  CommandType' /\ inst'.at = at /\ inst'.err /\ UNCHANGED <<inst.cmd, inst.who>>
<1>1. inst' = [cmd |-> inst.cmd, at |-> at, err |-> TRUE, who |-> inst.who]
  BY DEF CommandType, ToWithError
<1> QED BY <1>1 DEF CommandType

\* A command ends.
LEMMA IdleMoves ==
  ASSUME inst' = Idle
  PROVE  /\ CommandType'
         /\ inst'.at = "idle" /\ inst'.cmd = "none" /\ inst'.err = FALSE /\ inst'.who = {}
BY DEF CommandType, Idle

\* The identity of a new root is not that of no root.
LEMMA NewIdentity == ASSUME NEW m \in Nat PROVE m + 1 # Absent
BY DEF Absent

\* An edit of the registration, or its removal.
LEMMA RegEdit ==
  ASSUME reg \in RegRec
  PROVE  /\ NoReg \in RegRec
         /\ \A start \in {"disabled", "demand"}, dacl \in SUBSET Accounts :
              /\ [reg EXCEPT !.is = "marked"] \in RegRec
              /\ [reg EXCEPT !.start = start] \in RegRec
              /\ [reg EXCEPT !.dacl = dacl] \in RegRec
              /\ [reg EXCEPT !.start = start, !.dacl = dacl] \in RegRec
              /\ [is |-> "live", start |-> start, dacl |-> dacl] \in RegRec
<1> DEFINE Starts == {"disabled", "demand"}
           Regs == [is : Statuses, start : Starts, dacl : SUBSET Accounts]
<1>1. {"none", "live", "marked"} \subseteq Statuses /\ "disabled" \in Starts
  BY DEF Statuses
<1>2. reg \in Regs
  BY DEF RegRec
<1> HIDE DEF Starts
<1>3. NoReg \in Regs
  BY <1>1 DEF NoReg
<1>4. ASSUME NEW start \in Starts, NEW dacl \in SUBSET Accounts
      PROVE  /\ [reg EXCEPT !.is = "marked"] \in Regs
             /\ [reg EXCEPT !.start = start] \in Regs
             /\ [reg EXCEPT !.dacl = dacl] \in Regs
             /\ [reg EXCEPT !.start = start, !.dacl = dacl] \in Regs
             /\ [is |-> "live", start |-> start, dacl |-> dacl] \in Regs
  BY <1>1, <1>2, <1>4
<1> QED BY <1>3, <1>4 DEF RegRec, Starts

\* The registration stays one.
LEMMA RegType ==
  ASSUME Types, [Next]_vars
  PROVE  reg' \in RegRec
<1>0. reg \in RegRec /\ inst.who \in SUBSET Accounts
  BY DEF Types, CommandType
<1>1. CASE Begins
  BY <1>0, <1>1, BeginMoves
<1>2. CASE Retire \/ Mark
  BY <1>0, <1>2, RegEdit DEF Retire, InstAt, rootVars, bootVars, Mark
<1>3. CASE Register \/ Grant \/ Commit
  BY <1>0, <1>3, RegEdit DEF Register, InstAt, rootVars, bootVars, Grant, Commit
<1>4. CASE Deregister \/ GcMark
  BY <1>0, <1>4, RegEdit DEF Deregister, InstAt, MarkOr, rootVars, bootVars, GcMark, GcTo
<1>5. CASE RollBack \/ Vanish \/ Boot
  BY <1>0, <1>5, RegEdit DEF RollBack, Release, bootVars, Vanish, rootVars, NoReg, Boot
<1>6. CASE Stop \/ Waited \/ DropOldTask \/ TrustRoot \/ RecordRoot \/ Fill \/ WriteConfig
           \/ CopyImage \/ GcTask \/ Installed \/ RestartStop \/ RestartStart \/ DropTask
           \/ OpenToRemove \/ ReopenToRemove \/ Remove \/ InstEnds \/ GcBegins \/ GcOpen
           \/ GcReopen \/ GcDecide \/ GcStop \/ GcWaited \/ GcDropTask \/ GcRemove \/ GcPend
           \/ GcEnds \/ Start \/ SvcOpen \/ SvcReopen \/ SvcRun \/ SvcStopAsked \/ SvcStamp
           \/ SvcEnds \/ Ages
  BY <1>0, <1>6 DEF Stop, Waited, DropOldTask, TrustRoot, RecordRoot, Fill, WriteConfig,
     CopyImage, GcTask, Installed, RestartStop, RestartStart, DropTask, OpenToRemove,
     ReopenToRemove, Remove, InstEnds, GcBegins, GcOpen, GcReopen, GcDecide, GcStop,
     GcWaited, GcDropTask, GcRemove, GcPend, GcEnds, Start, SvcOpen, SvcReopen, SvcRun,
     SvcStopAsked, SvcStamp, SvcEnds, Ages, scmVars, rootVars, bootVars
<1>7. CASE UNCHANGED vars
  BY <1>0, <1>7 DEF vars, scmVars, rootVars, bootVars
<1> QED BY <1>1, <1>2, <1>3, <1>4, <1>5, <1>6, <1>7
        DEF Begins, Next, InstStep, GcStep, SvcStep

\* The command stays one.
LEMMA InstType ==
  ASSUME Types, [Next]_vars
  PROVE  CommandType'
<1>0. CommandType
  BY DEF Types
<1>1. CASE Begins
  BY <1>0, <1>1, BeginMoves
<1>2. CASE Retire \/ Mark \/ Stop \/ Waited \/ DropOldTask \/ TrustRoot
  BY <1>0, <1>2, ToMoves, ErrMoves
     DEF Retire, Mark, Stop, Waited, DropOldTask, TrustRoot
<1>3. CASE RecordRoot \/ InstEnds \/ RollBack \/ RestartStart \/ Boot
  BY <1>0, <1>3, ToMoves, IdleMoves DEF RecordRoot, InstEnds, RollBack, RestartStart, Boot
<1>4. CASE Fill \/ WriteConfig \/ CopyImage \/ Register \/ GcTask \/ Grant \/ Commit
           \/ Installed \/ RestartStop
  BY <1>0, <1>4, ToMoves
     DEF Fill, WriteConfig, CopyImage, Register, GcTask, Grant, Commit, Installed, RestartStop
<1>5. CASE Deregister \/ DropTask \/ ReopenToRemove
  BY <1>0, <1>5, ToMoves DEF Deregister, MarkOr, DropTask, ReopenToRemove
<1>6. CASE OpenToRemove \/ Remove
  <2>1. To("reopen") \/ inst' = Idle \/ UNCHANGED inst
    BY <1>6 DEF OpenToRemove, Remove
  <2>2. CASE UNCHANGED inst
    BY <1>0, <2>2 DEF CommandType
  <2> QED BY <1>0, <2>1, <2>2, ToMoves, IdleMoves
<1>7. CASE GcBegins \/ GcOpen \/ GcReopen \/ GcDecide \/ GcMark \/ GcStop \/ GcWaited
           \/ GcDropTask \/ GcRemove \/ GcPend \/ GcEnds \/ Start \/ SvcOpen \/ SvcReopen
           \/ SvcRun \/ SvcStopAsked \/ SvcStamp \/ SvcEnds \/ Vanish \/ Ages
  BY <1>0, <1>7 DEF GcBegins, GcOpen, GcReopen, GcDecide, GcMark, GcStop, GcWaited,
     GcDropTask, GcRemove, GcPend, GcEnds, Start, SvcOpen, SvcReopen, SvcRun, SvcStopAsked,
     SvcStamp, SvcEnds, Vanish, Ages, scmVars, rootVars, bootVars, CommandType
<1>8. CASE UNCHANGED vars
  BY <1>0, <1>8 DEF vars, CommandType
<1> QED BY <1>1, <1>2, <1>3, <1>4, <1>5, <1>6, <1>7, <1>8
        DEF Begins, Next, InstStep, GcStep, SvcStep

\* The service process, the task and the collection stay at their steps.
LEMMA ServiceType ==
  ASSUME Types, [Next]_vars
  PROVE  /\ svc' \in SvcSteps /\ svcSids' \in SUBSET Accounts /\ task' \in BOOLEAN
         /\ gc' \in GcSteps
<1>0. /\ svc \in SvcSteps /\ svcSids \in SUBSET Accounts /\ task \in BOOLEAN
      /\ gc \in GcSteps /\ conf \in SUBSET Accounts
  BY InstallationAssumption DEF Types
<1> USE DEF SvcSteps, GcSteps
<1>1. CASE Begins
  BY <1>0, <1>1, BeginMoves
<1>2. CASE Start \/ SvcOpen \/ SvcReopen \/ SvcRun \/ SvcStopAsked \/ SvcEnds
  BY <1>0, <1>2 DEF Start, Startable, rootVars, bootVars, SvcOpen, Hardened, RootFree,
     Trusted, SvcReopen, SvcRun, ConfigValid, SvcStopAsked, SvcEnds, Release
<1>3. CASE Stop \/ RestartStop \/ RestartStart
  BY <1>0, <1>3 DEF Stop, InstAt, StopIfRunning, rootVars, bootVars, RestartStop,
     RestartStart, Startable
<1>4. CASE DropOldTask \/ GcTask \/ DropTask \/ RollBack \/ Boot
  BY <1>0, <1>4, InstallationAssumption
     DEF DropOldTask, InstAt, rootVars, bootVars, GcTask, DropTask, RollBack,
     Release, Boot, NoReg
<1>5. CASE GcBegins \/ GcOpen \/ GcReopen \/ GcDecide \/ GcMark \/ GcStop
  BY <1>0, <1>5 DEF GcBegins, GcTo, Active, scmVars, rootVars, bootVars, GcOpen, Hardened,
     RootFree, Trusted, GcReopen, GcDecide, ConfigValid, Unused, GcMark, MarkOr, GcStop,
     StopIfRunning
<1>6. CASE GcWaited \/ GcDropTask \/ GcRemove \/ GcPend \/ GcEnds
  BY <1>0, <1>6 DEF GcWaited, GcTo, scmVars, rootVars, bootVars, GcDropTask, GcRemove,
     Erase, Data, GcPend, Release, GcEnds
<1>7. CASE Retire \/ Mark \/ Waited \/ TrustRoot \/ RecordRoot \/ Fill \/ WriteConfig
           \/ CopyImage \/ Register \/ Grant \/ Commit \/ Installed \/ Deregister
           \/ OpenToRemove \/ ReopenToRemove \/ Remove \/ InstEnds \/ SvcStamp \/ Vanish
           \/ Ages
  BY <1>0, <1>7 DEF Retire, Mark, Waited, TrustRoot, RecordRoot, Fill, WriteConfig,
     CopyImage, Register, Grant, Commit, Installed, Deregister, OpenToRemove,
     ReopenToRemove, Remove, InstEnds, SvcStamp, Vanish, Ages, scmVars, rootVars, bootVars
<1>8. CASE UNCHANGED vars
  BY <1>0, <1>8 DEF vars, scmVars, rootVars, bootVars
<1> QED BY <1>1, <1>2, <1>3, <1>4, <1>5, <1>6, <1>7, <1>8
        DEF Begins, Next, InstStep, GcStep, SvcStep

\* The root, its identity and what is under it.
LEMMA RootType ==
  ASSUME Types, [Next]_vars
  PROVE  /\ root' \in Nat /\ made' \in Nat /\ root' <= made' /\ made' <= MaxRoots
         /\ prov' \in Nat
<1>0. /\ root \in Nat /\ made \in Nat /\ root <= made /\ made <= MaxRoots
      /\ prov \in Nat /\ MaxRoots \in Nat
  BY InstallationAssumption DEF Types
<1> USE DEF Absent
<1>1. CASE Begins
  BY <1>0, <1>1, BeginMoves
<1>2. CASE TrustRoot
  BY <1>0, <1>2 DEF TrustRoot, InstAt, Hardened, NewRoot, RootFree, Trusted, scmVars,
     bootVars
<1>3. CASE RecordRoot
  BY <1>0, <1>3 DEF RecordRoot, InstAt, Record, RootFree, scmVars, bootVars
<1>4. CASE Remove \/ Boot
  BY <1>0, <1>4 DEF Remove, InstAt, ImageFree, Release, Erase, Entries, scmVars, bootVars,
     Boot, NoReg
<1>5. CASE Retire \/ Mark \/ Stop \/ Waited \/ DropOldTask \/ Fill \/ WriteConfig
           \/ CopyImage \/ Register \/ GcTask \/ Grant \/ Commit \/ Installed \/ RestartStop
           \/ RestartStart \/ Deregister \/ DropTask \/ OpenToRemove \/ ReopenToRemove
           \/ InstEnds \/ RollBack \/ GcBegins \/ GcOpen \/ GcReopen \/ GcDecide \/ GcMark
           \/ GcStop \/ GcWaited \/ GcDropTask \/ GcRemove \/ GcPend \/ GcEnds \/ Start
           \/ SvcOpen \/ SvcReopen \/ SvcRun \/ SvcStopAsked \/ SvcStamp \/ SvcEnds
           \/ Vanish \/ Ages
  BY <1>0, <1>5 DEF Retire, Mark, Stop, Waited, DropOldTask, Fill, WriteConfig, CopyImage,
     Register, GcTask, Grant, Commit, Installed, RestartStop, RestartStart, Deregister,
     DropTask, OpenToRemove, ReopenToRemove, InstEnds, RollBack, GcBegins, GcOpen, GcReopen,
     GcDecide, GcMark, GcStop, GcWaited, GcDropTask, GcRemove, GcPend, GcEnds, Start,
     SvcOpen, SvcReopen, SvcRun, SvcStopAsked, SvcStamp, SvcEnds, Vanish, Ages, scmVars,
     rootVars, bootVars
<1>6. CASE UNCHANGED vars
  BY <1>0, <1>6 DEF vars, scmVars, rootVars, bootVars
<1> QED BY <1>1, <1>2, <1>3, <1>4, <1>5, <1>6
        DEF Begins, Next, InstStep, GcStep, SvcStep

\* What is under the root, and for whom.
LEMMA DataType ==
  ASSUME Types, [Next]_vars
  PROVE  /\ files' \in SUBSET Children
         /\ conf' \in SUBSET Accounts /\ logs' \in SUBSET Accounts
<1>0. /\ files \in SUBSET Children
      /\ conf \in SUBSET Accounts /\ logs \in SUBSET Accounts /\ inst.who \in SUBSET Accounts
      /\ \A f \in {"index", "logs", "config", "exe", "stamp"} : f \in Children
  BY DEF Types, CommandType, Children, Data
<1>1. CASE Begins
  BY <1>0, <1>1, BeginMoves
<1>2. CASE TrustRoot \/ Fill \/ WriteConfig \/ CopyImage
  BY <1>0, <1>2 DEF TrustRoot, InstAt, Hardened, NewRoot, RootFree, Trusted, scmVars,
     bootVars, Fill, WriteConfig, Publish, CopyImage, ImageFree
<1>3. CASE Remove \/ Boot \/ GcRemove
  BY <1>0, <1>3 DEF Remove, InstAt, ImageFree, Release, Erase, Entries, scmVars, bootVars,
     Boot, NoReg, GcRemove, GcTo, Data
<1>4. CASE OpenToRemove \/ GcOpen \/ SvcOpen \/ SvcRun \/ SvcStamp
  BY <1>0, <1>4 DEF OpenToRemove, InstAt, Hardened, RootFree, Trusted, scmVars, bootVars,
     GcOpen, GcTo, SvcOpen, SvcRun, ConfigValid, SvcStamp
<1>5. CASE Retire \/ Mark \/ Stop \/ Waited \/ DropOldTask \/ RecordRoot \/ Register
           \/ GcTask \/ Grant \/ Commit \/ Installed \/ RestartStop \/ RestartStart
           \/ Deregister \/ DropTask \/ ReopenToRemove \/ InstEnds \/ RollBack \/ GcBegins
           \/ GcReopen \/ GcDecide \/ GcMark \/ GcStop \/ GcWaited \/ GcDropTask \/ GcPend
           \/ GcEnds \/ Start \/ SvcReopen \/ SvcStopAsked \/ SvcEnds \/ Vanish \/ Ages
  BY <1>0, <1>5 DEF Retire, Mark, Stop, Waited, DropOldTask, RecordRoot, Register, GcTask,
     Grant, Commit, Installed, RestartStop, RestartStart, Deregister, DropTask,
     ReopenToRemove, InstEnds, RollBack, GcBegins, GcReopen, GcDecide, GcMark, GcStop,
     GcWaited, GcDropTask, GcPend, GcEnds, Start, SvcReopen, SvcStopAsked, SvcEnds, Vanish,
     Ages, scmVars, rootVars, bootVars
<1>6. CASE UNCHANGED vars
  BY <1>0, <1>6 DEF vars, scmVars, rootVars, bootVars
<1> QED BY <1>1, <1>2, <1>3, <1>4, <1>5, <1>6
        DEF Begins, Next, InstStep, GcStep, SvcStep

\* The lease, and what the next boot deletes.
LEMMA LeaseType ==
  ASSUME Types, [Next]_vars
  PROVE  /\ lease' \in {"none", "svc", "inst", "gc"}
         /\ pending' \in {{}, {"exe"}, {"exe", "dir"}} /\ taken' \in BOOLEAN
<1>0. /\ lease \in {"none", "svc", "inst", "gc"}
      /\ pending \in {{}, {"exe"}, {"exe", "dir"}} /\ taken \in BOOLEAN
  BY DEF Types
<1>1. CASE Begins
  BY <1>0, <1>1, BeginMoves
<1>2. CASE RecordRoot \/ Installed \/ ReopenToRemove \/ Remove \/ InstEnds \/ RollBack
           \/ CopyImage
  BY <1>0, <1>2 DEF RecordRoot, InstAt, Record, RootFree, scmVars, bootVars, Installed,
     Release, ReopenToRemove, Trusted, Remove, ImageFree, Erase, Entries, InstEnds,
     RollBack, CopyImage, Publish
<1>3. CASE GcReopen \/ GcPend \/ GcEnds \/ SvcReopen \/ SvcEnds
  BY <1>0, <1>3 DEF GcReopen, GcTo, RootFree, Trusted, scmVars, bootVars, GcPend, Release,
     GcEnds, SvcReopen, SvcEnds
<1>4. CASE Boot
  BY <1>0, <1>4 DEF Boot, NoReg
<1>5. CASE Retire \/ Mark \/ Stop \/ Waited \/ DropOldTask \/ TrustRoot \/ Fill
           \/ WriteConfig \/ Register \/ GcTask \/ Grant \/ Commit \/ RestartStop
           \/ RestartStart \/ Deregister \/ DropTask \/ OpenToRemove \/ GcBegins \/ GcOpen
           \/ GcDecide \/ GcMark \/ GcStop \/ GcWaited \/ GcDropTask \/ GcRemove \/ Start
           \/ SvcOpen \/ SvcRun \/ SvcStopAsked \/ SvcStamp \/ Vanish \/ Ages
  BY <1>0, <1>5, ZenonT(60) DEF Retire, Mark, Stop, Waited, DropOldTask, TrustRoot, Fill, WriteConfig,
     Register, GcTask, Grant, Commit, RestartStop, RestartStart, Deregister, DropTask,
     OpenToRemove, GcBegins, GcOpen, GcDecide, GcMark, GcStop, GcWaited, GcDropTask,
     GcRemove, Start, SvcOpen, SvcRun, SvcStopAsked, SvcStamp, Vanish, Ages, scmVars,
     rootVars, bootVars
<1>6. CASE UNCHANGED vars
  BY <1>0, <1>6 DEF vars, scmVars, rootVars, bootVars
<1> QED BY <1>1, <1>2, <1>3, <1>4, <1>5, <1>6
        DEF Begins, Next, InstStep, GcStep, SvcStep

\* Every step keeps the variables in their types.
LEMMA TypesStep == ASSUME Types, [Next]_vars PROVE Types'
BY RegType, InstType, ServiceType, RootType, DataType, LeaseType DEF Types

\* A command only goes where it can go.
LEMMA CommandInvStep ==
  ASSUME Types, CommandInv, [Next]_vars
  PROVE  CommandInv'
<1>0. CommandType
  BY DEF Types
<1> USE <1>0 DEF CommandInv, SetupSteps, RemovalSteps
<1>1. CASE Begins
  BY <1>1, BeginMoves
<1>2. CASE Retire \/ Mark \/ Stop \/ Waited \/ DropOldTask \/ TrustRoot
  BY <1>2, ToMoves, ErrMoves DEF Retire, InstAt, rootVars, bootVars, Mark, Stop,
     StopIfRunning, Waited, scmVars, DropOldTask, TrustRoot, Hardened, NewRoot, RootFree,
     Trusted
<1>3. CASE RecordRoot \/ Fill \/ WriteConfig \/ CopyImage \/ Register
  BY <1>3, ToMoves, IdleMoves DEF RecordRoot, InstAt, Record, RootFree, scmVars, bootVars,
     Fill, WriteConfig, Publish, CopyImage, ImageFree, Register, rootVars
<1>4. CASE GcTask \/ Grant \/ Commit \/ Installed \/ RestartStop \/ RestartStart
  BY <1>4, ToMoves, IdleMoves DEF GcTask, InstAt, rootVars, bootVars, Grant, Commit,
     Installed, Release, scmVars, RestartStop, StopIfRunning, RestartStart, Startable
<1>5. CASE Deregister \/ DropTask \/ OpenToRemove \/ ReopenToRemove \/ Remove
  BY <1>5, ToMoves, IdleMoves DEF Deregister, InstAt, MarkOr, rootVars, bootVars, DropTask,
     OpenToRemove, Hardened, RootFree, Trusted, scmVars, ReopenToRemove, Remove, ImageFree,
     Release, Erase, Entries
<1>6. CASE InstEnds \/ RollBack \/ Boot
  BY <1>6, IdleMoves DEF InstEnds, Release, scmVars, bootVars, RollBack, Boot, NoReg
<1>7. CASE GcBegins \/ GcOpen \/ GcReopen \/ GcDecide \/ GcMark \/ GcStop \/ GcWaited
           \/ GcDropTask \/ GcRemove \/ GcPend \/ GcEnds \/ Start \/ SvcOpen \/ SvcReopen
           \/ SvcRun \/ SvcStopAsked \/ SvcStamp \/ SvcEnds \/ Vanish \/ Ages
  <2>1. UNCHANGED inst
    BY <1>7 DEF GcBegins, GcOpen, GcReopen, GcDecide, GcMark, GcStop, GcWaited, GcDropTask,
       GcRemove, GcPend, GcEnds, Start, SvcOpen, SvcReopen, SvcRun, SvcStopAsked, SvcStamp,
       SvcEnds, Vanish, Ages, scmVars, rootVars, bootVars
  <2> QED BY <2>1
<1>8. CASE UNCHANGED vars
  BY <1>8 DEF vars, scmVars, rootVars, bootVars
<1> QED BY <1>1, <1>2, <1>3, <1>4, <1>5, <1>6, <1>7, <1>8
        DEF Begins, Next, InstStep, GcStep, SvcStep

\* The lease goes to a process whose step is to hold it, and only while it is free.
LEMMA LeaseInvStep ==
  ASSUME Types, CommandInv, LeaseInv, [Next]_vars
  PROVE  LeaseInv'
<1>0. CommandType
  BY DEF Types
<1> USE <1>0 DEF CommandInv, LeaseInv, HoldsRoot, GcHolds, SvcHolds, SetupSteps,
     RemovalSteps, RootFree
<1>1. CASE Begins
  BY <1>1, BeginMoves
<1>2. CASE Start \/ SvcOpen \/ SvcReopen \/ SvcRun \/ SvcStopAsked \/ SvcEnds
  BY <1>2 DEF Start, Startable, rootVars, bootVars, SvcOpen, Hardened, Trusted, SvcReopen,
     SvcRun, ConfigValid, SvcStopAsked, SvcEnds, Release
<1>3. CASE GcBegins \/ GcOpen
  BY <1>3 DEF GcBegins, GcTo, Active, scmVars, rootVars, bootVars, GcOpen, Hardened, Trusted
<1>4. CASE GcReopen \/ GcDecide
  BY <1>4 DEF GcReopen, GcTo, Trusted, scmVars, bootVars, GcDecide, ConfigValid, Unused,
     Active, rootVars
<1>5. CASE GcMark \/ GcStop \/ GcWaited \/ GcDropTask
  BY <1>5 DEF GcMark, GcTo, MarkOr, rootVars, bootVars, GcStop, StopIfRunning, GcWaited,
     scmVars, GcDropTask
<1>6. CASE GcRemove \/ GcPend \/ GcEnds
  BY <1>6 DEF GcRemove, GcTo, Erase, scmVars, bootVars, Data, GcPend, Release, GcEnds
<1>7. CASE Retire
  BY <1>7, ToMoves DEF Retire, InstAt, rootVars, bootVars
<1>8. CASE Mark
  BY <1>8, ToMoves, ErrMoves DEF Mark, InstAt, rootVars, bootVars
<1>9. CASE Stop
  BY <1>9, ToMoves DEF Stop, InstAt, StopIfRunning, rootVars, bootVars
<1>10. CASE Waited
  BY <1>10, ToMoves DEF Waited, InstAt, scmVars, rootVars, bootVars
<1>11. CASE DropOldTask
  BY <1>11, ToMoves, ErrMoves DEF DropOldTask, InstAt, rootVars, bootVars
<1>12. CASE TrustRoot
  BY <1>12, ToMoves DEF TrustRoot, InstAt, Hardened, NewRoot, Trusted, scmVars, bootVars
<1>13. CASE RecordRoot \/ Fill \/ WriteConfig \/ CopyImage \/ Register
  BY <1>13, ToMoves, IdleMoves DEF RecordRoot, InstAt, Record, scmVars, bootVars, Fill,
     WriteConfig, Publish, CopyImage, ImageFree, Register, rootVars
<1>14. CASE GcTask \/ Grant \/ Commit
  BY <1>14, ToMoves DEF GcTask, InstAt, rootVars, bootVars, Grant, Commit
<1>15. CASE Installed
  BY <1>15, ToMoves DEF Installed, InstAt, Release, scmVars, bootVars
<1>16. CASE RestartStop
  <2>1. To("restart wait")
    BY <1>16 DEF RestartStop
  <2>2. inst'.at = "restart wait" /\ UNCHANGED <<inst.cmd, inst.err, inst.who>>
    BY <2>1, ToMoves
  <2> QED BY <1>16, <2>2 DEF RestartStop, InstAt, StopIfRunning, rootVars, bootVars
<1>17. CASE RestartStart
  BY <1>17, IdleMoves DEF RestartStart, InstAt, Startable, rootVars, bootVars
<1>18. CASE Deregister
  BY <1>18, ToMoves DEF Deregister, InstAt, MarkOr, rootVars, bootVars
<1>19. CASE DropTask
  BY <1>19, ToMoves DEF DropTask, InstAt, rootVars, bootVars
<1>20. CASE OpenToRemove
  <2>1. CASE inst' = Idle
    <3>1. inst'.at = "idle" /\ inst'.cmd = "none"
      BY <2>1, IdleMoves
    <3> QED BY <1>20, <3>1 DEF OpenToRemove, InstAt, Hardened, Trusted, scmVars, bootVars
  <2>2. CASE To("reopen") /\ Trusted /\ RootFree
    <3>1. inst'.at = "reopen" /\ UNCHANGED <<inst.cmd, inst.err, inst.who>>
      BY <2>2, ToMoves
    <3> QED BY <1>20, <2>2, <3>1 DEF OpenToRemove, InstAt, Hardened, Trusted, scmVars, bootVars
  <2> QED BY <1>20, <2>1, <2>2 DEF OpenToRemove
<1>21. CASE ReopenToRemove \/ Remove
  BY <1>21, ToMoves, IdleMoves DEF ReopenToRemove, InstAt, Trusted, scmVars, bootVars,
     Remove, ImageFree, Release, Erase, Entries
<1>22. CASE InstEnds \/ RollBack \/ Boot
  BY <1>22, IdleMoves DEF InstEnds, Release, scmVars, bootVars, RollBack, Boot, NoReg
<1>23. CASE SvcStamp \/ Vanish \/ Ages
  <2>1. UNCHANGED <<lease, inst, gc, svc>>
    BY <1>23 DEF SvcStamp, Vanish, Ages, scmVars, rootVars, bootVars
  <2> QED BY <2>1
<1>24. CASE UNCHANGED vars
  BY <1>24 DEF vars, scmVars, rootVars, bootVars
<1> QED BY <1>1, <1>2, <1>3, <1>4, <1>5, <1>6, <1>7, <1>8, <1>9, <1>10, <1>11, <1>12, <1>13,
     <1>14, <1>15, <1>16, <1>17, <1>18, <1>19, <1>20, <1>21, <1>22, <1>23, <1>24
        DEF Begins, Next, InstStep, GcStep, SvcStep

\* The root is replaced only while nobody holds it, and held only if it is trusted.
LEMMA TrustInvStep ==
  ASSUME Types, CommandInv, LeaseInv, TrustInv, [Next]_vars
  PROVE  TrustInv'
<1>0. CommandType /\ made \in Nat
  BY DEF Types
<1> USE <1>0 DEF CommandInv, LeaseInv, HoldsRoot, GcHolds, SvcHolds, SetupSteps,
     RemovalSteps, RootFree, TrustInv, Absent, Trusted
<1>1. CASE Begins
  BY <1>1, BeginMoves
<1>2. CASE SvcReopen \/ SvcStamp \/ SvcEnds
  BY <1>2 DEF SvcReopen, bootVars, SvcStamp, scmVars, SvcEnds, Release
<1>3. CASE GcReopen \/ GcRemove \/ GcPend \/ GcEnds
  BY <1>3 DEF GcReopen, GcTo, scmVars, bootVars, GcRemove, Erase, Data, GcPend, Release,
     GcEnds
<1>4. CASE Retire
  BY <1>4, ToMoves DEF Retire, InstAt, rootVars, bootVars
<1>5. CASE Mark
  BY <1>5, ToMoves, ErrMoves DEF Mark, InstAt, rootVars, bootVars
<1>6. CASE Stop
  BY <1>6, ToMoves DEF Stop, InstAt, StopIfRunning, rootVars, bootVars
<1>7. CASE Waited
  BY <1>7, ToMoves DEF Waited, InstAt, scmVars, rootVars, bootVars
<1>8. CASE DropOldTask
  BY <1>8, ToMoves, ErrMoves DEF DropOldTask, InstAt, rootVars, bootVars
<1>9. CASE TrustRoot
  <2>1. To("handoff")
    BY <1>9 DEF TrustRoot
  <2>2. inst'.at = "handoff" /\ UNCHANGED <<inst.cmd, inst.err, inst.who>>
    BY <2>1, ToMoves
  <2>3. root' # Absent /\ (root' = root \/ files' = {})
    <3>1. CASE Trusted
      BY <1>9, <3>1 DEF TrustRoot
    <3>2. CASE ~Trusted
      <4>1. root' = made + 1 /\ files' = {}
        BY <1>9, <3>2 DEF TrustRoot, NewRoot
      <4> QED BY <1>0, <4>1, NewIdentity
    <3> QED BY <3>1, <3>2
  <2> QED BY <1>9, <2>2, <2>3 DEF TrustRoot, InstAt, RootFree, scmVars, bootVars
<1>10. CASE RecordRoot \/ Fill \/ WriteConfig \/ CopyImage \/ Register
  BY <1>10, ToMoves, IdleMoves DEF RecordRoot, InstAt, Record, scmVars, bootVars, Fill,
     WriteConfig, Publish, CopyImage, ImageFree, Register, rootVars
<1>11. CASE GcTask \/ Grant \/ Commit
  BY <1>11, ToMoves DEF GcTask, InstAt, rootVars, bootVars, Grant, Commit
<1>12. CASE Installed
  BY <1>12, ToMoves DEF Installed, InstAt, Release, scmVars, bootVars
<1>13. CASE RestartStop
  <2>1. To("restart wait")
    BY <1>13 DEF RestartStop
  <2>2. inst'.at = "restart wait" /\ UNCHANGED <<inst.cmd, inst.err, inst.who>>
    BY <2>1, ToMoves
  <2> QED BY <1>13, <2>2 DEF RestartStop, InstAt, StopIfRunning, rootVars, bootVars
<1>14. CASE RestartStart
  BY <1>14, IdleMoves DEF RestartStart, InstAt, Startable, rootVars, bootVars
<1>15. CASE Deregister
  BY <1>15, ToMoves DEF Deregister, InstAt, MarkOr, rootVars, bootVars
<1>16. CASE DropTask
  BY <1>16, ToMoves DEF DropTask, InstAt, rootVars, bootVars
<1>17. CASE OpenToRemove
  <2>1. CASE inst' = Idle
    <3>1. inst'.at = "idle" /\ inst'.cmd = "none"
      BY <2>1, IdleMoves
    <3> QED BY <1>17, <3>1 DEF OpenToRemove, InstAt, Hardened, scmVars, bootVars
  <2>2. CASE To("reopen") /\ Trusted /\ RootFree
    <3>1. inst'.at = "reopen" /\ UNCHANGED <<inst.cmd, inst.err, inst.who>>
      BY <2>2, ToMoves
    <3> QED BY <1>17, <2>2, <3>1 DEF OpenToRemove, InstAt, Hardened, scmVars, bootVars
  <2> QED BY <1>17, <2>1, <2>2 DEF OpenToRemove
<1>18. CASE ReopenToRemove \/ Remove
  BY <1>18, ToMoves, IdleMoves DEF ReopenToRemove, InstAt, scmVars, bootVars, Remove,
     ImageFree, Release, Erase, Entries
<1>19. CASE InstEnds
  BY <1>19, IdleMoves DEF InstEnds, Release, scmVars, bootVars
<1>20. CASE RollBack
  BY <1>20, IdleMoves DEF RollBack, Release, bootVars
<1>21. CASE Boot
  BY <1>21, IdleMoves DEF Boot, NoReg
<1>22. CASE GcBegins \/ GcOpen \/ GcDecide \/ GcMark \/ GcStop \/ GcWaited \/ GcDropTask
           \/ Start \/ SvcOpen \/ SvcRun \/ SvcStopAsked \/ Vanish \/ Ages
  <2>1. UNCHANGED <<lease, root, prov, files, inst>>
    BY <1>22 DEF GcBegins, GcOpen, GcDecide, GcMark, GcStop, GcWaited, GcDropTask, Start,
       SvcOpen, SvcRun, SvcStopAsked, Vanish, Ages, scmVars, rootVars, bootVars
  <2> QED BY <2>1
<1>23. CASE UNCHANGED vars
  BY <1>23 DEF vars, scmVars, rootVars, bootVars
<1> QED BY <1>1, <1>2, <1>3, <1>4, <1>5, <1>6, <1>7, <1>8, <1>9, <1>10, <1>11, <1>12, <1>13,
     <1>14, <1>15, <1>16, <1>17, <1>18, <1>19, <1>20, <1>21, <1>22, <1>23
        DEF Begins, Next, InstStep, GcStep, SvcStep

\* What is registered follows the command and the collection.
LEMMA RegInvStep ==
  ASSUME Types, CommandInv, LeaseInv, RegInv, [Next]_vars
  PROVE  RegInv'
<1>0. CommandType /\ reg \in RegRec
  BY DEF Types
<1> USE <1>0 DEF CommandInv, LeaseInv, HoldsRoot, GcHolds, SvcHolds, SetupSteps,
     RemovalSteps, RootFree, RegRec, Statuses, RegInv, Retired, Quiet, NoReg
<1>1. CASE Begins
  BY <1>1, BeginMoves
<1>2. CASE Start \/ SvcOpen \/ SvcReopen \/ SvcRun
  BY <1>2 DEF Start, Startable, rootVars, bootVars, SvcOpen, Hardened, Trusted, SvcReopen,
     SvcRun, ConfigValid
<1>3. CASE SvcStopAsked \/ SvcEnds
  BY <1>3 DEF SvcStopAsked, rootVars, bootVars, SvcEnds, Release
<1>4. CASE Vanish
  <2>1. reg'.is = "none" /\ reg'.start = "disabled" /\ reg'.dacl = {}
    BY <1>4 DEF Vanish, NoReg
  <2> QED BY <1>4, <2>1 DEF Vanish, rootVars, bootVars, NoReg
<1>5. CASE GcBegins \/ GcOpen \/ GcReopen
  BY <1>5 DEF GcBegins, GcTo, Active, scmVars, rootVars, bootVars, GcOpen, Hardened,
     Trusted, GcReopen
<1>6. CASE GcDecide \/ GcMark \/ GcStop
  BY <1>6 DEF GcDecide, GcTo, ConfigValid, Unused, Active, scmVars, rootVars, bootVars,
     GcMark, MarkOr, GcStop, StopIfRunning
<1>7. CASE GcWaited \/ GcDropTask \/ GcRemove \/ GcPend \/ GcEnds
  BY <1>7 DEF GcWaited, GcTo, scmVars, rootVars, bootVars, GcDropTask, GcRemove, Erase,
     Data, GcPend, Release, GcEnds
<1>8. CASE Retire
  <2>1. CASE reg.is = "live"
    <3>1. To("mark") /\ reg'.is = "live" /\ reg'.start = "disabled" /\ reg'.dacl = {}
      BY <1>8, <2>1 DEF Retire
    <3>2. inst'.at = "mark" /\ UNCHANGED <<inst.cmd, inst.err, inst.who>>
      BY <3>1, ToMoves
    <3> QED BY <1>8, <3>1, <3>2 DEF Retire, InstAt, rootVars, bootVars
  <2>2. CASE reg.is # "live"
    <3>1. To("task") /\ UNCHANGED reg /\ reg.is = "none"
      BY <1>8, <2>2 DEF Retire
    <3>2. inst'.at = "task" /\ UNCHANGED <<inst.cmd, inst.err, inst.who>>
      BY <3>1, ToMoves
    <3> QED BY <1>8, <3>1, <3>2 DEF Retire, InstAt, rootVars, bootVars
  <2> QED BY <2>1, <2>2
<1>9. CASE Mark
  BY <1>9, ToMoves, ErrMoves DEF Mark, InstAt, rootVars, bootVars
<1>10. CASE Stop
  BY <1>10, ToMoves DEF Stop, InstAt, StopIfRunning, rootVars, bootVars
<1>11. CASE Waited
  BY <1>11, ToMoves DEF Waited, InstAt, scmVars, rootVars, bootVars
<1>12. CASE DropOldTask
  BY <1>12, ToMoves, ErrMoves DEF DropOldTask, InstAt, rootVars, bootVars
<1>13. CASE TrustRoot
  BY <1>13, ToMoves DEF TrustRoot, InstAt, Hardened, NewRoot, Trusted, scmVars, bootVars
<1>14. CASE RecordRoot
  <2>1. CASE inst.err
    <3>1. inst'.at = "idle" /\ inst'.cmd = "none" /\ lease' = "none"
      BY <1>14, <2>1, IdleMoves DEF RecordRoot
    <3> QED BY <1>14, <2>1, <3>1 DEF RecordRoot, InstAt, Record, RootFree, scmVars, bootVars
  <2>2. CASE ~inst.err
    <3>1. To("fill") /\ lease' = "inst"
      BY <1>14, <2>2 DEF RecordRoot
    <3>2. inst'.at = "fill" /\ UNCHANGED <<inst.cmd, inst.err, inst.who>>
      BY <3>1, ToMoves
    <3> QED BY <1>14, <3>1, <3>2 DEF RecordRoot, InstAt, Record, RootFree, scmVars, bootVars
  <2> QED BY <2>1, <2>2
<1>15. CASE Fill
  BY <1>15, ToMoves DEF Fill, InstAt, scmVars, bootVars
<1>16. CASE WriteConfig
  BY <1>16, ToMoves DEF WriteConfig, InstAt, Publish, scmVars, bootVars
<1>17. CASE CopyImage
  BY <1>17, ToMoves DEF CopyImage, InstAt, ImageFree, Publish, scmVars
<1>18. CASE Register
  BY <1>18, ToMoves DEF Register, InstAt, rootVars, bootVars
<1>19. CASE GcTask \/ Grant
  BY <1>19, ToMoves DEF GcTask, InstAt, rootVars, bootVars, Grant
<1>20. CASE Commit
  <2>1. To("installed") /\ reg'.is = reg.is /\ reg'.start = "demand" /\ reg'.dacl = reg.dacl
    BY <1>20 DEF Commit
  <2>2. inst'.at = "installed" /\ UNCHANGED <<inst.cmd, inst.err, inst.who>>
    BY <2>1, ToMoves
  <2> QED BY <1>20, <2>1, <2>2 DEF Commit, InstAt, rootVars, bootVars
<1>21. CASE Installed
  BY <1>21, ToMoves DEF Installed, InstAt, Release, scmVars, bootVars
<1>22. CASE RestartStop
  <2>1. To("restart wait")
    BY <1>22 DEF RestartStop
  <2>2. inst'.at = "restart wait" /\ UNCHANGED <<inst.cmd, inst.err, inst.who>>
    BY <2>1, ToMoves
  <2> QED BY <1>22, <2>2 DEF RestartStop, InstAt, StopIfRunning, rootVars, bootVars
<1>23. CASE RestartStart
  BY <1>23, IdleMoves DEF RestartStart, InstAt, Startable, rootVars, bootVars
<1>24. CASE Deregister
  BY <1>24, ToMoves DEF Deregister, InstAt, MarkOr, rootVars, bootVars
<1>25. CASE DropTask
  BY <1>25, ToMoves DEF DropTask, InstAt, rootVars, bootVars
<1>26. CASE OpenToRemove
  <2>1. CASE inst' = Idle
    <3>1. inst'.at = "idle" /\ inst'.cmd = "none"
      BY <2>1, IdleMoves
    <3> QED BY <1>26, <3>1 DEF OpenToRemove, InstAt, Hardened, Trusted, scmVars, bootVars
  <2>2. CASE To("reopen") /\ Trusted /\ RootFree
    <3>1. inst'.at = "reopen" /\ UNCHANGED <<inst.cmd, inst.err, inst.who>>
      BY <2>2, ToMoves
    <3> QED BY <1>26, <2>2, <3>1 DEF OpenToRemove, InstAt, Hardened, Trusted, scmVars, bootVars
  <2> QED BY <1>26, <2>1, <2>2 DEF OpenToRemove
<1>27. CASE ReopenToRemove
  BY <1>27, ToMoves DEF ReopenToRemove, InstAt, Trusted, scmVars, bootVars
<1>28. CASE Remove
  BY <1>28, IdleMoves DEF Remove, InstAt, ImageFree, Release, Erase, Entries, scmVars,
     bootVars
<1>29. CASE InstEnds \/ RollBack \/ Boot
  BY <1>29, IdleMoves DEF InstEnds, Release, scmVars, bootVars, RollBack, Boot
<1>30. CASE SvcStamp \/ Ages
  <2>1. UNCHANGED <<reg, svc, inst, gc>>
    BY <1>30 DEF SvcStamp, Ages, scmVars, rootVars, bootVars
  <2> QED BY <2>1
<1>31. CASE UNCHANGED vars
  BY <1>31 DEF vars, scmVars, rootVars, bootVars
<1> QED BY <1>1, <1>2, <1>3, <1>4, <1>5, <1>6, <1>7, <1>8, <1>9, <1>10, <1>11, <1>12, <1>13,
     <1>14, <1>15, <1>16, <1>17, <1>18, <1>19, <1>20, <1>21, <1>22, <1>23, <1>24, <1>25,
     <1>26, <1>27, <1>28, <1>29, <1>30, <1>31
        DEF Begins, Next, InstStep, GcStep, SvcStep

\* The accounts of the registration and those of the configuration.
LEMMA AccountInvStep ==
  ASSUME Types, CommandInv, LeaseInv, RegInv, AccountInv, FillInv, [Next]_vars
  PROVE  AccountInv'
<1>0. CommandType /\ reg \in RegRec
  BY DEF Types
<1> USE <1>0 DEF CommandInv, LeaseInv, HoldsRoot, GcHolds, SvcHolds, SetupSteps,
     RemovalSteps, RootFree, RegRec, Statuses, RegInv, Retired, Quiet, AccountInv, FillInv,
     NoReg
<1>1. CASE Begins
  BY <1>1, BeginMoves
<1>2. CASE Vanish
  <2>1. reg'.is = "none" /\ reg'.start = "disabled" /\ reg'.dacl = {}
    BY <1>2 DEF Vanish, NoReg
  <2> QED BY <1>2, <2>1 DEF Vanish, rootVars, bootVars, NoReg
<1>3. CASE GcMark
  BY <1>3 DEF GcMark, GcTo, MarkOr, rootVars, bootVars
<1>4. CASE Retire
  <2>1. CASE reg.is = "live"
    <3>1. To("mark") /\ reg'.is = "live" /\ reg'.start = "disabled" /\ reg'.dacl = {}
      BY <1>4, <2>1 DEF Retire
    <3>2. inst'.at = "mark" /\ UNCHANGED <<inst.cmd, inst.err, inst.who>>
      BY <3>1, ToMoves
    <3> QED BY <1>4, <3>1, <3>2 DEF Retire, InstAt, rootVars, bootVars
  <2>2. CASE reg.is # "live"
    <3>1. To("task") /\ UNCHANGED reg /\ reg.is = "none"
      BY <1>4, <2>2 DEF Retire
    <3>2. inst'.at = "task" /\ UNCHANGED <<inst.cmd, inst.err, inst.who>>
      BY <3>1, ToMoves
    <3> QED BY <1>4, <3>1, <3>2 DEF Retire, InstAt, rootVars, bootVars
  <2> QED BY <2>1, <2>2
<1>5. CASE Mark
  BY <1>5, ToMoves, ErrMoves DEF Mark, InstAt, rootVars, bootVars
<1>6. CASE Stop
  BY <1>6, ToMoves DEF Stop, InstAt, StopIfRunning, rootVars, bootVars
<1>7. CASE Waited
  BY <1>7, ToMoves DEF Waited, InstAt, scmVars, rootVars, bootVars
<1>8. CASE DropOldTask
  BY <1>8, ToMoves, ErrMoves DEF DropOldTask, InstAt, rootVars, bootVars
<1>9. CASE TrustRoot
  BY <1>9, ToMoves DEF TrustRoot, InstAt, Hardened, NewRoot, Trusted, scmVars, bootVars
<1>10. CASE RecordRoot
  <2>1. CASE inst.err
    <3>1. inst'.at = "idle" /\ inst'.cmd = "none" /\ lease' = "none"
      BY <1>10, <2>1, IdleMoves DEF RecordRoot
    <3> QED BY <1>10, <2>1, <3>1 DEF RecordRoot, InstAt, Record, RootFree, scmVars, bootVars
  <2>2. CASE ~inst.err
    <3>1. To("fill") /\ lease' = "inst"
      BY <1>10, <2>2 DEF RecordRoot
    <3>2. inst'.at = "fill" /\ UNCHANGED <<inst.cmd, inst.err, inst.who>>
      BY <3>1, ToMoves
    <3> QED BY <1>10, <3>1, <3>2 DEF RecordRoot, InstAt, Record, RootFree, scmVars, bootVars
  <2> QED BY <2>1, <2>2
<1>11. CASE Fill
  BY <1>11, ToMoves DEF Fill, InstAt, scmVars, bootVars
<1>12. CASE WriteConfig
  BY <1>12, ToMoves DEF WriteConfig, InstAt, Publish, scmVars, bootVars
<1>13. CASE CopyImage
  BY <1>13, ToMoves DEF CopyImage, InstAt, ImageFree, Publish, scmVars
<1>14. CASE Register
  BY <1>14, ToMoves DEF Register, InstAt, rootVars, bootVars
<1>15. CASE GcTask
  BY <1>15, ToMoves DEF GcTask, InstAt, rootVars, bootVars
<1>16. CASE Grant
  <2>1. To("commit") /\ reg'.is = reg.is /\ reg'.start = reg.start /\ reg'.dacl = inst.who
    BY <1>16 DEF Grant
  <2>2. inst'.at = "commit" /\ UNCHANGED <<inst.cmd, inst.err, inst.who>>
    BY <2>1, ToMoves
  <2> QED BY <1>16, <2>1, <2>2 DEF Grant, InstAt, rootVars, bootVars
<1>17. CASE Commit
  <2>1. To("installed") /\ reg'.is = reg.is /\ reg'.start = "demand" /\ reg'.dacl = reg.dacl
    BY <1>17 DEF Commit
  <2>2. inst'.at = "installed" /\ UNCHANGED <<inst.cmd, inst.err, inst.who>>
    BY <2>1, ToMoves
  <2> QED BY <1>17, <2>1, <2>2 DEF Commit, InstAt, rootVars, bootVars
<1>18. CASE Installed
  BY <1>18, ToMoves DEF Installed, InstAt, Release, scmVars, bootVars
<1>19. CASE RestartStop
  <2>1. To("restart wait")
    BY <1>19 DEF RestartStop
  <2>2. inst'.at = "restart wait" /\ UNCHANGED <<inst.cmd, inst.err, inst.who>>
    BY <2>1, ToMoves
  <2> QED BY <1>19, <2>2 DEF RestartStop, InstAt, StopIfRunning, rootVars, bootVars
<1>20. CASE RestartStart
  BY <1>20, IdleMoves DEF RestartStart, InstAt, Startable, rootVars, bootVars
<1>21. CASE Deregister
  BY <1>21, ToMoves DEF Deregister, InstAt, MarkOr, rootVars, bootVars
<1>22. CASE DropTask
  BY <1>22, ToMoves DEF DropTask, InstAt, rootVars, bootVars
<1>23. CASE OpenToRemove
  <2>1. CASE inst' = Idle
    <3>1. inst'.at = "idle" /\ inst'.cmd = "none"
      BY <2>1, IdleMoves
    <3> QED BY <1>23, <3>1 DEF OpenToRemove, InstAt, Hardened, Trusted, scmVars, bootVars
  <2>2. CASE To("reopen") /\ Trusted /\ RootFree
    <3>1. inst'.at = "reopen" /\ UNCHANGED <<inst.cmd, inst.err, inst.who>>
      BY <2>2, ToMoves
    <3> QED BY <1>23, <2>2, <3>1 DEF OpenToRemove, InstAt, Hardened, Trusted, scmVars, bootVars
  <2> QED BY <1>23, <2>1, <2>2 DEF OpenToRemove
<1>24. CASE ReopenToRemove
  BY <1>24, ToMoves DEF ReopenToRemove, InstAt, Trusted, scmVars, bootVars
<1>25. CASE Remove
  BY <1>25, IdleMoves DEF Remove, InstAt, ImageFree, Release, Erase, Entries, scmVars,
     bootVars
<1>26. CASE InstEnds \/ RollBack
  BY <1>26, IdleMoves DEF InstEnds, Release, scmVars, bootVars, RollBack
<1>27. CASE Boot
  BY <1>27, IdleMoves DEF Boot
<1>28. CASE GcBegins \/ GcOpen \/ GcReopen \/ GcDecide \/ GcStop \/ GcWaited \/ GcDropTask
           \/ GcRemove \/ GcPend \/ GcEnds \/ Start \/ SvcOpen \/ SvcReopen \/ SvcRun
           \/ SvcStopAsked \/ SvcStamp \/ SvcEnds \/ Ages
  <2>1. UNCHANGED <<reg, conf, inst>>
    BY <1>28 DEF GcBegins, GcOpen, GcReopen, GcDecide, GcStop, GcWaited, GcDropTask,
       GcRemove, GcPend, GcEnds, Start, SvcOpen, SvcReopen, SvcRun, SvcStopAsked, SvcStamp,
       SvcEnds, Ages, scmVars, rootVars, bootVars
  <2> QED BY <2>1
<1>29. CASE UNCHANGED vars
  BY <1>29 DEF vars, scmVars, rootVars, bootVars
<1> QED BY <1>1, <1>2, <1>3, <1>4, <1>5, <1>6, <1>7, <1>8, <1>9, <1>10, <1>11, <1>12, <1>13,
     <1>14, <1>15, <1>16, <1>17, <1>18, <1>19, <1>20, <1>21, <1>22, <1>23, <1>24, <1>25,
     <1>26, <1>27, <1>28, <1>29
        DEF Begins, Next, InstStep, GcStep, SvcStep

\* What setup put in place stays: it holds the root.
LEMMA FillInvStep ==
  ASSUME Types, CommandInv, LeaseInv, FillInv, [Next]_vars
  PROVE  FillInv'
<1>0. CommandType
  BY DEF Types
<1> USE <1>0 DEF CommandInv, LeaseInv, HoldsRoot, GcHolds, SvcHolds, SetupSteps,
     RemovalSteps, RootFree, FillInv
<1>1. CASE Begins
  BY <1>1, BeginMoves
<1>2. CASE SvcStamp
  BY <1>2 DEF SvcStamp, scmVars, bootVars
<1>3. CASE GcDropTask \/ GcRemove
  BY <1>3 DEF GcDropTask, GcTo, rootVars, bootVars, GcRemove, Erase, scmVars, Data
<1>4. CASE Retire
  BY <1>4, ToMoves DEF Retire, InstAt, rootVars, bootVars
<1>5. CASE Mark
  BY <1>5, ToMoves, ErrMoves DEF Mark, InstAt, rootVars, bootVars
<1>6. CASE Stop
  BY <1>6, ToMoves DEF Stop, InstAt, StopIfRunning, rootVars, bootVars
<1>7. CASE Waited
  BY <1>7, ToMoves DEF Waited, InstAt, scmVars, rootVars, bootVars
<1>8. CASE DropOldTask
  BY <1>8, ToMoves, ErrMoves DEF DropOldTask, InstAt, rootVars, bootVars
<1>9. CASE TrustRoot
  BY <1>9, ToMoves DEF TrustRoot, InstAt, Hardened, NewRoot, Trusted, scmVars, bootVars
<1>10. CASE RecordRoot
  <2>1. CASE inst.err
    <3>1. inst'.at = "idle" /\ inst'.cmd = "none" /\ lease' = "none"
      BY <1>10, <2>1, IdleMoves DEF RecordRoot
    <3> QED BY <1>10, <2>1, <3>1 DEF RecordRoot, InstAt, Record, RootFree, scmVars, bootVars
  <2>2. CASE ~inst.err
    <3>1. To("fill") /\ lease' = "inst"
      BY <1>10, <2>2 DEF RecordRoot
    <3>2. inst'.at = "fill" /\ UNCHANGED <<inst.cmd, inst.err, inst.who>>
      BY <3>1, ToMoves
    <3> QED BY <1>10, <3>1, <3>2 DEF RecordRoot, InstAt, Record, RootFree, scmVars, bootVars
  <2> QED BY <2>1, <2>2
<1>11. CASE Fill
  BY <1>11, ToMoves DEF Fill, InstAt, scmVars, bootVars
<1>12. CASE WriteConfig
  BY <1>12, ToMoves DEF WriteConfig, InstAt, Publish, scmVars, bootVars
<1>13. CASE CopyImage
  BY <1>13, ToMoves DEF CopyImage, InstAt, ImageFree, Publish, scmVars
<1>14. CASE Register
  BY <1>14, ToMoves DEF Register, InstAt, rootVars, bootVars
<1>15. CASE GcTask \/ Grant \/ Commit
  BY <1>15, ToMoves DEF GcTask, InstAt, rootVars, bootVars, Grant, Commit
<1>16. CASE Installed
  BY <1>16, ToMoves DEF Installed, InstAt, Release, scmVars, bootVars
<1>17. CASE RestartStop
  <2>1. To("restart wait")
    BY <1>17 DEF RestartStop
  <2>2. inst'.at = "restart wait" /\ UNCHANGED <<inst.cmd, inst.err, inst.who>>
    BY <2>1, ToMoves
  <2> QED BY <1>17, <2>2 DEF RestartStop, InstAt, StopIfRunning, rootVars, bootVars
<1>18. CASE RestartStart
  BY <1>18, IdleMoves DEF RestartStart, InstAt, Startable, rootVars, bootVars
<1>19. CASE Deregister
  BY <1>19, ToMoves DEF Deregister, InstAt, MarkOr, rootVars, bootVars
<1>20. CASE DropTask
  BY <1>20, ToMoves DEF DropTask, InstAt, rootVars, bootVars
<1>21. CASE OpenToRemove
  <2>1. CASE inst' = Idle
    <3>1. inst'.at = "idle" /\ inst'.cmd = "none"
      BY <2>1, IdleMoves
    <3> QED BY <1>21, <3>1 DEF OpenToRemove, InstAt, Hardened, Trusted, scmVars, bootVars
  <2>2. CASE To("reopen") /\ Trusted /\ RootFree
    <3>1. inst'.at = "reopen" /\ UNCHANGED <<inst.cmd, inst.err, inst.who>>
      BY <2>2, ToMoves
    <3> QED BY <1>21, <2>2, <3>1 DEF OpenToRemove, InstAt, Hardened, Trusted, scmVars, bootVars
  <2> QED BY <1>21, <2>1, <2>2 DEF OpenToRemove
<1>22. CASE ReopenToRemove
  BY <1>22, ToMoves DEF ReopenToRemove, InstAt, Trusted, scmVars, bootVars
<1>23. CASE Remove
  BY <1>23, IdleMoves DEF Remove, InstAt, ImageFree, Release, Erase, Entries, scmVars,
     bootVars
<1>24. CASE InstEnds \/ RollBack \/ Boot
  BY <1>24, IdleMoves DEF InstEnds, Release, scmVars, bootVars, RollBack, Boot, NoReg
<1>25. CASE GcBegins \/ GcOpen \/ GcReopen \/ GcDecide \/ GcMark \/ GcStop \/ GcWaited
           \/ GcPend \/ GcEnds \/ Start \/ SvcOpen \/ SvcReopen \/ SvcRun \/ SvcStopAsked
           \/ SvcEnds \/ Vanish \/ Ages
  <2>1. UNCHANGED <<inst, files, conf, task>>
    BY <1>25 DEF GcBegins, GcOpen, GcReopen, GcDecide, GcMark, GcStop, GcWaited, GcPend,
       GcEnds, Start, SvcOpen, SvcReopen, SvcRun, SvcStopAsked, SvcEnds, Vanish, Ages,
       scmVars, rootVars, bootVars
  <2> QED BY <2>1
<1>26. CASE UNCHANGED vars
  BY <1>26 DEF vars, scmVars, rootVars, bootVars
<1> QED BY <1>1, <1>2, <1>3, <1>4, <1>5, <1>6, <1>7, <1>8, <1>9, <1>10, <1>11, <1>12, <1>13,
     <1>14, <1>15, <1>16, <1>17, <1>18, <1>19, <1>20, <1>21, <1>22, <1>23, <1>24, <1>25,
     <1>26
        DEF Begins, Next, InstStep, GcStep, SvcStep

\* The configuration of a running service stays as it read it.
LEMMA RunInvStep ==
  ASSUME Types, CommandInv, LeaseInv, RunInv, [Next]_vars
  PROVE  RunInv'
<1>0. CommandType
  BY DEF Types
<1> USE <1>0 DEF CommandInv, LeaseInv, HoldsRoot, GcHolds, SvcHolds, SetupSteps,
     RemovalSteps, RootFree, RunInv
<1>1. CASE Begins
  BY <1>1, BeginMoves
<1>2. CASE Start \/ SvcOpen \/ SvcReopen \/ SvcRun
  BY <1>2 DEF Start, Startable, rootVars, bootVars, SvcOpen, Hardened, Trusted, SvcReopen,
     SvcRun, ConfigValid
<1>3. CASE SvcStopAsked \/ SvcStamp \/ SvcEnds
  BY <1>3 DEF SvcStopAsked, rootVars, bootVars, SvcStamp, scmVars, SvcEnds, Release
<1>4. CASE GcOpen \/ GcStop \/ GcRemove
  BY <1>4 DEF GcOpen, GcTo, Hardened, Trusted, scmVars, bootVars, GcStop, StopIfRunning,
     rootVars, GcRemove, Erase, Data
<1>5. CASE Stop \/ TrustRoot
  BY <1>5, ToMoves DEF Stop, InstAt, StopIfRunning, rootVars, bootVars, TrustRoot, Hardened,
     NewRoot, Trusted, scmVars
<1>6. CASE Fill \/ WriteConfig \/ CopyImage
  BY <1>6, ToMoves DEF Fill, InstAt, scmVars, bootVars, WriteConfig, Publish, CopyImage,
     ImageFree
<1>7. CASE RestartStop \/ RestartStart
  BY <1>7, ToMoves, IdleMoves DEF RestartStop, InstAt, StopIfRunning, rootVars, bootVars,
     RestartStart, Startable
<1>8. CASE OpenToRemove \/ Remove
  BY <1>8, ToMoves, IdleMoves, ZenonT(60) DEF OpenToRemove, InstAt, Hardened, Trusted, scmVars,
     bootVars, Remove, ImageFree, Release, Erase, Entries
<1>9. CASE Boot
  BY <1>9, IdleMoves DEF Boot, NoReg
<1>10. CASE Retire \/ Mark \/ Waited \/ DropOldTask \/ RecordRoot \/ Register \/ GcTask
           \/ Grant \/ Commit \/ Installed \/ Deregister \/ DropTask \/ ReopenToRemove
           \/ InstEnds \/ RollBack \/ GcBegins \/ GcReopen \/ GcDecide \/ GcMark \/ GcWaited
           \/ GcDropTask \/ GcPend \/ GcEnds \/ Vanish \/ Ages
  <2>1. UNCHANGED <<svc, files, svcSids, conf, logs>>
    BY <1>10 DEF Retire, Mark, Waited, DropOldTask, RecordRoot, Register, GcTask, Grant,
       Commit, Installed, Deregister, DropTask, ReopenToRemove, InstEnds, RollBack,
       GcBegins, GcReopen, GcDecide, GcMark, GcWaited, GcDropTask, GcPend, GcEnds, Vanish,
       Ages, scmVars, rootVars, bootVars
  <2> QED BY <2>1
<1>11. CASE UNCHANGED vars
  BY <1>11 DEF vars, scmVars, rootVars, bootVars
<1> QED BY <1>1, <1>2, <1>3, <1>4, <1>5, <1>6, <1>7, <1>8, <1>9, <1>10, <1>11
        DEF Begins, Next, InstStep, GcStep, SvcStep

\* What a collection took away stays away: it holds the root.
LEMMA CollectInvStep ==
  ASSUME Types, LeaseInv, CollectInv, [Next]_vars
  PROVE  CollectInv'
<1>0. task \in BOOLEAN
  BY DEF Types
<1>1. gc \in {"data", "pend"} =>
        /\ lease = "gc" /\ svc \notin {"running", "stopping"}
        /\ inst.at \notin {"fill", "config", "image", "gctask"}
  BY DEF LeaseInv, GcHolds, SvcHolds, HoldsRoot
<1>2. ASSUME task' = task \/ ~task', files' \subseteq files, gc' = gc
      PROVE  CollectInv'
  BY <1>0, <1>2 DEF CollectInv
<1>3. ASSUME gc' \notin {"data", "pend"} PROVE CollectInv'
  BY <1>3 DEF CollectInv
<1>4. CASE Begins
  BY <1>0, <1>2, <1>4, BeginMoves
<1>5. CASE Start \/ SvcOpen \/ SvcReopen \/ SvcRun
  BY <1>0, <1>2, <1>5 DEF Start, SvcOpen, SvcReopen, SvcRun, rootVars
<1>14. CASE SvcStopAsked \/ SvcEnds \/ Vanish \/ Ages
  BY <1>0, <1>2, <1>14 DEF SvcStopAsked, SvcEnds, Vanish, Ages, rootVars, scmVars
<1>6. CASE Retire \/ Mark \/ Stop \/ Waited \/ DropOldTask \/ TrustRoot \/ RecordRoot
  BY <1>0, <1>2, <1>6 DEF Retire, Mark, Stop, Waited, DropOldTask, TrustRoot, NewRoot, RecordRoot,
     scmVars, rootVars
<1>7. CASE Register \/ Grant \/ Commit \/ Installed \/ RestartStop \/ RestartStart \/ InstEnds
           \/ RollBack
  BY <1>0, <1>2, <1>7 DEF Register, Grant, Commit, Installed, RestartStop, RestartStart, InstEnds,
     RollBack, scmVars, rootVars
<1>8. CASE Deregister \/ DropTask \/ OpenToRemove \/ ReopenToRemove \/ Remove
  BY <1>0, <1>2, <1>8 DEF Deregister, DropTask, OpenToRemove, ReopenToRemove, Remove, Erase,
     scmVars, rootVars
<1>9. CASE Fill \/ WriteConfig \/ CopyImage \/ GcTask \/ SvcStamp
  BY <1>1, <1>3, <1>9 DEF Fill, WriteConfig, CopyImage, GcTask, SvcStamp, InstAt
<1>10. CASE GcBegins \/ GcOpen \/ GcReopen \/ GcDecide \/ GcMark \/ GcStop \/ GcWaited \/ GcPend
            \/ GcEnds \/ Boot
  BY <1>3, <1>10 DEF GcBegins, GcOpen, GcReopen, GcDecide, GcMark, MarkOr, GcStop, GcWaited,
     GcPend, GcEnds, GcTo, Boot
<1>11. CASE GcDropTask
  BY <1>11 DEF GcDropTask, GcTo, CollectInv
<1>12. CASE GcRemove
  <2>1. gc = "data" /\ UNCHANGED task /\ (gc' = "pend" => files' \subseteq {"exe"})
    BY <1>12 DEF GcRemove, GcTo, Erase, Types, Children, Data, scmVars
  <2> QED BY <1>0, <2>1 DEF CollectInv
<1>13. CASE UNCHANGED vars
  BY <1>0, <1>2, <1>13 DEF vars, scmVars, rootVars
<1> QED BY <1>4, <1>5, <1>6, <1>7, <1>8, <1>9, <1>10, <1>11, <1>12, <1>13, <1>14
        DEF Begins, Next, InstStep, GcStep, SvcStep

\* A startable service stays complete.
LEMMA CompleteStep ==
  ASSUME Types, CommandInv, LeaseInv, TrustInv, RegInv, AccountInv, FillInv,
         StartableIsComplete, [Next]_vars
  PROVE  StartableIsComplete'
<1>0. CommandType /\ reg \in RegRec /\ pending \in {{}, {"exe"}, {"exe", "dir"}}
  BY DEF Types
<1> USE <1>0 DEF CommandInv, LeaseInv, HoldsRoot, GcHolds, SvcHolds, SetupSteps,
     RemovalSteps, RootFree, TrustInv, Absent, Trusted, RegRec, Statuses, RegInv, Retired,
     Quiet, AccountInv, FillInv, StartableIsComplete, Startable, Data
<1>1. CASE Begins
  BY <1>1, BeginMoves
<1>2. CASE SvcStamp
  BY <1>2 DEF SvcStamp, scmVars, bootVars
<1>3. CASE Vanish
  <2>1. reg'.is = "none" /\ reg'.start = "disabled" /\ reg'.dacl = {}
    BY <1>3 DEF Vanish, NoReg
  <2> QED BY <1>3, <2>1 DEF Vanish, rootVars, bootVars, NoReg
<1>4. CASE GcMark \/ GcDropTask \/ GcRemove
  BY <1>4 DEF GcMark, GcTo, MarkOr, rootVars, bootVars, GcDropTask, GcRemove, Erase, scmVars
<1>5. CASE Retire \/ Mark \/ DropOldTask \/ TrustRoot
  BY <1>5, ToMoves, ErrMoves DEF Retire, InstAt, rootVars, bootVars, Mark, DropOldTask,
     TrustRoot, Hardened, NewRoot, scmVars
<1>6. CASE RecordRoot \/ Fill \/ WriteConfig
  BY <1>6, ToMoves, IdleMoves DEF RecordRoot, InstAt, Record, scmVars, bootVars, Fill,
     WriteConfig, Publish
<1>7. CASE CopyImage
  BY <1>7, ToMoves DEF CopyImage, InstAt, ImageFree, Publish, scmVars
<1>8. CASE Register
  BY <1>8, ToMoves DEF Register, InstAt, rootVars, bootVars
<1>9. CASE GcTask \/ Grant \/ Commit
  BY <1>9, ToMoves DEF GcTask, InstAt, rootVars, bootVars, Grant, Commit
<1>10. CASE Deregister \/ DropTask \/ Remove
  BY <1>10, ToMoves, IdleMoves DEF Deregister, InstAt, MarkOr, rootVars, bootVars, DropTask,
     Remove, ImageFree, Release, Erase, Entries, scmVars
<1>11. CASE RollBack
  BY <1>11, IdleMoves DEF RollBack, Release, bootVars
<1>12. CASE Boot
  BY <1>12, IdleMoves DEF Boot, NoReg
<1>13. CASE Stop \/ Waited \/ Installed \/ RestartStop \/ RestartStart \/ OpenToRemove
           \/ ReopenToRemove \/ InstEnds \/ GcBegins \/ GcOpen \/ GcReopen \/ GcDecide
           \/ GcStop \/ GcWaited \/ GcPend \/ GcEnds \/ Start \/ SvcOpen \/ SvcReopen
           \/ SvcRun \/ SvcStopAsked \/ SvcEnds \/ Ages
  <2>1. UNCHANGED <<reg, task, root, prov, files, conf, taken>>
    BY <1>13 DEF Stop, Waited, Installed, RestartStop, RestartStart, OpenToRemove,
       ReopenToRemove, InstEnds, GcBegins, GcOpen, GcReopen, GcDecide, GcStop, GcWaited,
       GcPend, GcEnds, Start, SvcOpen, SvcReopen, SvcRun, SvcStopAsked, SvcEnds, Ages,
       scmVars, rootVars, bootVars
  <2> QED BY <2>1
<1>14. CASE UNCHANGED vars
  BY <1>14 DEF vars, scmVars, rootVars, bootVars
<1> QED BY <1>1, <1>2, <1>3, <1>4, <1>5, <1>6, <1>7, <1>8, <1>9, <1>10, <1>11, <1>12, <1>13,
     <1>14
        DEF Begins, Next, InstStep, GcStep, SvcStep

\* An empty machine, or one with data nobody vouches for, satisfies the invariant.
LEMMA InstallInvInit == ASSUME Init PROVE InstallInv
<1> USE DEF Init
<1>1. Types
  <2>1. reg \in RegRec
    BY DEF NoReg, RegRec, Statuses
  <2>2. CommandType
    BY DEF CommandType, Idle
  <2>3. root \in Nat /\ made \in Nat /\ root <= made /\ made <= MaxRoots /\ prov \in Nat
    BY InstallationAssumption DEF Absent
  <2>4. files \in SUBSET Children
    BY DEF Children, Data
  <2> QED BY <2>1, <2>2, <2>3, <2>4 DEF Types, SvcSteps, GcSteps
<1>2. inst.at = "idle" /\ inst.cmd = "none" /\ reg.is = "none" /\ reg.dacl = {}
  BY DEF Idle, NoReg
<1>3. CommandInv /\ LeaseInv
  BY <1>2 DEF CommandInv, LeaseInv, HoldsRoot, GcHolds, SvcHolds
<1>4. TrustInv
  BY <1>2 DEF TrustInv
<1>5. RegInv /\ AccountInv
  BY <1>2 DEF RegInv, AccountInv, Retired, Quiet, RemovalSteps
<1>6. FillInv /\ RunInv /\ CollectInv
  BY <1>2 DEF FillInv, RunInv, CollectInv
<1>7. StartableIsComplete
  BY <1>2 DEF StartableIsComplete, Startable
<1> QED BY <1>1, <1>3, <1>4, <1>5, <1>6, <1>7 DEF InstallInv

\* Every step of every process keeps the invariant.
LEMMA InstallInvStep == ASSUME InstallInv, [Next]_vars PROVE InstallInv'
<1> USE DEF InstallInv
<1>1. Types'
  BY TypesStep
<1>2. CommandInv' /\ LeaseInv' /\ TrustInv'
  BY CommandInvStep, LeaseInvStep, TrustInvStep
<1>3. RegInv' /\ AccountInv' /\ FillInv'
  BY RegInvStep, AccountInvStep, FillInvStep
<1>4. RunInv' /\ CollectInv' /\ StartableIsComplete'
  BY RunInvStep, CollectInvStep, CompleteStep
<1> QED BY <1>1, <1>2, <1>3, <1>4

\* Setup, uninstall, the collection and the service stay in the states the invariant
\* describes, whatever fails, is killed or is rebooted.
THEOREM InstallInvHolds == Spec => []InstallInv
<1>1. Init => InstallInv
  BY InstallInvInit
<1>2. InstallInv /\ [Next]_vars => InstallInv'
  BY InstallInvStep
<1> QED BY <1>1, <1>2, PTL DEF Spec

\* Whatever interrupts a command, a service that can be started is complete, no service
\* runs or starts in the middle of setup, and a collection that ends well leaves only its
\* image (install, quarantine_service_for_maintenance, set_service_start_demand and
\* run_gc of main.rs).
THEOREM CommandsAreComplete == Spec => []CommandsComplete
<1>1. ASSUME InstallInv PROVE CommandsComplete
  <2> USE <1>1 DEF InstallInv
  <2>1. TypeOK
    <3>1. /\ reg.is \in Statuses /\ reg.start \in {"disabled", "demand"}
          /\ reg.dacl \in SUBSET Accounts
      BY DEF Types, RegRec
    <3>2. root \in 0 .. made /\ made <= MaxRoots
      BY DEF Types
    <3>3. /\ task \in BOOLEAN /\ files \subseteq Children
          /\ {conf, logs, svcSids, reg.dacl, inst.who} \subseteq SUBSET Accounts
      BY <3>1 DEF Types, CommandType
    <3>4. root = Absent => files = {}
      BY DEF TrustInv
    <3>5. /\ lease = "inst" <=> inst.at \in HoldsRoot
          /\ lease = "gc" => gc \in {"decide", "mark", "stop", "wait", "task", "data", "pend"}
          /\ lease = "svc" <=> svc \in {"rooted", "running", "stopping"}
      BY DEF LeaseInv, GcHolds, SvcHolds
    <3> QED BY <3>1, <3>2, <3>3, <3>4, <3>5 DEF TypeOK, Statuses
  <2>2. QuietMaintenance
    BY DEF QuietMaintenance, RegInv, Retired, Quiet, Startable
  <2>3. GcLeavesNothing
    BY DEF GcLeavesNothing, CollectInv, RegInv
  <2> QED BY <2>1, <2>2, <2>3 DEF CommandsComplete
<1> QED BY <1>1, InstallInvHolds, PTL

\* A service runs only over a trusted root that it alone holds, for the accounts of the
\* last setup (open_and_harden_machine, load_service_config of the service).
THEOREM RunsTrusted == Spec => []RunsOnlyTrusted
<1>1. ASSUME InstallInv PROVE RunsOnlyTrusted
  <2> USE <1>1 DEF InstallInv
  <2>1. svc = "running" => lease = "svc" /\ Trusted
    BY DEF LeaseInv, TrustInv, SvcHolds
  <2> QED BY <2>1 DEF RunsOnlyTrusted, RunInv, AccountInv
<1> QED BY <1>1, InstallInvHolds, PTL

\* The collection never takes a running service away: it holds the root a service would
\* have to hold to run (run_gc).
THEOREM CollectionSparesRunning == Spec => GcSparesRunning
<1>1. ASSUME InstallInv, gc = "mark" PROVE svc # "running"
  BY <1>1 DEF InstallInv, LeaseInv, GcHolds, SvcHolds
<1>2. InstallInv /\ [Next]_vars => [gc = "mark" /\ gc' = "stop" => svc # "running"]_vars
  BY <1>1
<1> QED BY <1>2, InstallInvHolds, PTL DEF Spec, GcSparesRunning

----------------------------------------------------------------------------
(***************************************************************************)
(* The service's process.                                                  *)
(***************************************************************************)
HostAt == {"config", "engine", "index", "server", "await", "abandon", "flusher", "publish",
           "park", "stamp", "join accept", "failed join accept", "join conns",
           "failed join conns", "join flusher", "failed join flusher", "flush", "shutdown",
           "failed shutdown", "stopped"}

\* The steps after the accept thread was joined, and those after the connections were.
Quieted == {"join flusher", "failed join flusher", "flush", "shutdown", "failed shutdown"}
Joined == Quieted \cup {"join conns", "failed join conns"}

AccAt == {"off", "security", "create", "wait", "verify", "register", "spawn", "gone"}

ConnRec == [st : {"away", "pending", "refused", "started", "live", "ended"},
            cut : BOOLEAN, registered : BOOLEAN, kept : BOOLEAN]

FeedRec == [writer : {"off", "run", "ended"}, queue : Seq(Nat), closed : BOOLEAN,
            first : Nat, sent : Seq(Nat)]

HostRec == [at : HostAt, scm : {"StartPending", "Running", "Stopped"},
            code : {None, "ok", "io", "locked"}, attempts : Nat, seen : BOOLEAN,
            elapsed : BOOLEAN, lost : BOOLEAN, stamped : BOOLEAN]

EngineRec == [locked : BOOLEAN, workers : {"off", "scan", "tail", "ended"}, sink : BOOLEAN,
              flusher : {"off", "run", "ended"}]

AccRec == [at : AccAt, c : Conns \cup {None}, ready : {None, "ok", "err"}, accepting : BOOLEAN]

\* Every value in its range.
HostTypes ==
  /\ host \in HostRec /\ engine \in EngineRec /\ acc \in AccRec
  /\ conn \in [Conns -> ConnRec] /\ feed \in [Conns -> FeedRec]
  /\ active \in Int /\ emitted \in Nat

\* The accept thread holds the connection that is being accepted, and a thread that
\* was started is kept to be joined.
ConnInv ==
  /\ acc.at \in {"verify", "register", "spawn"} <=> acc.c # None
  /\ \A c \in Conns :
       /\ conn[c].st = "pending" <=> acc.c = c
       /\ conn[c].registered => conn[c].st \in {"started", "live"}
                                \/ (acc.c = c /\ acc.at = "spawn")
       /\ conn[c].st \in {"started", "live"} => conn[c].kept

\* The steps before the server, and with it the accept thread, is started.
Early == {"config", "engine", "index", "server"}

\* The accept thread is started once, and the joins happen in order.
JoinInv ==
  /\ host.at \in Early => acc.at = "off"
  /\ host.at \in Joined => acc.at = "gone"
  /\ host.at \in Quieted => \A c \in Conns : conn[c].st \notin {"started", "live"}

\* An exit code is given once, by the last step.
ExitInv ==
  /\ host.code # None => host.at = "stopped"
  /\ host.code = "ok" => host.stamped /\ ~host.lost /\ engine.workers = "ended"

Live == {c \in Conns : conn[c].st = "live"}

CountInv == active = Cardinality(Live)

Increasing(s) == \A i, j \in 1 .. Len(s) : i < j => s[i] < s[j]

\* What was sent precedes what waits, and the newest event is the last of them.
FeedSound(f, n) ==
  /\ Len(f.queue) <= QueueCap
  /\ Increasing(f.sent) /\ Increasing(f.queue)
  /\ \A i \in 1 .. Len(f.sent) : f.sent[i] <= n
  /\ \A i \in 1 .. Len(f.queue) : f.queue[i] <= n
  /\ \A i \in 1 .. Len(f.sent), j \in 1 .. Len(f.queue) : f.sent[i] < f.queue[j]
  /\ f.writer = "off" => f.sent = <<>> /\ f.queue = <<>>
  /\ f.writer = "run" /\ ~f.closed /\ n > f.first =>
       IF f.queue # <<>> THEN f.queue[Len(f.queue)] = n
       ELSE f.sent # <<>> /\ f.sent[Len(f.sent)] = n

FeedInv == \A c \in Conns : FeedSound(feed[c], emitted)

HostInv == HostTypes /\ ConnInv /\ JoinInv /\ ExitInv /\ CountInv /\ FeedInv

-----------------------------------------------------------------------------
(* The host and the engine *)

\* Going to a step, and ending.
LEMMA GotoType ==
  ASSUME host \in HostRec, NEW step \in HostAt, Goto(step)
  PROVE  host' \in HostRec /\ host'.at = step
  BY DEF HostRec, Goto

\* Ending the host keeps its type.
LEMMA ExitType ==
  ASSUME host \in HostRec, NEW code \in {"ok", "io", "locked"}, Exit(code)
  PROVE  host' \in HostRec /\ host'.at = "stopped"
  BY DEF HostRec, HostAt, Exit

\* What a step does to the service thread: it stays in its type, and the teardown goes
\* forward one join at a time.
LEMMA HostMoves ==
  ASSUME HostTypes, ExitInv, [HostNext]_hostVars
  PROVE  /\ host' \in HostRec
         /\ host'.at \in Joined =>
              \/ host.at \in Joined
              \/ host.at \in {"join accept", "failed join accept"} /\ acc.at = "gone"
                 /\ acc' = acc
         /\ host'.at \in Quieted => host.at \in Quieted \/ JoinConns
         /\ host'.at \in Early => host.at \in Early
<1> USE DEF HostRec, HostAt, Joined, Quieted, Early, Goto, Exit, After, At
<1>0. host \in HostRec /\ engine \in EngineRec /\ acc \in AccRec
  BY DEF HostTypes
<1>1. CASE LoadConfig
  BY <1>0, <1>1 DEF LoadConfig
<1>12. CASE CreateEngine
  <2>1. host.attempts + 1 \in Nat
    <3>1. host.attempts \in Nat
      BY <1>0
    <3> QED BY <3>1
  <2>2. \/ host' = [host EXCEPT !.at = "index", !.attempts = 0]
        \/ \E code \in {"io", "locked"} : Exit(code)
        \/ host' = [host EXCEPT !.attempts = host.attempts + 1]
    BY <1>12 DEF CreateEngine
  <2>3. CASE host' = [host EXCEPT !.at = "index", !.attempts = 0]
    <3>1. host' \in HostRec /\ host'.at = "index"
      BY <1>0, <2>3
    <3> HIDE DEF HostRec
    <3> QED BY <1>12, <3>1 DEF CreateEngine
  <2>4. CASE \E code \in {"io", "locked"} : Exit(code)
    BY <1>0, <2>4
  <2>5. CASE host' = [host EXCEPT !.attempts = host.attempts + 1]
    <3>1. host'.at = host.at
      BY <1>0, <2>5
    <3>2. host' \in HostRec
      BY <1>0, <2>1, <2>5
    <3> HIDE DEF HostRec
    <3> QED BY <1>12, <3>1, <3>2 DEF CreateEngine
  <2> QED BY <2>2, <2>3, <2>4, <2>5
<1>11. CASE IndexStart \/ StartServer
  BY <1>0, <1>11 DEF IndexStart, StartServer
<1>2. CASE ServerReady \/ ServerNotReady \/ AbandonServer
  <2> HIDE DEF HostRec, Goto, Exit
  <2> QED BY <1>0, <1>2, GotoType, ExitType DEF ServerReady, ServerNotReady, AbandonServer
<1>13. CASE StartFlusher \/ PublishRunning
  BY <1>0, <1>13 DEF StartFlusher, PublishRunning
<1>3. CASE ListenerLost \/ SeeClients
  BY <1>0, <1>3 DEF ListenerLost, SeeClients
<1>14. CASE IdleShouldStop
  <2>1. CASE host' = [host EXCEPT !.elapsed = FALSE]
    BY <1>0, <1>14, <2>1 DEF IdleShouldStop
  <2>2. CASE Goto("stamp")
    <3>1. host' \in HostRec
      BY <1>0, <2>2, GotoType
    <3> HIDE DEF HostRec
    <3> QED BY <1>0, <1>14, <2>2, <3>1 DEF IdleShouldStop
  <2> HIDE DEF HostRec, Goto
  <2> QED BY <1>14, <2>1, <2>2 DEF IdleShouldStop
<1>15. CASE StopSeen
  BY <1>0, <1>15 DEF StopSeen
<1>16. CASE TimePasses
  BY <1>0, <1>16 DEF TimePasses
<1>4. CASE Stamp
  BY <1>0, <1>4 DEF Stamp
<1>5. CASE JoinAccept
  BY <1>0, <1>5 DEF JoinAccept
<1>6. CASE JoinConns
  BY <1>0, <1>6 DEF JoinConns
<1>7. CASE JoinFlusher \/ FlushAndClear
  BY <1>0, <1>7 DEF JoinFlusher, FlushAndClear
<1>8. CASE Shutdown
  BY <1>0, <1>8 DEF Shutdown
<1>9. CASE UNCHANGED host
  <2> HIDE DEF HostRec, Joined, Quieted, Early
  <2> QED BY <1>0, <1>9
<1>10. CASE \/ FlusherStops \/ AcceptStep \/ ListenFails \/ EmitBegin \/ EmitCall \/ ScanDone
            \/ StopAsked \/ LockFreed \/ Terminated \/ UNCHANGED hostVars
            \/ \E c \in Conns : \/ Accept(c) \/ ClientLeaves(c) \/ Subscribe(c)
                                \/ ConnStep(c) \/ WriterStep(c)
  <2>1. UNCHANGED host
    BY <1>10 DEF FlusherStops, AcceptStep, PipeSecurity, Listen, AcceptStopped, Verify,
       RegisterConnection,
       Spawn, ListenFails, EmitBegin, EmitCall, ScanDone, StopAsked, LockFreed, Terminated,
       Accept, ClientLeaves, Subscribe, ConnStep, Run, End, WriterStep, WriteEvent, WriterEnds,
       hostVars
  <2> QED BY <2>1, <1>9
<1> QED BY <1>1, <1>2, <1>3, <1>4, <1>5, <1>6, <1>7, <1>8, <1>10, <1>11, <1>12, <1>13, <1>14, <1>15, <1>16
        DEF HostNext, HostStep

\* The steps that touch the engine, and how.
LEMMA EngineMoves ==
  ASSUME HostTypes, [HostNext]_hostVars
  PROVE  /\ engine' \in EngineRec
         /\ engine.workers = "ended" => engine'.workers = "ended" \/ host.at = "index"
<1> USE DEF EngineRec, At
<1>0. engine \in EngineRec
  BY DEF HostTypes
<1>1. CASE IndexStart \/ StartServer \/ ServerNotReady \/ StartFlusher \/ FlushAndClear
           \/ Shutdown \/ FlusherStops \/ ScanDone \/ LockFreed
  BY <1>0, <1>1 DEF IndexStart, StartServer, ServerNotReady, StartFlusher, FlushAndClear,
     Shutdown, FlusherStops, ScanDone, LockFreed
<1>2. CASE \/ LoadConfig \/ CreateEngine \/ ServerReady \/ AbandonServer \/ PublishRunning
           \/ ListenerLost \/ SeeClients \/ IdleShouldStop \/ StopSeen \/ TimePasses \/ Stamp
           \/ JoinAccept \/ JoinConns \/ JoinFlusher
  BY <1>0, <1>2 DEF LoadConfig, CreateEngine, ServerReady, AbandonServer, PublishRunning,
     ListenerLost, SeeClients, IdleShouldStop, StopSeen, TimePasses, Stamp, JoinAccept, JoinConns,
     JoinFlusher
<1>3. CASE \/ AcceptStep \/ ListenFails \/ EmitBegin \/ EmitCall
           \/ StopAsked \/ Terminated \/ UNCHANGED hostVars
           \/ \E c \in Conns : \/ Accept(c) \/ ClientLeaves(c) \/ Subscribe(c)
                               \/ ConnStep(c) \/ WriterStep(c)
  BY <1>0, <1>3 DEF AcceptStep, PipeSecurity, Listen, AcceptStopped, Verify, RegisterConnection,
     Spawn, ListenFails, EmitBegin, EmitCall, StopAsked, Terminated,
     Accept, ClientLeaves, Subscribe, ConnStep, Run, End, WriterStep, WriteEvent, WriterEnds,
     hostVars
<1> QED BY <1>1, <1>2, <1>3 DEF HostNext, HostStep

\* The exit code is honest when it is given, and nothing it speaks of changes afterwards.
LEMMA ExitInvStep == ASSUME HostTypes, ExitInv, [HostNext]_hostVars PROVE ExitInv'
<1> USE DEF Goto, Exit, After, At
<1>0. host \in HostRec
  BY DEF HostTypes
<1>1. CASE UNCHANGED host
  BY <1>1, EngineMoves DEF ExitInv, None
<1>2. CASE LoadConfig \/ CreateEngine \/ IndexStart \/ StartServer
  BY <1>0, <1>2 DEF LoadConfig, CreateEngine, IndexStart, StartServer, ExitInv, HostRec, None
<1>3. CASE ServerReady \/ ServerNotReady \/ AbandonServer \/ StartFlusher \/ PublishRunning
  BY <1>0, <1>3 DEF ServerReady, ServerNotReady, AbandonServer, StartFlusher, PublishRunning,
     ExitInv, HostRec, None
<1>4. CASE ListenerLost \/ SeeClients \/ IdleShouldStop \/ StopSeen \/ TimePasses
  BY <1>0, <1>4 DEF ListenerLost, SeeClients, IdleShouldStop, StopSeen, TimePasses, ExitInv, HostRec, None
<1>5. CASE Stamp \/ JoinAccept \/ JoinConns \/ JoinFlusher \/ FlushAndClear
  BY <1>0, <1>5 DEF Stamp, JoinAccept, JoinConns, JoinFlusher, FlushAndClear, ExitInv, HostRec,
     None
<1>6. CASE Shutdown
  BY <1>0, <1>6 DEF Shutdown, ExitInv, HostRec, EngineRec, HostTypes, None
<1>7. CASE \/ FlusherStops \/ AcceptStep \/ ListenFails \/ EmitBegin \/ EmitCall \/ ScanDone
           \/ StopAsked \/ LockFreed \/ Terminated \/ UNCHANGED hostVars
           \/ \E c \in Conns : \/ Accept(c) \/ ClientLeaves(c) \/ Subscribe(c)
                               \/ ConnStep(c) \/ WriterStep(c)
  <2>1. UNCHANGED host
    BY <1>7 DEF FlusherStops, AcceptStep, PipeSecurity, Listen, AcceptStopped, Verify,
       RegisterConnection,
       Spawn, ListenFails, EmitBegin, EmitCall, ScanDone, StopAsked, LockFreed, Terminated,
       Accept, ClientLeaves, Subscribe, ConnStep, Run, End, WriterStep, WriteEvent, WriterEnds,
       hostVars
  <2> QED BY <2>1, <1>1
<1> QED BY <1>2, <1>3, <1>4, <1>5, <1>6, <1>7 DEF HostNext, HostStep

-----------------------------------------------------------------------------
(* The accept thread and the connections *)

\* The accept thread stays gone once the server was started.
LEMMA AccMoves ==
  ASSUME HostTypes, ConnInv, [HostNext]_hostVars
  PROVE  /\ acc' \in AccRec
         /\ acc.at = "gone" => acc'.at = "gone" \/ host.at = "server"
         /\ acc.at = "off" => acc'.at = "off" \/ (StartServer /\ host'.at = "await")
<1> USE DEF AccRec, AccAt, At, Gone
<1>0. acc \in AccRec /\ (acc.at \in {"verify", "register", "spawn"} => acc.c \in Conns)
  BY DEF HostTypes, ConnInv
<1>1. CASE UNCHANGED acc
  <2> HIDE DEF AccRec
  <2> QED BY <1>0, <1>1
<1>2. CASE PipeSecurity \/ Listen \/ ListenFails \/ AcceptStopped
  BY <1>0, <1>2 DEF PipeSecurity, Listen, ListenFails, AcceptStopped
<1>6. CASE StartServer
  <2>1. host \in HostRec
    BY DEF HostTypes
  <2> QED BY <1>0, <1>6, <2>1 DEF StartServer, Goto, Exit, HostRec
<1>3. CASE (\E c \in Conns : Accept(c)) \/ Verify \/ RegisterConnection \/ Spawn
  BY <1>0, <1>3 DEF Accept, Verify, RegisterConnection, Spawn
<1>4. CASE \/ LoadConfig \/ CreateEngine \/ IndexStart \/ ServerReady \/ ServerNotReady
           \/ AbandonServer \/ StartFlusher \/ PublishRunning \/ ListenerLost \/ SeeClients
           \/ IdleShouldStop \/ StopSeen \/ TimePasses \/ Stamp \/ JoinAccept \/ JoinConns \/ JoinFlusher
           \/ FlushAndClear \/ Shutdown
  <2>1. UNCHANGED acc
    BY <1>4 DEF LoadConfig, CreateEngine, IndexStart, ServerReady, ServerNotReady,
       AbandonServer, StartFlusher, PublishRunning, ListenerLost, SeeClients, IdleShouldStop, StopSeen,
       TimePasses, Stamp, JoinAccept, JoinConns, JoinFlusher, FlushAndClear, Shutdown
  <2> QED BY <2>1, <1>1
<1>5. CASE \/ FlusherStops \/ EmitBegin \/ EmitCall \/ ScanDone
           \/ StopAsked \/ LockFreed \/ Terminated \/ UNCHANGED hostVars
           \/ \E c \in Conns : \/ ClientLeaves(c) \/ Subscribe(c)
                               \/ ConnStep(c) \/ WriterStep(c)
  <2>1. UNCHANGED acc
    BY <1>5 DEF FlusherStops, EmitBegin, EmitCall, ScanDone, StopAsked, LockFreed, Terminated,
       ClientLeaves, Subscribe, ConnStep, Run, End, WriterStep, WriteEvent, WriterEnds, hostVars
  <2> QED BY <2>1, <1>1
<1> QED BY <1>2, <1>3, <1>4, <1>5, <1>6 DEF HostNext, HostStep, AcceptStep

\* One connection changes, the others do not.
LEMMA ConnEdit ==
  ASSUME HostTypes, NEW c \in Conns, NEW r \in ConnRec, conn' = [conn EXCEPT ![c] = r]
  PROVE  /\ conn' \in [Conns -> ConnRec] /\ conn'[c] = r
         /\ \A d \in Conns \ {c} : conn'[d] = conn[d]
  BY DEF HostTypes

\* Disconnecting cuts pipes and changes nothing else of a connection.
LEMMA DisconnectKeeps ==
  ASSUME HostTypes, DisconnectAll
  PROVE  /\ conn' \in [Conns -> ConnRec]
         /\ \A c \in Conns : /\ conn'[c].st = conn[c].st /\ conn'[c].kept = conn[c].kept
                             /\ conn'[c].registered = conn[c].registered
<1>1. conn \in [Conns -> ConnRec]
  BY DEF HostTypes
<1> QED BY <1>1 DEF DisconnectAll, ConnRec

\* What holds of the connections after a step: a thread appears only where one was
\* being accepted, and begins or ceases to be live only by Run and End.
Moved ==
  /\ conn' \in [Conns -> ConnRec] /\ ConnInv'
  /\ acc.at = "gone" => \A c \in Conns :
       conn'[c].st \in {"started", "live"} => conn[c].st \in {"started", "live"}
  /\ \/ \E c \in Conns : Run(c) \/ End(c)
     \/ \A c \in Conns : conn'[c].st = "live" <=> conn[c].st = "live"

\* Every step keeps track of the connections.
LEMMA ConnMoves == ASSUME HostTypes, ConnInv, JoinInv, [HostNext]_hostVars PROVE Moved
<1>0. /\ conn \in [Conns -> ConnRec] /\ acc \in AccRec /\ None \notin Conns
      /\ \A c \in Conns : conn[c] \in ConnRec
      /\ acc.at \in {"verify", "register", "spawn"} => acc.c \in Conns
  BY HostAssumption DEF HostTypes, ConnInv, AccRec
<1>1. ASSUME conn' \in [Conns -> ConnRec], acc' = acc,
             \A c \in Conns : /\ conn'[c].st = conn[c].st
                              /\ conn'[c].registered = conn[c].registered
                              /\ conn[c].st \in {"started", "live"} =>
                                   conn'[c].kept = conn[c].kept
      PROVE  Moved
  BY <1>1 DEF Moved, ConnInv
<1>2. CASE StartFlusher \/ PublishRunning \/ Stamp \/ JoinAccept
  <2>1. acc' = acc /\ (DisconnectAll \/ UNCHANGED conn)
    BY <1>2 DEF StartFlusher, PublishRunning, Stamp, JoinAccept
  <2>2. CASE DisconnectAll
    BY <1>1, <2>1, <2>2, DisconnectKeeps
  <2>3. CASE UNCHANGED conn
    BY <1>0, <1>1, <2>1, <2>3
  <2> QED BY <2>1, <2>2, <2>3
<1>3. CASE JoinConns
  <2>1. /\ acc' = acc /\ conn' = [c \in Conns |-> [conn[c] EXCEPT !.kept = FALSE]]
        /\ \A c \in Conns : conn[c].kept => conn[c].st = "ended"
    BY <1>3 DEF JoinConns
  <2>2. \A c \in Conns : /\ conn'[c] \in ConnRec /\ conn'[c].st = conn[c].st
                         /\ conn'[c].registered = conn[c].registered
    BY <1>0, <2>1 DEF ConnRec
  <2>3. \A c \in Conns : conn[c].st \notin {"started", "live"}
    BY <2>1 DEF ConnInv
  <2>4. conn' \in [Conns -> ConnRec]
    BY <2>1, <2>2
  <2> QED BY <1>1, <2>1, <2>2, <2>3, <2>4
<1>4. ASSUME NEW c \in Conns, Accept(c) PROVE Moved
  <2>1. /\ acc.at = "wait" /\ conn[c].st = "away"
        /\ conn' = [conn EXCEPT ![c] = [conn[c] EXCEPT !.st = "pending"]]
        /\ acc' = [acc EXCEPT !.at = "verify", !.c = c]
    BY <1>0, <1>4 DEF Accept
  <2>2. [conn[c] EXCEPT !.st = "pending"] \in ConnRec
    BY <1>0 DEF ConnRec
  <2>3. /\ conn' \in [Conns -> ConnRec] /\ conn'[c] = [conn[c] EXCEPT !.st = "pending"]
        /\ \A d \in Conns \ {c} : conn'[d] = conn[d]
    BY <2>1, <2>2, ConnEdit
  <2>4. /\ conn'[c].st = "pending" /\ conn'[c].registered = conn[c].registered
        /\ acc'.at = "verify" /\ acc'.c = c /\ acc.c = None
    BY <1>0, <2>1, <2>3 DEF ConnRec, AccRec, ConnInv
  <2> QED BY <1>0, <2>1, <2>3, <2>4 DEF Moved, ConnInv
<1>5. CASE Verify
  <2> PICK c \in Conns : acc.c = c
    BY <1>0, <1>5 DEF Verify
  <2>1. CASE acc' = [acc EXCEPT !.at = "register"] /\ UNCHANGED conn
    <3>1. acc'.at = "register" /\ acc'.c = c /\ acc.at = "verify"
      BY <1>0, <1>5, <2>1 DEF Verify, AccRec
    <3> QED BY <1>0, <2>1, <3>1 DEF Moved, ConnInv
  <2>2. CASE /\ conn' = [conn EXCEPT ![c] = [conn[c] EXCEPT !.st = "refused"]]
             /\ acc' = [acc EXCEPT !.at = "create", !.c = None] \/ Gone
    <3>1. [conn[c] EXCEPT !.st = "refused"] \in ConnRec
      BY <1>0 DEF ConnRec
    <3>2. /\ conn' \in [Conns -> ConnRec] /\ conn'[c] = [conn[c] EXCEPT !.st = "refused"]
          /\ \A d \in Conns \ {c} : conn'[d] = conn[d]
      BY <2>2, <3>1, ConnEdit
    <3>3. conn'[c].st = "refused" /\ conn'[c].registered = conn[c].registered
      BY <1>0, <3>2 DEF ConnRec
    <3>4. acc'.at \in {"create", "gone"} /\ acc'.c = None /\ acc.at = "verify"
      BY <1>0, <1>5, <2>2 DEF AccRec, Verify, Gone
    <3>6. conn[c].st = "pending" /\ ~conn[c].registered
      BY <1>0, <3>4 DEF ConnInv
    <3>7. ASSUME NEW d \in Conns
          PROVE  /\ conn'[d].st # "pending"
                 /\ conn'[d].registered => conn'[d].st \in {"started", "live"}
                 /\ conn'[d].st \in {"started", "live"} => conn'[d].kept
      <4>1. CASE d = c
        BY <3>3, <3>6, <4>1
      <4>2. CASE d # c
        BY <3>2, <3>4, <4>2 DEF ConnInv
      <4> QED BY <4>1, <4>2
    <3>8. ConnInv'
      BY <1>0, <3>4, <3>7 DEF ConnInv
    <3> QED BY <3>2, <3>3, <3>4, <3>6, <3>8 DEF Moved
  <2> QED BY <1>0, <1>5, <2>1, <2>2 DEF Verify
<1>6. CASE RegisterConnection
  <2> PICK c \in Conns : acc.c = c
    BY <1>0, <1>6 DEF RegisterConnection
  <2>1. /\ acc.at = "register" /\ acc' = [acc EXCEPT !.at = "spawn"]
        /\ conn' = [conn EXCEPT ![c] = [conn[c] EXCEPT !.registered = TRUE]]
    BY <1>0, <1>6 DEF RegisterConnection
  <2>2. [conn[c] EXCEPT !.registered = TRUE] \in ConnRec
    BY <1>0 DEF ConnRec
  <2>3. /\ conn' \in [Conns -> ConnRec] /\ conn'[c] = [conn[c] EXCEPT !.registered = TRUE]
        /\ \A d \in Conns \ {c} : conn'[d] = conn[d]
    BY <2>1, <2>2, ConnEdit
  <2>4. conn'[c].st = conn[c].st /\ conn'[c].kept = conn[c].kept
        /\ acc'.at = "spawn" /\ acc'.c = c
    BY <1>0, <2>1, <2>3 DEF ConnRec, AccRec
  <2> QED BY <1>0, <2>1, <2>3, <2>4 DEF Moved, ConnInv
<1>7. CASE Spawn
  <2> PICK c \in Conns : acc.c = c
    BY <1>0, <1>7 DEF Spawn
  <2>0. acc'.at = "create" /\ acc'.c = None /\ acc.at = "spawn"
    BY <1>0, <1>7 DEF Spawn, AccRec
  <2>1. CASE conn' = [d \in Conns |->
               IF d = c THEN [conn[d] EXCEPT !.st = "started", !.kept = TRUE]
               ELSE [conn[d] EXCEPT !.kept = @ /\ conn[d].st # "ended"]]
    <3>1. \A d \in Conns \ {c} : /\ conn'[d] \in ConnRec /\ conn'[d].st = conn[d].st
                                 /\ conn'[d].registered = conn[d].registered
                                 /\ conn[d].st # "ended" => conn'[d].kept = conn[d].kept
      BY <1>0, <2>1 DEF ConnRec
    <3>2. /\ conn'[c] \in ConnRec /\ conn'[c].st = "started" /\ conn'[c].kept
      BY <1>0, <2>1 DEF ConnRec
    <3>3. conn' \in [Conns -> ConnRec]
      BY <2>1, <3>1, <3>2
    <3>4. conn[c].st = "pending"
      BY DEF ConnInv
    <3>5. ConnInv'
      <4>1. \A d \in Conns \ {c} : conn[d].st # "pending" /\ acc'.c # d
        BY <1>0, <2>0 DEF ConnInv
      <4> QED BY <1>0, <2>0, <3>1, <3>2, <4>1 DEF ConnInv
    <3> QED BY <2>0, <3>1, <3>2, <3>3, <3>4, <3>5 DEF Moved
  <2>2. CASE conn' = [conn EXCEPT ![c] = [conn[c] EXCEPT !.st = "refused", !.registered = FALSE]]
    <3>1. [conn[c] EXCEPT !.st = "refused", !.registered = FALSE] \in ConnRec
      BY <1>0 DEF ConnRec
    <3>2. /\ conn' \in [Conns -> ConnRec]
          /\ conn'[c] = [conn[c] EXCEPT !.st = "refused", !.registered = FALSE]
          /\ \A d \in Conns \ {c} : conn'[d] = conn[d]
      BY <2>2, <3>1, ConnEdit
    <3>3. conn'[c].st = "refused" /\ ~conn'[c].registered /\ conn[c].st = "pending"
      BY <1>0, <3>2 DEF ConnRec, ConnInv
    <3>4. ASSUME NEW d \in Conns
          PROVE  /\ conn'[d].st # "pending"
                 /\ conn'[d].registered => conn'[d].st \in {"started", "live"}
                 /\ conn'[d].st \in {"started", "live"} => conn'[d].kept
      <4>1. CASE d = c
        BY <3>3, <4>1
      <4>2. CASE d # c
        BY <2>0, <3>2, <4>2 DEF ConnInv
      <4> QED BY <4>1, <4>2
    <3>5. ConnInv'
      BY <1>0, <2>0, <3>4 DEF ConnInv
    <3> QED BY <3>2, <3>3, <3>5 DEF Moved
  <2> QED BY <1>0, <1>7, <2>1, <2>2 DEF Spawn
<1>8. ASSUME NEW c \in Conns, Run(c) \/ End(c) \/ ClientLeaves(c) PROVE Moved
  <2>1. CASE Run(c)
    <3>1. [conn[c] EXCEPT !.st = "live"] \in ConnRec
      BY <1>0 DEF ConnRec
    <3>2. conn' = [conn EXCEPT ![c] = [conn[c] EXCEPT !.st = "live"]] /\ acc' = acc
          /\ conn[c].st = "started"
      BY <1>0, <2>1 DEF Run
    <3>3. /\ conn' \in [Conns -> ConnRec] /\ conn'[c] = [conn[c] EXCEPT !.st = "live"]
          /\ \A d \in Conns \ {c} : conn'[d] = conn[d]
      BY <3>1, <3>2, ConnEdit
    <3>4. conn'[c].st = "live" /\ conn'[c].kept = conn[c].kept
      BY <1>0, <3>3 DEF ConnRec
    <3> QED BY <1>0, <2>1, <3>2, <3>3, <3>4 DEF Moved, ConnInv
  <2>2. CASE End(c)
    <3>1. [conn[c] EXCEPT !.st = "ended", !.registered = FALSE] \in ConnRec
      BY <1>0 DEF ConnRec
    <3>2. conn' = [conn EXCEPT ![c] = [conn[c] EXCEPT !.st = "ended", !.registered = FALSE]]
          /\ acc' = acc /\ conn[c].st = "live"
      BY <1>0, <2>2 DEF End
    <3>3. /\ conn' \in [Conns -> ConnRec]
          /\ conn'[c] = [conn[c] EXCEPT !.st = "ended", !.registered = FALSE]
          /\ \A d \in Conns \ {c} : conn'[d] = conn[d]
      BY <3>1, <3>2, ConnEdit
    <3>4. conn'[c].st = "ended" /\ ~conn'[c].registered
      BY <1>0, <3>3 DEF ConnRec
    <3> QED BY <1>0, <2>2, <3>2, <3>3, <3>4 DEF Moved, ConnInv
  <2>3. CASE ClientLeaves(c)
    <3>1. [conn[c] EXCEPT !.cut = TRUE] \in ConnRec
      BY <1>0 DEF ConnRec
    <3>2. conn' = [conn EXCEPT ![c] = [conn[c] EXCEPT !.cut = TRUE]] /\ acc' = acc
      BY <1>0, <2>3 DEF ClientLeaves
    <3>3. /\ conn' \in [Conns -> ConnRec] /\ conn'[c] = [conn[c] EXCEPT !.cut = TRUE]
          /\ \A d \in Conns \ {c} : conn'[d] = conn[d]
      BY <3>1, <3>2, ConnEdit
    <3>4. /\ conn'[c].st = conn[c].st /\ conn'[c].kept = conn[c].kept
          /\ conn'[c].registered = conn[c].registered
      BY <1>0, <3>3 DEF ConnRec
    <3> QED BY <1>1, <3>2, <3>3, <3>4
  <2> QED BY <1>8, <2>1, <2>2, <2>3
<1>9. CASE UNCHANGED conn /\ UNCHANGED acc
  BY <1>0, <1>1, <1>9
<1>10. CASE StartServer \/ PipeSecurity \/ Listen \/ ListenFails \/ AcceptStopped
  <2>1. /\ conn' = conn /\ acc.at \notin {"verify", "register", "spawn"}
        /\ acc'.at \notin {"verify", "register", "spawn"} /\ acc'.c = acc.c
    <3>1. CASE StartServer
      BY <1>0, <3>1 DEF StartServer, AccRec, At, JoinInv, Early
    <3>2. CASE PipeSecurity \/ Listen \/ ListenFails
      BY <1>0, <3>2 DEF PipeSecurity, Listen, ListenFails, AccRec
    <3>3. CASE AcceptStopped
      BY <1>0, <3>3 DEF AcceptStopped, Gone, AccRec, ConnInv
    <3> QED BY <1>10, <3>1, <3>2, <3>3
  <2> QED BY <1>0, <2>1 DEF Moved, ConnInv
<1>11. CASE \/ LoadConfig \/ CreateEngine \/ IndexStart \/ ServerReady \/ ServerNotReady
            \/ AbandonServer \/ ListenerLost \/ SeeClients \/ IdleShouldStop \/ StopSeen \/ TimePasses
            \/ JoinFlusher \/ FlushAndClear \/ Shutdown
  <2>1. UNCHANGED conn /\ UNCHANGED acc
    BY <1>11 DEF LoadConfig, CreateEngine, IndexStart, ServerReady, ServerNotReady,
       AbandonServer, ListenerLost, SeeClients, IdleShouldStop, StopSeen, TimePasses, JoinFlusher,
       FlushAndClear, Shutdown
  <2> QED BY <2>1, <1>9
<1>12. CASE \/ FlusherStops \/ EmitBegin \/ EmitCall \/ ScanDone
            \/ StopAsked \/ LockFreed \/ Terminated \/ UNCHANGED hostVars
            \/ \E c \in Conns : Subscribe(c) \/ WriterStep(c)
  <2>1. UNCHANGED conn /\ UNCHANGED acc
    BY <1>12 DEF FlusherStops, EmitBegin, EmitCall, ScanDone, StopAsked, LockFreed, Terminated,
       Subscribe, WriterStep, WriteEvent, WriterEnds, hostVars
  <2> QED BY <2>1, <1>9
<1> QED BY <1>2, <1>3, <1>4, <1>5, <1>6, <1>7, <1>8, <1>10, <1>11, <1>12
        DEF HostNext, HostStep, AcceptStep, ConnStep

\* Nothing is accepted once the accept thread was joined, and no thread is left once the
\* connections were.
LEMMA JoinInvStep == ASSUME HostTypes, ConnInv, JoinInv, ExitInv, [HostNext]_hostVars PROVE JoinInv'
<1>1. host'.at \in Early => acc'.at = "off"
  <2>1. host'.at \in Early => host.at \in Early
    BY HostMoves
  <2>2. host'.at # "await" \/ host'.at \notin Early
    BY DEF Early
  <2> QED BY <2>1, <2>2, AccMoves DEF JoinInv
<1>2. host'.at \in Joined => acc'.at = "gone"
  <2>1. host.at \in Joined => acc'.at = "gone"
    BY AccMoves DEF JoinInv, Joined, Quieted
  <2> QED BY <2>1, HostMoves
<1>3. host'.at \in Quieted => \A c \in Conns : conn'[c].st \notin {"started", "live"}
  <2>1. CASE host.at \in Quieted
    <3>1. acc.at = "gone"
      BY <2>1 DEF JoinInv, Joined
    <3> QED BY <2>1, <3>1, ConnMoves DEF Moved, JoinInv
  <2>2. CASE JoinConns
    <3>1. \A c \in Conns : conn[c].kept => conn[c].st = "ended"
      BY <2>2 DEF JoinConns
    <3>2. \A c \in Conns : conn[c].st \notin {"started", "live"}
      BY <3>1 DEF ConnInv
    <3>3. acc.at = "gone"
      BY <2>2 DEF JoinConns, JoinInv, Joined
    <3> QED BY <3>2, <3>3, ConnMoves DEF Moved
  <2> QED BY <2>1, <2>2, HostMoves
<1> QED BY <1>1, <1>2, <1>3 DEF JoinInv

\* The count of live connections is that of their threads.
LEMMA CountInvStep ==
  ASSUME HostTypes, ConnInv, JoinInv, CountInv, [HostNext]_hostVars PROVE CountInv' /\ active' \in Int
<1>0. IsFiniteSet(Live) /\ Cardinality(Live) \in Nat /\ active \in Int
  <2>1. Live \subseteq Conns
    BY DEF Live
  <2> QED BY <2>1, HostAssumption, FS_Subset, FS_CardinalityType DEF HostTypes
<1>1. ASSUME NEW c \in Conns, Run(c) PROVE CountInv' /\ active' \in Int
  <2>1. /\ active' = active + 1 /\ conn[c].st = "started"
        /\ conn' = [conn EXCEPT ![c] = [conn[c] EXCEPT !.st = "live"]]
    BY <1>1 DEF Run, HostTypes
  <2>2. /\ conn'[c].st = "live" /\ \A d \in Conns \ {c} : conn'[d] = conn[d]
    BY <2>1 DEF HostTypes, ConnRec
  <2>3. Live' = Live \cup {c} /\ c \notin Live
    BY <2>1, <2>2 DEF Live
  <2>4. Cardinality(Live') = Cardinality(Live) + 1
    BY <1>0, <2>3, FS_AddElement
  <2> QED BY <1>0, <2>1, <2>4 DEF CountInv
<1>2. ASSUME NEW c \in Conns, End(c) PROVE CountInv' /\ active' \in Int
  <2>1. /\ active' = active - 1 /\ conn[c].st = "live"
        /\ conn' = [conn EXCEPT ![c] = [conn[c] EXCEPT !.st = "ended", !.registered = FALSE]]
    BY <1>2 DEF End, HostTypes
  <2>2. /\ conn'[c].st = "ended" /\ \A d \in Conns \ {c} : conn'[d] = conn[d]
    BY <2>1 DEF HostTypes, ConnRec
  <2>3. Live' = Live \ {c} /\ c \in Live
    BY <2>1, <2>2 DEF Live
  <2>4. Cardinality(Live') = Cardinality(Live) - 1
    BY <1>0, <2>3, FS_RemoveElement
  <2> QED BY <1>0, <2>1, <2>4 DEF CountInv
<1>3. CASE \A c \in Conns : ~Run(c) /\ ~End(c)
  <2>1. Live' = Live
    BY <1>3, ConnMoves DEF Moved, Live
  <2>2. active' = active
    <3>1. CASE HostStep \/ ServerNotReady \/ TimePasses \/ FlusherStops
      BY <3>1 DEF HostStep, LoadConfig, CreateEngine, IndexStart, StartServer, ServerReady,
         ServerNotReady, AbandonServer, StartFlusher, PublishRunning, ListenerLost, SeeClients,
         IdleShouldStop, StopSeen, TimePasses, Stamp, JoinAccept, JoinConns, JoinFlusher, FlushAndClear,
         Shutdown, FlusherStops
    <3>2. CASE \/ AcceptStep \/ ListenFails \/ EmitBegin \/ EmitCall \/ ScanDone
               \/ StopAsked \/ LockFreed \/ Terminated \/ UNCHANGED hostVars
               \/ \E c \in Conns : \/ Accept(c) \/ ClientLeaves(c) \/ Subscribe(c)
                                   \/ WriterStep(c)
      BY <3>2 DEF AcceptStep, PipeSecurity, Listen, AcceptStopped, Verify, RegisterConnection,
         Spawn, ListenFails, EmitBegin, EmitCall, ScanDone, StopAsked, LockFreed, Terminated,
         Accept, ClientLeaves, Subscribe, WriterStep, WriteEvent, WriterEnds, hostVars
    <3> QED BY <1>3, <3>1, <3>2 DEF HostNext, ConnStep
  <2> QED BY <1>0, <2>1, <2>2 DEF CountInv
<1> QED BY <1>1, <1>2, <1>3

-----------------------------------------------------------------------------
(* The event queues *)

\* The last index, or one of those before it.
LEMMA LastIndex ==
  ASSUME NEW n \in Nat, NEW j \in 1 .. n + 1 PROVE j = n + 1 \/ j \in 1 .. n
  OBVIOUS

\* The last index of a concatenation, by which part is the last that is not empty.
LEMMA LastOfBoth ==
  ASSUME NEW m \in Nat, NEW n \in Nat, n > 0
  PROVE  /\ m + n \in 1 .. m + n
         /\ ~(m + n <= m)
         /\ m + n # 0
         /\ (m + n) - m = n
  OBVIOUS

\* The same where the second part is empty.
LEMMA LastOfFirst ==
  ASSUME NEW m \in Nat, NEW n \in Nat, m > 0, n = 0
  PROVE  /\ m + n \in 1 .. m + n
         /\ m + n <= m
         /\ m + n = m
         /\ m + n # 0
  OBVIOUS

\* An index of a concatenation is one of the first part or one of the second.
LEMMA SplitIndex ==
  ASSUME NEW m \in Nat, NEW n \in Nat, NEW i \in 1 .. m + n
  PROVE  /\ i \in Int /\ (i <= m => i \in 1 .. m)
         /\ ~(i <= m) => i - m \in 1 .. n
  OBVIOUS

\* An increasing queue without its first event.
LEMMA TailIncreasing ==
  ASSUME NEW q \in Seq(Nat), q # <<>>, Increasing(q)
  PROVE  /\ Tail(q) \in Seq(Nat) /\ Len(Tail(q)) = Len(q) - 1 /\ Len(q) \in Nat \ {0}
         /\ \A i \in 1 .. Len(Tail(q)) : Tail(q)[i] = q[i + 1] /\ i + 1 \in 1 .. Len(q)
         /\ Increasing(Tail(q))
         /\ Head(q) = q[1] /\ \A i \in 1 .. Len(Tail(q)) : q[1] < Tail(q)[i]
<1>1. Len(q) \in Nat \ {0}
  BY EmptySeq
<1>2. Tail(q) \in Seq(Nat) /\ Len(Tail(q)) = Len(q) - 1 /\ Head(q) = q[1]
  BY <1>1
<1>3. \A i \in 1 .. Len(Tail(q)) : Tail(q)[i] = q[i + 1] /\ i + 1 \in 1 .. Len(q)
  BY <1>1
<1>4. Increasing(Tail(q))
  <2> SUFFICES ASSUME NEW i \in 1 .. Len(Tail(q)), NEW j \in 1 .. Len(Tail(q)), i < j
               PROVE  Tail(q)[i] < Tail(q)[j]
    BY DEF Increasing
  <2> QED BY <1>3 DEF Increasing
<1>5. \A i \in 1 .. Len(Tail(q)) : q[1] < Tail(q)[i]
  <2> TAKE i \in 1 .. Len(Tail(q))
  <2>1. 1 \in 1 .. Len(q) /\ i + 1 \in 1 .. Len(q) /\ 1 < i + 1
    BY <1>1, <1>3
  <2> QED BY <1>3, <2>1 DEF Increasing
<1> QED BY <1>1, <1>2, <1>3, <1>4, <1>5

\* An increasing queue with a newer event at its end.
LEMMA AppendIncreasing ==
  ASSUME NEW q \in Seq(Nat), NEW e \in Nat, Increasing(q), \A i \in 1 .. Len(q) : q[i] < e
  PROVE  /\ Append(q, e) \in Seq(Nat) /\ Len(Append(q, e)) = Len(q) + 1
         /\ Append(q, e)[Len(q) + 1] = e /\ Append(q, e) # <<>>
         /\ \A i \in 1 .. Len(q) : Append(q, e)[i] = q[i]
         /\ Increasing(Append(q, e))
<1>1. /\ Append(q, e) \in Seq(Nat) /\ Len(Append(q, e)) = Len(q) + 1
      /\ Append(q, e)[Len(q) + 1] = e /\ Append(q, e) # <<>> /\ Len(q) \in Nat
  <2>1. Len(q) \in Nat
    BY LenProperties
  <2> QED BY <2>1, AppendProperties
<1>2. \A i \in 1 .. Len(q) : Append(q, e)[i] = q[i]
  BY AppendProperties
<1>3. Increasing(Append(q, e))
  <2> SUFFICES ASSUME NEW i \in 1 .. Len(q) + 1, NEW j \in 1 .. Len(q) + 1, i < j
               PROVE  Append(q, e)[i] < Append(q, e)[j]
    BY <1>1 DEF Increasing
  <2>1. i \in 1 .. Len(q)
    BY <1>1
  <2>2. CASE j = Len(q) + 1
    BY <1>1, <1>2, <2>1, <2>2
  <2>3. CASE j # Len(q) + 1
    <3>1. j \in 1 .. Len(q)
      BY <1>1, <2>3, LastIndex
    <3> QED BY <1>2, <2>1, <3>1 DEF Increasing
  <2> QED BY <2>2, <2>3
<1> QED BY <1>1, <1>2, <1>3

\* A push keeps a feed sound, whether or not the queue is full.
LEMMA PushSound ==
  ASSUME NEW f \in FeedRec, NEW n \in Nat, FeedSound(f, n)
  PROVE  Push(f, n + 1) \in FeedRec /\ FeedSound(Push(f, n + 1), n + 1)
<1>0. /\ f.queue \in Seq(Nat) /\ f.sent \in Seq(Nat) /\ f.first \in Nat
      /\ f.closed \in BOOLEAN /\ f.writer \in {"off", "run", "ended"}
      /\ QueueCap \in Nat \ {0} /\ Len(f.queue) \in Nat /\ Len(f.sent) \in Nat
      /\ \A i \in 1 .. Len(f.queue) : f.queue[i] \in Nat
      /\ \A i \in 1 .. Len(f.sent) : f.sent[i] \in Nat
  BY HostAssumption, ElementOfSeq, LenProperties DEF FeedRec
<1>1. CASE f.writer = "off" \/ f.closed
  <2>1. Push(f, n + 1) = f
    BY <1>1 DEF Push
  <2>2. \A k \in Nat : k <= n => k <= n + 1
    OBVIOUS
  <2>3. /\ \A i \in 1 .. Len(f.sent) : f.sent[i] <= n + 1
        /\ \A i \in 1 .. Len(f.queue) : f.queue[i] <= n + 1
    BY <1>0, <2>2 DEF FeedSound
  <2>4. ~(f.writer = "run" /\ ~f.closed)
    BY <1>1
  <2> QED BY <2>1, <2>3, <2>4 DEF FeedSound
<1>2. CASE f.writer # "off" /\ ~f.closed
  <2> DEFINE q == IF Len(f.queue) >= QueueCap THEN Tail(f.queue) ELSE f.queue
             p == Append(q, n + 1)
  <2>1. Push(f, n + 1) = [f EXCEPT !.queue = p]
    BY <1>2 DEF Push
  <2>2. /\ q \in Seq(Nat) /\ Len(q) + 1 <= QueueCap /\ Increasing(q) /\ Len(q) \in Nat
        /\ \A i \in 1 .. Len(q) : \E j \in 1 .. Len(f.queue) : q[i] = f.queue[j]
    <3>1. CASE Len(f.queue) >= QueueCap
      <4>1. f.queue # <<>>
        BY <1>0, <3>1
      <4>2. /\ Tail(f.queue) \in Seq(Nat) /\ Len(Tail(f.queue)) = Len(f.queue) - 1
            /\ Increasing(Tail(f.queue))
            /\ \A i \in 1 .. Len(Tail(f.queue)) :
                 Tail(f.queue)[i] = f.queue[i + 1] /\ i + 1 \in 1 .. Len(f.queue)
        BY <1>0, <4>1, TailIncreasing DEF FeedSound
      <4>3. Len(f.queue) <= QueueCap
        BY DEF FeedSound
      <4>4. q = Tail(f.queue)
        BY <3>1
      <4> HIDE DEF q
      <4>5. Len(q) + 1 <= QueueCap /\ Len(q) \in Nat
        BY <1>0, <4>1, <4>2, <4>3, <4>4, EmptySeq
      <4> QED BY <4>2, <4>4, <4>5
    <3>2. CASE ~(Len(f.queue) >= QueueCap)
      BY <1>0, <3>2 DEF FeedSound
    <3> QED BY <3>1, <3>2
  <2>3. \A i \in 1 .. Len(q) : q[i] \in Nat /\ q[i] < n + 1
    <3> TAKE i \in 1 .. Len(q)
    <3>1. PICK j \in 1 .. Len(f.queue) : q[i] = f.queue[j]
      BY <2>2
    <3>2. f.queue[j] \in Nat /\ f.queue[j] <= n
      BY <1>0 DEF FeedSound
    <3> HIDE DEF q
    <3> QED BY <3>1, <3>2
  <2>4. \A i \in 1 .. Len(f.sent), j \in 1 .. Len(q) : f.sent[i] < q[j]
    <3> TAKE i \in 1 .. Len(f.sent), j \in 1 .. Len(q)
    <3>1. PICK k \in 1 .. Len(f.queue) : q[j] = f.queue[k]
      BY <2>2
    <3> HIDE DEF q
    <3> QED BY <3>1 DEF FeedSound
  <2> HIDE DEF q
  <2>5. /\ p \in Seq(Nat) /\ Len(p) = Len(q) + 1 /\ p[Len(q) + 1] = n + 1 /\ p # <<>>
        /\ \A i \in 1 .. Len(q) : p[i] = q[i]
        /\ Increasing(p)
    <3>1. n + 1 \in Nat
      OBVIOUS
    <3>2. \A i \in 1 .. Len(q) : q[i] < n + 1
      BY <2>3
    <3> QED BY <2>2, <3>1, <3>2, AppendIncreasing
  <2> HIDE DEF p
  <2>6. \A i \in 1 .. Len(f.sent) : f.sent[i] \in Nat /\ f.sent[i] < n + 1 /\ f.sent[i] <= n + 1
    <3> TAKE i \in 1 .. Len(f.sent)
    <3>1. f.sent[i] \in Nat /\ f.sent[i] <= n
      BY <1>0 DEF FeedSound
    <3> QED BY <3>1
  <2>7. ASSUME NEW j \in 1 .. Len(p)
        PROVE  p[j] <= n + 1 /\ \A i \in 1 .. Len(f.sent) : f.sent[i] < p[j]
    <3>1. CASE j = Len(q) + 1
      BY <2>5, <2>6, <3>1
    <3>2. CASE j # Len(q) + 1
      <4>1. j \in 1 .. Len(q)
        BY <2>2, <2>5, <3>2, LastIndex
      <4>2. p[j] = q[j] /\ q[j] \in Nat /\ q[j] < n + 1
        BY <2>3, <2>5, <4>1
      <4> QED BY <2>4, <4>1, <4>2
    <3> QED BY <3>1, <3>2
  <2>8. /\ [f EXCEPT !.queue = p] \in FeedRec
        /\ [f EXCEPT !.queue = p].queue = p /\ [f EXCEPT !.queue = p].sent = f.sent
        /\ [f EXCEPT !.queue = p].writer = f.writer /\ [f EXCEPT !.queue = p].closed = f.closed
        /\ [f EXCEPT !.queue = p].first = f.first
    BY <2>5 DEF FeedRec
  <2>9. Len(p) <= QueueCap /\ p[Len(p)] = n + 1 /\ Increasing(f.sent)
    BY <2>2, <2>5 DEF FeedSound
  <2> QED BY <1>2, <2>1, <2>5, <2>6, <2>7, <2>8, <2>9 DEF FeedSound
<1> QED BY <1>0, <1>1, <1>2

\* A write takes the oldest event from the queue to the pipe.
LEMMA WriteSound ==
  ASSUME NEW f \in FeedRec, NEW n \in Nat, FeedSound(f, n), f.queue # <<>>, f.writer = "run",
         NEW g, g = [f EXCEPT !.queue = Tail(f.queue), !.sent = Append(f.sent, Head(f.queue))]
  PROVE  g \in FeedRec /\ FeedSound(g, n)
<1>0. /\ f.queue \in Seq(Nat) /\ f.sent \in Seq(Nat) /\ f.first \in Nat
      /\ Len(f.queue) \in Nat \ {0} /\ Len(f.sent) \in Nat /\ QueueCap \in Nat
      /\ Increasing(f.queue) /\ Increasing(f.sent)
      /\ \A i \in 1 .. Len(f.queue) : f.queue[i] \in Nat
      /\ \A i \in 1 .. Len(f.sent) : f.sent[i] \in Nat
  <2>1. f.queue \in Seq(Nat) /\ f.sent \in Seq(Nat) /\ f.first \in Nat /\ QueueCap \in Nat
    BY HostAssumption DEF FeedRec
  <2>2. Increasing(f.queue) /\ Increasing(f.sent)
    BY DEF FeedSound
  <2>3. Len(f.queue) \in Nat \ {0} /\ Len(f.sent) \in Nat
    BY <2>1, EmptySeq
  <2>4. /\ \A i \in 1 .. Len(f.queue) : f.queue[i] \in Nat
        /\ \A i \in 1 .. Len(f.sent) : f.sent[i] \in Nat
    BY <2>1, ElementOfSeq
  <2> QED BY <2>1, <2>2, <2>3, <2>4
<1> DEFINE h == Head(f.queue)  t == Tail(f.queue)  s == Append(f.sent, h)
<1>1. /\ t \in Seq(Nat) /\ Len(t) = Len(f.queue) - 1
      /\ \A i \in 1 .. Len(t) : t[i] = f.queue[i + 1] /\ i + 1 \in 1 .. Len(f.queue)
      /\ Increasing(t) /\ h = f.queue[1] /\ \A i \in 1 .. Len(t) : f.queue[1] < t[i]
  BY <1>0, TailIncreasing
<1>2. 1 \in 1 .. Len(f.queue) /\ h \in Nat /\ h <= n
  BY <1>0, <1>1 DEF FeedSound
<1>3. \A i \in 1 .. Len(f.sent) : f.sent[i] < h
  BY <1>1, <1>2 DEF FeedSound
<1>4. /\ s \in Seq(Nat) /\ Len(s) = Len(f.sent) + 1 /\ s[Len(f.sent) + 1] = h /\ s # <<>>
      /\ \A i \in 1 .. Len(f.sent) : s[i] = f.sent[i]
      /\ Increasing(s)
  BY <1>0, <1>2, <1>3, AppendIncreasing
<1> HIDE DEF h, t, s
<1>5. ASSUME NEW i \in 1 .. Len(s)
      PROVE  s[i] <= n /\ \A j \in 1 .. Len(t) : s[i] < t[j]
  <2>1. CASE i = Len(f.sent) + 1
    BY <1>1, <1>2, <1>4, <2>1
  <2>2. CASE i # Len(f.sent) + 1
    <3>1. i \in 1 .. Len(f.sent)
      BY <1>0, <1>4, <2>2, LastIndex
    <3>2. s[i] = f.sent[i] /\ f.sent[i] <= n
      BY <1>4, <3>1 DEF FeedSound
    <3>3. \A j \in 1 .. Len(t) : f.sent[i] < f.queue[j + 1]
      BY <1>1, <3>1 DEF FeedSound
    <3> QED BY <1>1, <3>2, <3>3
  <2> QED BY <2>1, <2>2
<1>6. \A j \in 1 .. Len(t) : t[j] <= n
  BY <1>1 DEF FeedSound
<1>7. Len(t) <= QueueCap
  <2>1. Len(f.queue) <= QueueCap
    BY DEF FeedSound
  <2> QED BY <1>0, <1>1, <2>1
<1>8. ~f.closed /\ n > f.first =>
        IF t # <<>> THEN t[Len(t)] = n ELSE s # <<>> /\ s[Len(s)] = n
  <2> HAVE ~f.closed /\ n > f.first
  <2>1. f.queue[Len(f.queue)] = n
    BY DEF FeedSound
  <2>2. CASE t # <<>>
    <3>1. Len(t) \in 1 .. Len(t)
      BY <1>1, <2>2, EmptySeq
    <3>2. t[Len(t)] = f.queue[Len(t) + 1]
      BY <1>1, <3>1
    <3>3. Len(t) + 1 = Len(f.queue)
      BY <1>0, <1>1
    <3> QED BY <2>1, <2>2, <3>2, <3>3
  <2>3. CASE t = <<>>
    <3>1. Len(f.queue) = 1
      BY <1>0, <1>1, <2>3
    <3> QED BY <1>1, <1>4, <2>1, <2>3, <3>1
  <2> QED BY <2>2, <2>3
<1>9. /\ g \in FeedRec /\ g.queue = t /\ g.sent = s /\ g.writer = "run"
      /\ g.closed = f.closed /\ g.first = f.first
  BY <1>1, <1>4 DEF FeedRec, h, t, s
<1> QED BY <1>1, <1>4, <1>5, <1>6, <1>7, <1>8, <1>9 DEF FeedSound

\* One feed changes, the others do not.
LEMMA FeedEdit ==
  ASSUME HostTypes, FeedInv, NEW c \in Conns, NEW r \in FeedRec, FeedSound(r, emitted),
         feed' = [feed EXCEPT ![c] = r], emitted' = emitted
  PROVE  feed' \in [Conns -> FeedRec] /\ FeedInv' /\ emitted' \in Nat
<1>1. /\ feed' \in [Conns -> FeedRec] /\ feed'[c] = r
      /\ \A d \in Conns \ {c} : feed'[d] = feed[d]
  BY DEF HostTypes
<1> QED BY <1>1 DEF FeedInv, HostTypes

\* No step loses the newest event, or sends events out of order.
LEMMA FeedInvStep ==
  ASSUME HostTypes, FeedInv, [HostNext]_hostVars
  PROVE  feed' \in [Conns -> FeedRec] /\ FeedInv' /\ emitted' \in Nat
<1>0. /\ feed \in [Conns -> FeedRec] /\ emitted \in Nat
      /\ \A c \in Conns : feed[c] \in FeedRec /\ FeedSound(feed[c], emitted)
  BY DEF HostTypes, FeedInv
<1>1. CASE UNCHANGED <<feed, emitted>>
  BY <1>0, <1>1 DEF FeedInv
<1>2. ASSUME NEW c \in Conns, Subscribe(c)
      PROVE  feed' \in [Conns -> FeedRec] /\ FeedInv' /\ emitted' \in Nat
  <2> DEFINE r == [feed[c] EXCEPT !.writer = "run", !.first = emitted]
  <2>1. feed' = [feed EXCEPT ![c] = r] /\ emitted' = emitted /\ feed[c].writer = "off"
    BY <1>0, <1>2 DEF Subscribe
  <2>2. /\ r \in FeedRec /\ r.queue = feed[c].queue /\ r.sent = feed[c].sent
        /\ r.writer = "run" /\ r.first = emitted
    BY <1>0 DEF FeedRec
  <2>3. ~(emitted > emitted)
    BY <1>0
  <2> HIDE DEF r
  <2>4. FeedSound(r, emitted)
    BY <1>0, <2>2, <2>3 DEF FeedSound
  <2> QED BY <2>1, <2>2, <2>4, FeedEdit
<1>3. ASSUME NEW c \in Conns, End(c)
      PROVE  feed' \in [Conns -> FeedRec] /\ FeedInv' /\ emitted' \in Nat
  <2> DEFINE r == [feed[c] EXCEPT !.closed = TRUE]
  <2>1. feed' = [feed EXCEPT ![c] = r] /\ emitted' = emitted
    BY <1>0, <1>3 DEF End
  <2>2. /\ r \in FeedRec /\ r.queue = feed[c].queue /\ r.sent = feed[c].sent
        /\ r.writer = feed[c].writer /\ r.closed
    BY <1>0 DEF FeedRec
  <2> HIDE DEF r
  <2>3. FeedSound(r, emitted)
    BY <1>0, <2>2 DEF FeedSound
  <2> QED BY <2>1, <2>2, <2>3, FeedEdit
<1>4. ASSUME NEW c \in Conns, WriterEnds(c) \/ (WriteEvent(c) /\ conn[c].cut)
      PROVE  feed' \in [Conns -> FeedRec] /\ FeedInv' /\ emitted' \in Nat
  <2> DEFINE r == [feed[c] EXCEPT !.writer = "ended"]
  <2>1. feed' = [feed EXCEPT ![c] = r] /\ emitted' = emitted
    BY <1>0, <1>4 DEF WriterEnds, WriteEvent
  <2>2. /\ r \in FeedRec /\ r.queue = feed[c].queue /\ r.sent = feed[c].sent
        /\ r.writer = "ended"
    BY <1>0 DEF FeedRec
  <2> HIDE DEF r
  <2>3. FeedSound(r, emitted)
    BY <1>0, <2>2 DEF FeedSound
  <2> QED BY <2>1, <2>2, <2>3, FeedEdit
<1>5. ASSUME NEW c \in Conns, WriteEvent(c), ~conn[c].cut
      PROVE  feed' \in [Conns -> FeedRec] /\ FeedInv' /\ emitted' \in Nat
  <2> DEFINE r == [feed[c] EXCEPT !.queue = Tail(feed[c].queue),
                                  !.sent = Append(feed[c].sent, Head(feed[c].queue))]
  <2>1. /\ feed' = [feed EXCEPT ![c] = r] /\ emitted' = emitted
        /\ feed[c].writer = "run" /\ feed[c].queue # <<>>
    BY <1>0, <1>5 DEF WriteEvent
  <2>2. r \in FeedRec /\ FeedSound(r, emitted)
    BY <1>0, <2>1, WriteSound
  <2> HIDE DEF r
  <2> QED BY <2>1, <2>2, FeedEdit
<1>6. CASE EmitCall
  <2>1. emitted' = emitted + 1 /\ feed' = [c \in Conns |-> Push(feed[c], emitted + 1)]
    BY <1>6 DEF EmitCall
  <2>2. \A c \in Conns : feed'[c] \in FeedRec /\ FeedSound(feed'[c], emitted + 1)
    BY <1>0, <2>1, PushSound
  <2>3. emitted + 1 \in Nat
    BY <1>0
  <2>4. feed' \in [Conns -> FeedRec]
    BY <2>1, <2>2
  <2> QED BY <2>1, <2>2, <2>3, <2>4 DEF FeedInv
<1>7. CASE HostStep \/ ServerNotReady \/ TimePasses \/ FlusherStops
  <2>1. UNCHANGED <<feed, emitted>>
    BY <1>7 DEF HostStep, LoadConfig, CreateEngine, IndexStart, StartServer, ServerReady,
       ServerNotReady, AbandonServer, StartFlusher, PublishRunning, ListenerLost, SeeClients,
       IdleShouldStop, StopSeen, TimePasses, Stamp, JoinAccept, JoinConns, JoinFlusher, FlushAndClear,
       Shutdown, FlusherStops
  <2> QED BY <1>1, <2>1
<1>8. CASE \/ AcceptStep \/ ListenFails \/ EmitBegin \/ ScanDone
           \/ StopAsked \/ LockFreed \/ Terminated \/ UNCHANGED hostVars
           \/ \E c \in Conns : Accept(c) \/ ClientLeaves(c) \/ Run(c)
  <2>1. UNCHANGED <<feed, emitted>>
    BY <1>8 DEF AcceptStep, PipeSecurity, Listen, AcceptStopped, Verify, RegisterConnection,
       Spawn, ListenFails, EmitBegin, ScanDone, StopAsked, LockFreed, Terminated,
       Accept, ClientLeaves, Run, hostVars
  <2> QED BY <1>1, <2>1
<1> QED BY <1>2, <1>3, <1>4, <1>5, <1>6, <1>7, <1>8 DEF HostNext, ConnStep, WriterStep

-----------------------------------------------------------------------------
(* The invariant and the theorems *)

\* A service that has not begun has nothing to tear down.
LEMMA HostInvInit == ASSUME HostInit PROVE HostInv
<1> USE DEF HostInit
<1>0. None \notin Conns /\ None = "none"
  BY HostAssumption DEF None
<1>1. HostTypes
  <2>1. <<>> \in Seq(Nat) /\ 0 \in Nat
    OBVIOUS
  <2>2. host \in HostRec
    BY DEF HostRec, HostAt
  <2>3. engine \in EngineRec
    BY DEF EngineRec
  <2>4. acc \in AccRec
    BY DEF AccRec, AccAt
  <2>5. conn \in [Conns -> ConnRec]
    BY DEF ConnRec
  <2>6. feed \in [Conns -> FeedRec]
    BY <2>1 DEF FeedRec
  <2> QED BY <2>1, <2>2, <2>3, <2>4, <2>5, <2>6 DEF HostTypes
<1>2. ConnInv
  BY <1>0 DEF ConnInv
<1>3. JoinInv
  BY DEF JoinInv, Early, Joined, Quieted
<1>4. ExitInv
  BY <1>0 DEF ExitInv
<1>5. CountInv
  <2>1. Live = {}
    BY DEF Live
  <2> QED BY <2>1, FS_EmptySet DEF CountInv
<1>6. FeedInv
  <2>1. Len(<<>>) = 0 /\ QueueCap \in Nat
    BY HostAssumption
  <2>2. \A c \in Conns : /\ feed[c].queue = <<>> /\ feed[c].sent = <<>>
                         /\ feed[c].writer = "off"
    OBVIOUS
  <2> HIDE DEF HostInit
  <2> QED BY <2>1, <2>2 DEF FeedInv, FeedSound, Increasing
<1> QED BY <1>1, <1>2, <1>3, <1>4, <1>5, <1>6 DEF HostInv

\* Every step of every thread keeps the invariant.
LEMMA HostInvStep == ASSUME HostInv, [HostNext]_hostVars PROVE HostInv'
<1>0. HostTypes /\ ConnInv /\ JoinInv /\ ExitInv /\ CountInv /\ FeedInv
  BY DEF HostInv
<1>1. JoinInv' /\ ExitInv'
  BY <1>0, JoinInvStep, ExitInvStep
<1>2. CountInv' /\ active' \in Int
  BY <1>0, CountInvStep
<1>3. FeedInv' /\ feed' \in [Conns -> FeedRec] /\ emitted' \in Nat
  BY <1>0, FeedInvStep
<1>4. ConnInv' /\ conn' \in [Conns -> ConnRec]
  BY <1>0, ConnMoves DEF Moved
<1>5. host' \in HostRec /\ engine' \in EngineRec /\ acc' \in AccRec
  BY <1>0, HostMoves, EngineMoves, AccMoves
<1> QED BY <1>1, <1>2, <1>3, <1>4, <1>5 DEF HostInv, HostTypes

\* The service thread, the accept thread, the connections and the event writers stay in
\* the states the invariant describes (host.rs, server.rs, events.rs of fmf-service).
THEOREM HostInvHolds == HostSpec => []HostInv
<1>1. HostInit => HostInv
  BY HostInvInit
<1>2. HostInv /\ [HostNext]_hostVars => HostInv'
  BY HostInvStep
<1> QED BY <1>1, <1>2, PTL DEF HostSpec

\* The final flush and the engine's shutdown never overlap a request, whatever was being
\* accepted when the stop was raised, and a clean exit code is never given to a service
\* that lost its listener or could not stamp its use (server.rs join_all_threads,
\* host.rs run_until_stopped).
THEOREM TeardownIsQuiet == HostSpec => []StopsCleanly
<1>1. HostInv => StopsCleanly
  <2> SUFFICES ASSUME HostInv PROVE StopsCleanly
    OBVIOUS
  <2>0. HostTypes /\ ConnInv /\ JoinInv /\ ExitInv /\ CountInv /\ FeedInv
    BY DEF HostInv
  <2>1. HostTypeOK
    <3>1. /\ host.scm \in {"StartPending", "Running", "Stopped"}
          /\ host.code \in {None, "ok", "io", "locked"}
          /\ acc.c \in Conns \cup {None}
      BY <2>0 DEF HostTypes, HostRec, AccRec
    <3>2. \A c \in Conns :
            /\ conn[c].st \in {"away", "pending", "refused", "started", "live", "ended"}
            /\ feed[c].writer \in {"off", "run", "ended"}
            /\ Len(feed[c].queue) <= QueueCap
      BY <2>0 DEF HostTypes, ConnRec, FeedRec, FeedInv, FeedSound
    <3> QED BY <2>0, <3>1, <3>2 DEF HostTypeOK, CountInv, Live
  <2>2. QuietTeardown
    <3> SUFFICES ASSUME host.at \in Quieted
                 PROVE  /\ acc.at = "gone"
                        /\ \A c \in Conns : /\ conn[c].st \notin {"pending", "started", "live"}
                                            /\ ~conn[c].registered
      BY DEF QuietTeardown, Quieted
    <3>1. acc.at = "gone" /\ \A c \in Conns : conn[c].st \notin {"started", "live"}
      BY <2>0 DEF JoinInv, Joined
    <3>2. \A c \in Conns : acc.c # c
      BY <2>0, <3>1, HostAssumption DEF ConnInv
    <3> QED BY <2>0, <3>1, <3>2 DEF ConnInv
  <2>3. HonestExit
    BY <2>0 DEF HonestExit, ExitInv
  <2> QED BY <2>1, <2>2, <2>3 DEF StopsCleanly
<1> QED BY <1>1, HostInvHolds, PTL

\* A subscriber is sent events in the order they were emitted, and an overflow of its
\* queue never costs it the newest one (events.rs EventQueue::push).
THEOREM NewestIsKept == HostSpec => []NewestEventKept
<1>1. HostInv => NewestEventKept
  <2> SUFFICES ASSUME HostInv, NEW c \in Conns
               PROVE  LET all == feed[c].sent \o feed[c].queue
                      IN  /\ \A i, j \in DOMAIN all : i < j => all[i] < all[j]
                          /\ (feed[c].writer = "run" /\ ~feed[c].closed /\ emitted > feed[c].first)
                               => all # <<>> /\ all[Len(all)] = emitted
    BY DEF NewestEventKept
  <2> DEFINE s == feed[c].sent  q == feed[c].queue  all == s \o q
  <2>0. s \in Seq(Nat) /\ q \in Seq(Nat) /\ FeedSound(feed[c], emitted)
    BY DEF HostInv, HostTypes, FeedRec, FeedInv
  <2>1. /\ Len(all) = Len(s) + Len(q) /\ DOMAIN all = 1 .. Len(s) + Len(q)
        /\ \A i \in 1 .. Len(s) + Len(q) :
             all[i] = IF i <= Len(s) THEN s[i] ELSE q[i - Len(s)]
        /\ Len(s) \in Nat /\ Len(q) \in Nat
    <3>1. all \in Seq(Nat) /\ Len(all) = Len(s) + Len(q)
      BY <2>0, ConcatProperties
    <3>2. \A i \in 1 .. Len(s) + Len(q) :
            all[i] = IF i <= Len(s) THEN s[i] ELSE q[i - Len(s)]
      BY <2>0, ConcatProperties
    <3>3. Len(s) \in Nat /\ Len(q) \in Nat
      BY <2>0, LenProperties
    <3> HIDE DEF all
    <3>4. DOMAIN all = 1 .. Len(all)
      BY <3>1, LenProperties
    <3> QED BY <3>1, <3>2, <3>3, <3>4
  <2> HIDE DEF all
  <2> PICK m \in Nat, n \in Nat : m = Len(s) /\ n = Len(q)
    BY <2>1
  <2>5. \A i \in 1 .. m + n : all[i] = IF i <= m THEN s[i] ELSE q[i - m]
    BY <2>1
  <2>6. \A i \in 1 .. m + n : /\ i \in Int /\ (i <= m => i \in 1 .. m)
                              /\ ~(i <= m) => i - m \in 1 .. n
    BY SplitIndex
  <2>4. \A i \in 1 .. m + n : /\ i \in Int
                              /\ (i <= m) => (i \in 1 .. m /\ all[i] = s[i])
                              /\ ~(i <= m) => (i - m \in 1 .. n /\ all[i] = q[i - m])
    BY <2>5, <2>6
  <2>2. ASSUME NEW i \in DOMAIN all, NEW j \in DOMAIN all, i < j PROVE all[i] < all[j]
    <3>0. i \in 1 .. m + n /\ j \in 1 .. m + n
      BY <2>1
    <3>1. CASE j <= m
      <4>1. i <= m
        BY <2>2, <3>0, <3>1
      <4>2. i \in 1 .. m /\ j \in 1 .. m /\ all[i] = s[i] /\ all[j] = s[j]
        BY <2>4, <3>0, <3>1, <4>1
      <4> QED BY <2>0, <2>2, <4>2 DEF FeedSound, Increasing
    <3>2. CASE i <= m /\ ~(j <= m)
      <4>1. /\ i \in 1 .. m /\ all[i] = s[i]
            /\ j - m \in 1 .. n /\ all[j] = q[j - m]
        BY <2>4, <3>0, <3>2
      <4>2. s[i] < q[j - m]
        BY <2>0, <4>1 DEF FeedSound
      <4> QED BY <4>1, <4>2
    <3>3. CASE ~(i <= m) /\ ~(j <= m)
      <4>1. /\ i - m \in 1 .. n /\ all[i] = q[i - m]
            /\ j - m \in 1 .. n /\ all[j] = q[j - m]
        BY <2>4, <3>0, <3>3
      <4>2. i - m < j - m
        BY <2>2, <3>0
      <4>3. q[i - m] < q[j - m]
        BY <2>0, <4>1, <4>2 DEF FeedSound, Increasing
      <4> QED BY <4>1, <4>3
    <3>4. i <= m \/ ~(j <= m)
      BY <2>2, <3>0
    <3> QED BY <3>1, <3>2, <3>3, <3>4
  <2>3. (feed[c].writer = "run" /\ ~feed[c].closed /\ emitted > feed[c].first)
          => all # <<>> /\ all[Len(all)] = emitted
    <3> HAVE feed[c].writer = "run" /\ ~feed[c].closed /\ emitted > feed[c].first
    <3>1. CASE q # <<>>
      <4>1. q[Len(q)] = emitted
        BY <2>0, <3>1 DEF FeedSound
      <4>2. Len(q) > 0
        BY <2>0, <3>1, EmptySeq
      <4>5. n > 0
        BY <4>2
      <4>3. m + n \in 1 .. m + n /\ ~(m + n <= m) /\ m + n # 0
        BY <4>5, LastOfBoth
      <4>6. (m + n) - m = n
        BY <4>5, LastOfBoth
      <4>7. all[m + n] = q[(m + n) - m]
        BY <2>4, <4>3
      <4>4. all[m + n] = emitted
        BY <4>1, <4>6, <4>7
      <4> QED BY <2>1, <4>3, <4>4, EmptySeq
    <3>2. CASE q = <<>>
      <4>1. s # <<>> /\ s[Len(s)] = emitted
        BY <2>0, <3>2 DEF FeedSound
      <4>2. Len(s) > 0 /\ Len(q) = 0
        BY <2>0, <3>2, <4>1, EmptySeq
      <4>5. m > 0 /\ n = 0
        BY <4>2
      <4>3. m + n \in 1 .. m + n /\ m + n <= m /\ m + n = m /\ m + n # 0
        BY <4>5, LastOfFirst
      <4>4. all[m + n] = emitted
        BY <2>4, <4>1, <4>3
      <4> QED BY <2>1, <4>3, <4>4, EmptySeq
    <3> QED BY <3>1, <3>2
  <2> QED BY <2>2, <2>3 DEF all
<1> QED BY <1>1, HostInvHolds, PTL
==============================================================================
