---------------------------- MODULE VolumeWorker ----------------------------
(***************************************************************************)
(* One NTFS volume as the engine indexes it: the volume thread             *)
(* (fmf-core engine/worker.rs), the slot it shares with the rest of the    *)
(* engine (engine/volume.rs), the USN journal session (usn/session.rs),    *)
(* the snapshot file (index/snapshot.rs) and any number of threads that    *)
(* call Engine::flush (engine/mod.rs).  The process may be killed and      *)
(* started again at any point.                                             *)
(*                                                                         *)
(* Data is abstracted to one question: WHICH CHANGES DOES AN INDEX         *)
(* REFLECT?  The volume's changes are numbered 1, 2, ..., vol, and the     *)
(* content of an index is the set "has" of changes it reflects.  A journal *)
(* numbers its records from zero: USN u of journal j is the cursor after   *)
(* change jbase[j] + u.  Applying a record twice is the identity on "has", *)
(* which is the idempotence engine/volume.rs:37 relies on.                 *)
(***************************************************************************)
EXTENDS Naturals, FiniteSets

CONSTANTS
  Flushers,      \* threads that call Engine::flush
  None,          \* "absent": no checkpoint, index, snapshot, lock owner
  MaxVol,        \* bound: changes made to the volume
  MaxJournals,   \* bound: journals created on the volume
  MaxFaults,     \* bound: failures injected by the environment
  MaxRestarts,   \* bound: times the process is started again
  RemoveMayFail  \* can deleting the snapshot file fail?

Worker == "worker"     \* owner of save_lock when the volume thread holds it

Checkpoint == [id : Nat, next : Nat]
Snapshot   == [id : Nat, next : Nat, has : SUBSET Nat]
Index      == [has : SUBSET Nat, content : Nat, structural : Nat]

ASSUME BoundsAssumption ==
  /\ MaxVol \in Nat
  /\ MaxJournals \in Nat \ {0}
  /\ MaxFaults \in Nat
  /\ MaxRestarts \in Nat
  /\ RemoveMayFail \in BOOLEAN

ASSUME NoneAssumption ==
  /\ None \notin Checkpoint
  /\ None \notin Snapshot
  /\ None \notin Index
  /\ None \notin Flushers
  /\ None # Worker
  /\ Worker \notin Flushers

\* ... and no pair of generations.
ASSUME PairAssumption == None \notin Nat \X Nat

VARIABLES
  \* The volume and its change journal.
  vol,       \* changes made so far
  jid,       \* identity of the newest journal
  jlive,     \* is that journal active?
  jbase,     \* jbase[j]: changes made before journal j was created
  jfirst,    \* oldest USN the newest journal still retains
  \* The snapshot file.
  snap,
  \* The VolumeSlot.
  phase, ckpt, idx, lastSaved, saveLock, stop,
  \* The volume thread: control point, journal session, working values.
  pc,
  sid,       \* UsnJournal::journal_id of the open session (0: none)
  snext,     \* UsnJournal::next_usn
  loaded,    \* what store.load() returned
  from,      \* first change NOT covered: of a running scan, or of a batch
  built,     \* an index not yet installed
  \* The flushing threads.
  fpc, fck,  \* control point, and the checkpoint copied at mod.rs:472
  \* Budgets that bound the environment.
  faults, restarts

journalVars == <<vol, jid, jlive, jbase, jfirst>>
slotVars    == <<phase, ckpt, idx, lastSaved, saveLock, stop>>
workVars    == <<sid, snext, loaded, from, built>>
flushVars   == <<fpc, fck>>
budgets     == <<faults, restarts>>
vars == <<journalVars, snap, slotVars, pc, workVars, flushVars, budgets>>

-----------------------------------------------------------------------------
(* Journal positions *)

\* The number of the last change before cursor u of journal j.
Pos(j, u) == jbase[j] + u

\* The records the session has read and not yet applied.
Batch == (from + 1) .. Pos(sid, snext)

\* Does content h reflect every change before checkpoint c?
Covers(h, c) == (1 .. Pos(c.id, c.next)) \subseteq h

Fault == /\ faults > 0
         /\ faults' = faults - 1
         /\ UNCHANGED restarts

Generations(i) == <<i.content, i.structural>>

-----------------------------------------------------------------------------
(* Initial state: a volume with a journal, no snapshot, a worker spawned.   *)

Init ==
  /\ vol = 0 /\ jid = 1 /\ jlive = TRUE /\ jfirst = 0
  /\ jbase = [j \in 1 .. MaxJournals |-> 0]
  /\ snap = None
  /\ phase = "Scanning" /\ ckpt = None /\ idx = None
  /\ lastSaved = None /\ saveLock = None /\ stop = FALSE
  /\ pc = "open" /\ sid = 0 /\ snext = 0
  /\ loaded = None /\ from = 0 /\ built = None
  /\ fpc = [f \in Flushers |-> "idle"]
  /\ fck = [f \in Flushers |-> None]
  /\ faults = MaxFaults /\ restarts = MaxRestarts

-----------------------------------------------------------------------------
(* The volume and the operating system *)

\* A file is created, renamed, written or deleted.  An inactive journal does
\* not record it.
VolumeChange ==
  /\ vol < MaxVol
  /\ vol' = vol + 1
  /\ UNCHANGED <<jid, jlive, jbase, jfirst, snap, slotVars, pc, workVars,
                 flushVars, budgets>>

\* NTFS discards the oldest records of a full journal.
JournalTrim ==
  /\ jlive
  /\ \E u \in jfirst + 1 .. vol - jbase[jid] : jfirst' = u
  /\ UNCHANGED <<vol, jid, jlive, jbase, snap, slotVars, pc, workVars,
                 flushVars, budgets>>

\* An administrator deletes the journal; the next open creates another.
JournalDelete ==
  /\ jlive
  /\ jid < MaxJournals
  /\ jlive' = FALSE
  /\ UNCHANGED <<vol, jid, jbase, jfirst, snap, slotVars, pc, workVars,
                 flushVars, budgets>>

-----------------------------------------------------------------------------
(* The volume thread: establishing an index *)

\* The thread returns: its session and working values are dropped.
Return ==
  /\ pc' = "exit"
  /\ sid' = 0 /\ snext' = 0 /\ loaded' = None /\ from' = 0 /\ built' = None

\* The thread gives up on the volume: phase Failed, and it returns.
FailVolume ==
  /\ phase' = "Failed"
  /\ Return
  /\ UNCHANGED <<journalVars, snap, ckpt, idx, lastSaved, stop, flushVars>>

\* A check of the stop flag that finds it set.
StopAt(points) ==
  /\ pc \in points
  /\ stop
  /\ Return
  /\ UNCHANGED <<journalVars, snap, slotVars, flushVars, budgets>>

StopUnready == StopAt({"open", "scan", "scanned", "wired"})

\* Mutant of OpenJournal: the cursor stands on the last record, not after it.
OpenJournalAtLastRecord ==
  /\ pc = "open" /\ ~stop /\ jlive
  /\ pc' = "load"
  /\ sid' = jid
  /\ snext' = vol - jbase[jid] - 1
  /\ UNCHANGED <<journalVars, snap, slotVars, loaded, from, built, flushVars,
                 budgets>>

\* UsnJournal::open with no start cursor: query the journal, create it when it
\* is not active, and stand at its end.
OpenJournal ==
  /\ pc = "open"
  /\ ~stop
  /\ pc' = "load"
  /\ IF jlive
       THEN UNCHANGED <<jid, jlive, jbase, jfirst>>
       ELSE /\ jid' = jid + 1
            /\ jlive' = TRUE
            /\ jbase' = [jbase EXCEPT ![jid + 1] = vol]
            /\ jfirst' = 0
  /\ sid' = jid'
  /\ snext' = vol - jbase'[jid']
  /\ UNCHANGED <<vol, snap, slotVars, loaded, from, built, flushVars, budgets>>

OpenFails ==
  /\ pc = "open" /\ ~stop
  /\ Fault /\ FailVolume /\ UNCHANGED saveLock

\* store.load(): the snapshot, nothing on a first run.
Load ==
  /\ pc = "load"
  /\ pc' = "decide"
  /\ loaded' = snap
  /\ UNCHANGED <<journalVars, snap, slotVars, sid, snext, from, built,
                 flushVars, budgets>>

\* A snapshot that cannot be read or does not validate counts as absent.
LoadUnusable ==
  /\ pc = "load"
  /\ Fault
  /\ pc' = "decide"
  /\ loaded' = None
  /\ UNCHANGED <<journalVars, snap, slotVars, sid, snext, from, built,
                 flushVars>>

\* snapshot_decision: the persisted cursor is replayable from the journal
\* that FSCTL_QUERY shows now.  The query fails on an inactive journal.
Replayable(s) ==
  /\ s # None
  /\ jlive
  /\ s.id = jid
  /\ s.next >= jfirst

Restore ==
  /\ pc = "decide"
  /\ Replayable(loaded)
  /\ snext' = loaded.next
  /\ built' = [has |-> loaded.has, content |-> 0, structural |-> 0]
  /\ loaded' = None
  /\ pc' = "scanned"
  /\ UNCHANGED <<journalVars, snap, slotVars, sid, from, flushVars, budgets>>

StartScan ==
  /\ pc = "decide"
  /\ ~ Replayable(loaded)
  /\ from' = vol
  /\ loaded' = None
  /\ pc' = "scan"
  /\ UNCHANGED <<journalVars, snap, slotVars, sid, snext, built, flushVars,
                 budgets>>

\* scan_volume_cancellable returned an index.  It reflects everything before
\* the scan began and any part of what happened while it ran.
ScanDone ==
  /\ pc = "scan"
  /\ ~stop
  /\ \E seen \in SUBSET (from + 1 .. vol) :
       built' = [has |-> (1 .. from) \cup seen, content |-> 0, structural |-> 0]
  /\ from' = 0
  /\ pc' = "scanned"
  /\ UNCHANGED <<journalVars, snap, slotVars, sid, snext, loaded, flushVars,
                 budgets>>

ScanFails ==
  /\ pc = "scan"
  /\ Fault /\ FailVolume /\ UNCHANGED saveLock

\* Mutant of OpenMetadata: the source is refreshed by another scan.
OpenMetadataRescanning ==
  /\ pc = "scanned" /\ ~stop
  /\ pc' = "rescan" /\ built' = None
  /\ UNCHANGED <<journalVars, snap, slotVars, sid, snext, loaded, from, flushVars, budgets>>

\* open_metadata_source precedes the installation of the index.
OpenMetadata ==
  /\ pc = "scanned"
  /\ ~stop
  /\ pc' = "wired"
  /\ UNCHANGED <<journalVars, snap, slotVars, workVars, flushVars, budgets>>

OpenMetadataFails ==
  /\ pc = "scanned" /\ ~stop
  /\ Fault /\ FailVolume /\ UNCHANGED saveLock

\* VolumeSlot::install_index: the structural generation moves past that of the
\* index being replaced.  The write lock excludes a save in progress.
InstallIndex(i) ==
  /\ saveLock = None
  /\ idx' = IF idx = None THEN i
            ELSE [i EXCEPT !.structural = idx.structural + 1]

Install ==
  /\ pc = "wired"
  /\ ~stop
  /\ InstallIndex(built)
  /\ built' = None
  /\ pc' = "publish"
  /\ UNCHANGED <<journalVars, snap, phase, ckpt, lastSaved, saveLock, stop,
                 sid, snext, loaded, from, flushVars, budgets>>

\* *slot.checkpoint = (journal_id(), next_usn()) of the session.
PublishCheckpoint ==
  /\ ckpt' = [id |-> sid, next |-> snext]
  /\ UNCHANGED <<journalVars, snap, phase, idx, lastSaved, saveLock, stop,
                 workVars, flushVars, budgets>>

PublishFirst ==
  /\ pc = "publish"
  /\ pc' = "ready"
  /\ PublishCheckpoint

BecomeReady ==
  /\ pc = "ready"
  /\ phase' = "Ready"
  /\ pc' = "tail"
  /\ UNCHANGED <<journalVars, snap, ckpt, idx, lastSaved, saveLock, stop,
                 workVars, flushVars, budgets>>

-----------------------------------------------------------------------------
(* The volume thread: tailing the journal *)

\* FSCTL_READ refuses a dead journal, another journal's id, and a cursor
\* that is no longer retained.
ReadGone == ~jlive \/ sid # jid \/ snext < jfirst

\* A complete batch: the cursor moves past it before it is applied.
ReadRecords ==
  /\ pc = "tail"
  /\ ~stop
  /\ ~ReadGone
  /\ \E u \in snext + 1 .. vol - jbase[jid] : snext' = u
  /\ from' = Pos(sid, snext)
  /\ pc' = "apply"
  /\ UNCHANGED <<journalVars, snap, slotVars, sid, loaded, built, flushVars,
                 budgets>>

\* A quiet journal: read_blocking parks and returns an empty batch.
ReadNothing ==
  /\ pc = "tail"
  /\ ~stop
  /\ ~ReadGone
  /\ Pos(jid, snext) = vol
  /\ UNCHANGED vars

\* The journal is gone: the tail loop ends in begin_rescan.
ReadFindsGone ==
  /\ pc = "tail"
  /\ ~stop
  /\ ReadGone
  /\ pc' = "rescan"
  /\ UNCHANGED <<journalVars, snap, slotVars, workVars, flushVars, budgets>>

\* A truncated or malformed batch leaves the cursor alone and forces a rescan.
ReadMalformed ==
  /\ pc = "tail" /\ ~stop
  /\ Fault
  /\ pc' = "rescan"
  /\ UNCHANGED <<journalVars, snap, slotVars, workVars, flushVars>>

ReadFails ==
  /\ pc = "tail" /\ ~stop
  /\ Fault /\ FailVolume /\ UNCHANGED saveLock

\* Mutant of Apply: the content generation is not moved.
ApplyUncounted ==
  /\ pc = "apply" /\ saveLock = None
  /\ idx' = [idx EXCEPT !.has = @ \cup Batch]
  /\ from' = 0
  /\ pc' = "advance"
  /\ UNCHANGED <<journalVars, snap, phase, ckpt, lastSaved, saveLock, stop,
                 sid, snext, loaded, built, flushVars, budgets>>

\* plan_batch then apply_planned under the write lock: every record of the
\* batch enters the index, whose content generation moves.
Apply ==
  /\ pc = "apply"
  /\ saveLock = None
  /\ idx' = [idx EXCEPT !.has = @ \cup Batch, !.content = @ + 1]
  /\ from' = 0
  /\ pc' = "advance"
  /\ UNCHANGED <<journalVars, snap, phase, ckpt, lastSaved, saveLock, stop,
                 sid, snext, loaded, built, flushVars, budgets>>

\* rescan_required: hard-link metadata was not available and nothing was
\* mutated, or the index refused some record and the rest of the batch went in.
ApplyRejected ==
  /\ pc = "apply"
  /\ saveLock = None
  /\ Fault
  /\ \/ UNCHANGED idx
     \/ \E part \in SUBSET Batch :
          idx' = [idx EXCEPT !.has = @ \cup part, !.content = @ + 1]
  /\ from' = 0
  /\ pc' = "rescan"
  /\ UNCHANGED <<journalVars, snap, phase, ckpt, lastSaved, saveLock, stop,
                 sid, snext, loaded, built, flushVars>>

PublishAfterApply ==
  /\ pc = "advance"
  /\ pc' = "compact"
  /\ PublishCheckpoint

\* maybe_compact: thresholds not reached.
SkipCompaction ==
  /\ pc = "compact"
  /\ pc' = "tail"
  /\ UNCHANGED <<journalVars, snap, slotVars, workVars, flushVars, budgets>>

\* maybe_compact: the compacted copy is built under a read guard...
CompactCopy ==
  /\ pc = "compact"
  /\ built' = [idx EXCEPT !.structural = 0]
  /\ pc' = "swap"
  /\ UNCHANGED <<journalVars, snap, slotVars, sid, snext, loaded, from,
                 flushVars, budgets>>

\* ... and swapped in when the content generation it was copied at is current.
CompactSwap ==
  /\ pc = "swap"
  /\ IF built.content = idx.content
       THEN InstallIndex([built EXCEPT !.content = 0])
       ELSE UNCHANGED idx
  /\ built' = None
  /\ pc' = "tail"
  /\ UNCHANGED <<journalVars, snap, phase, ckpt, lastSaved, saveLock, stop,
                 sid, snext, loaded, from, flushVars, budgets>>

-----------------------------------------------------------------------------
(* The volume thread: begin_rescan, in the order of its three effects *)

DropCheckpoint ==
  /\ pc = "rescan"
  /\ ckpt' = None
  /\ pc' = "mark"
  /\ UNCHANGED <<journalVars, snap, phase, idx, lastSaved, saveLock, stop,
                 workVars, flushVars, budgets>>

MarkRescanning ==
  /\ pc = "mark"
  /\ phase' = "Rescanning"
  /\ pc' = "remove"
  /\ UNCHANGED <<journalVars, snap, ckpt, idx, lastSaved, saveLock, stop,
                 workVars, flushVars, budgets>>

\* Mutant of RemoveSnapshot: the snapshot stays.
RemoveSnapshotKeeping ==
  /\ pc = "remove" /\ pc' = "open"
  /\ UNCHANGED <<journalVars, snap, slotVars, workVars, flushVars, budgets>>

RemoveSnapshot ==
  /\ pc = "remove"
  /\ snap' = None
  /\ pc' = "open"
  /\ UNCHANGED <<journalVars, slotVars, workVars, flushVars, budgets>>

\* SnapshotStore::remove ignores its failure.
RemoveFails ==
  /\ pc = "remove"
  /\ RemoveMayFail
  /\ Fault
  /\ pc' = "open"
  /\ UNCHANGED <<journalVars, snap, slotVars, workVars, flushVars>>

-----------------------------------------------------------------------------
(* The volume thread: stopping *)

\* save_slot with the session's own cursor: takes save_lock and a read guard.
StopSaveBegin ==
  /\ pc = "tail"
  /\ stop
  /\ saveLock = None
  /\ saveLock' = Worker
  /\ pc' = "stopsave"
  /\ UNCHANGED <<journalVars, snap, phase, ckpt, idx, lastSaved, stop,
                 workVars, flushVars, budgets>>

\* Mutant of Rename: the generations are recorded whether or not the save succeeds.
RenameRecordingFailure(c) ==
  /\ saveLock' = None /\ lastSaved' = Generations(idx)
  /\ \/ /\ snap' = [id |-> c.id, next |-> c.next, has |-> idx.has]
        /\ UNCHANGED budgets
     \/ Fault /\ UNCHANGED snap

\* The temporary file replaces the snapshot, or save_atomic fails and it stays.
Rename(c) ==
  /\ saveLock' = None
  /\ \/ /\ snap' = [id |-> c.id, next |-> c.next, has |-> idx.has]
        /\ lastSaved' = Generations(idx)
        /\ UNCHANGED budgets
     \/ /\ Fault
        /\ UNCHANGED <<snap, lastSaved>>

\* Mutant of StopSaveEnd: the thread tails on after its last save.
StopSaveEndTailing ==
  /\ pc = "stopsave" /\ pc' = "tail"
  /\ Rename([id |-> sid, next |-> snext])
  /\ UNCHANGED <<journalVars, phase, ckpt, idx, stop, workVars, flushVars>>

StopSaveEnd ==
  /\ pc = "stopsave"
  /\ Rename([id |-> sid, next |-> snext])
  /\ Return
  /\ UNCHANGED <<journalVars, phase, ckpt, idx, stop, flushVars>>

\* The panic firewall of volume_thread_with: locks are released by unwinding.
Panic ==
  /\ pc # "exit"
  /\ Fault
  /\ saveLock' = IF saveLock = Worker THEN None ELSE saveLock
  /\ FailVolume

-----------------------------------------------------------------------------
(* Engine::flush for this slot, by thread f *)

FlushPhase(f) ==
  /\ fpc[f] = "idle"
  /\ phase = "Ready"
  /\ fpc' = [fpc EXCEPT ![f] = "ckpt"]
  /\ UNCHANGED <<journalVars, snap, slotVars, pc, workVars, fck, budgets>>

FlushCheckpoint(f) ==
  /\ fpc[f] = "ckpt"
  /\ fck' = [fck EXCEPT ![f] = ckpt]
  /\ fpc' = [fpc EXCEPT ![f] = IF ckpt = None THEN "idle" ELSE "dirty"]
  /\ UNCHANGED <<journalVars, snap, slotVars, pc, workVars, budgets>>

FlushDirty(f) ==
  /\ fpc[f] = "dirty"
  /\ IF lastSaved = Generations(idx)
       THEN /\ fpc' = [fpc EXCEPT ![f] = "idle"]
            /\ fck' = [fck EXCEPT ![f] = None]
       ELSE /\ fpc' = [fpc EXCEPT ![f] = "save"]
            /\ UNCHANGED fck
  /\ UNCHANGED <<journalVars, snap, slotVars, pc, workVars, budgets>>

FlushSave(f) ==
  /\ fpc[f] = "save"
  /\ saveLock = None
  /\ saveLock' = f
  /\ fpc' = [fpc EXCEPT ![f] = "rename"]
  /\ UNCHANGED <<journalVars, snap, phase, ckpt, idx, lastSaved, stop, pc,
                 workVars, fck, budgets>>

FlushRename(f) ==
  /\ fpc[f] = "rename"
  /\ Rename(fck[f])
  /\ fpc' = [fpc EXCEPT ![f] = "idle"]
  /\ fck' = [fck EXCEPT ![f] = None]
  /\ UNCHANGED <<journalVars, phase, ckpt, idx, stop, pc, workVars>>

Flush(f) ==
  \/ FlushPhase(f) \/ FlushCheckpoint(f) \/ FlushDirty(f)
  \/ FlushSave(f)  \/ FlushRename(f)

-----------------------------------------------------------------------------
(* The process *)

\* Engine::shutdown raises the stop flag.
Shutdown ==
  /\ ~stop
  /\ stop' = TRUE
  /\ UNCHANGED <<journalVars, snap, phase, ckpt, idx, lastSaved, saveLock, pc,
                 workVars, flushVars, budgets>>

\* The process ends, orderly or killed, and a new one spawns the worker on a
\* fresh slot.  Only the volume, its journal and the snapshot file survive.
Restart ==
  /\ restarts > 0
  /\ restarts' = restarts - 1
  /\ phase' = "Scanning" /\ ckpt' = None /\ idx' = None
  /\ lastSaved' = None /\ saveLock' = None /\ stop' = FALSE
  /\ pc' = "open" /\ sid' = 0 /\ snext' = 0
  /\ loaded' = None /\ from' = 0 /\ built' = None
  /\ fpc' = [f \in Flushers |-> "idle"]
  /\ fck' = [f \in Flushers |-> None]
  /\ UNCHANGED <<journalVars, snap, faults>>

\* Nothing is left to do once the worker has returned.
Terminated ==
  /\ pc = "exit"
  /\ \A f \in Flushers : fpc[f] = "idle"
  /\ UNCHANGED vars

-----------------------------------------------------------------------------

Environment == VolumeChange \/ JournalTrim \/ JournalDelete

Establish ==
  \/ OpenJournal \/ Load \/ Restore \/ StartScan \/ ScanDone \/ OpenMetadata
  \/ Install \/ PublishFirst \/ BecomeReady

Tail ==
  \/ ReadRecords \/ ReadNothing \/ ReadFindsGone
  \/ Apply \/ PublishAfterApply \/ SkipCompaction \/ CompactCopy \/ CompactSwap

BeginRescan == DropCheckpoint \/ MarkRescanning \/ RemoveSnapshot

Stopping == StopUnready \/ StopSaveBegin \/ StopSaveEnd

Failure ==
  \/ OpenFails \/ LoadUnusable \/ ScanFails \/ OpenMetadataFails
  \/ ReadMalformed \/ ReadFails \/ ApplyRejected \/ RemoveFails \/ Panic

WorkerStep == Establish \/ Tail \/ BeginRescan \/ Stopping

Next ==
  \/ Environment \/ WorkerStep \/ Failure
  \/ \E f \in Flushers : Flush(f)
  \/ Shutdown \/ Restart \/ Terminated

Spec == Init /\ [][Next]_vars

\* The volume thread is scheduled, and a thread inside flush runs on: both are
\* ordinary OS threads, and every blocking call of theirs (a bounded park, a
\* scan, a lock held for one save) returns.  Nothing obliges anyone to change
\* the volume, to call flush, or to fail.
WorkerCan ==
  CASE pc = "exit" -> FALSE
    [] pc = "tail" /\ stop -> saveLock = None
    [] pc = "tail" /\ ~stop -> ReadGone \/ Pos(jid, snext) # vol
    [] pc = "wired" -> stop \/ saveLock = None
    [] pc = "apply" -> saveLock = None
    [] pc = "swap" -> built.content # idx.content \/ saveLock = None
    [] OTHER -> TRUE

Fairness ==
  /\ []<>~WorkerCan \/ []<><<TRUE>>_pc
  /\ \A f \in Flushers :
       \/ []<>(fpc[f] = "idle" \/ (fpc[f] = "save" /\ saveLock # None))
       \/ []<><<TRUE>>_(fpc[f])

FairSpec == Spec /\ Fairness

-----------------------------------------------------------------------------
(* Properties *)

Phases == {"Scanning", "Ready", "Rescanning", "Failed"}

WorkerPoints ==
  {"open", "load", "decide", "scan", "scanned", "wired", "publish", "ready",
   "tail", "apply", "advance", "compact", "swap", "rescan", "mark", "remove",
   "stopsave", "exit"}

FlushPoints == {"idle", "ckpt", "dirty", "save", "rename"}

\* Type invariant of the volume, the snapshot file, the slot (engine/volume.rs
\* VolumeSlot) and the threads that share it.
TypeOK ==
  /\ vol \in 0 .. MaxVol
  /\ jid \in 1 .. MaxJournals
  /\ jlive \in BOOLEAN
  /\ jbase \in [1 .. MaxJournals -> Nat]
  /\ jfirst \in Nat
  /\ snap \in Snapshot \cup {None}
  /\ phase \in Phases
  /\ ckpt \in Checkpoint \cup {None}
  /\ idx \in Index \cup {None}
  /\ lastSaved \in (Nat \X Nat) \cup {None}
  /\ saveLock \in Flushers \cup {Worker, None}
  /\ stop \in BOOLEAN
  /\ pc \in WorkerPoints
  /\ sid \in 0 .. MaxJournals
  /\ snext \in Nat
  /\ loaded \in Snapshot \cup {None}
  /\ from \in Nat
  /\ built \in Index \cup {None}
  /\ fpc \in [Flushers -> FlushPoints]
  /\ fck \in [Flushers -> Checkpoint \cup {None}]
  /\ faults \in Nat
  /\ restarts \in Nat

\* A snapshot reflects every change before the cursor saved with it, so that
\* a restore that replays the journal from that cursor loses nothing
\* (engine/volume.rs:32-37, engine/worker.rs:583-590).
NoLostChange == snap # None => Covers(snap.has, snap)

\* The shared checkpoint never runs ahead of the live index, whatever batch is
\* in flight and however the index was last replaced (worker.rs:583-594).
CheckpointCovered == ckpt # None => idx # None /\ Covers(idx.has, ckpt)

\* The dirty check of flush never skips a Ready volume whose file is missing or
\* differs from the live index: equal generations mean equal contents, across
\* compactions, rescans and a remove() between two saves (mod.rs:475-483).
CleanMeansSaved ==
  (/\ phase = "Ready" /\ ckpt # None
   /\ pc \notin {"rescan", "mark", "remove"}
   /\ idx # None
   /\ lastSaved = Generations(idx))
    => snap # None /\ snap.has = idx.has

\* An index extended in place, or replaced.
GenerationStep ==
  idx # None /\ idx' # None /\ idx' # idx =>
    \/ /\ idx'.structural = idx.structural
       /\ idx'.content > idx.content
       /\ idx.has \subseteq idx'.has
    \/ idx'.structural > idx.structural

\* Generations identify an index within a process: a step either extends the
\* index in place and moves its content generation, or replaces it and moves
\* the structural one; no pair is ever reused (volume.rs install_index).
GenerationsMove == [][GenerationStep]_vars

\* Once the volume stops changing and failures end, the index comes to reflect
\* every change, or the worker has returned (stop, or phase Failed).
Converges == <>[](pc = "exit" \/ (idx # None /\ idx.has = 1 .. vol))

\* A raised stop flag ends the volume thread: Engine::shutdown can join it.
StopEndsWorker == [](stop => <>(pc = "exit" \/ ~stop))

=============================================================================
