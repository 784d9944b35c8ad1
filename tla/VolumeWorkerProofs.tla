------------------------- MODULE VolumeWorkerProofs -------------------------
(***************************************************************************)
(* Proofs about VolumeWorker for any number of flushing threads, journals, *)
(* changes, failures and restarts.                                         *)
(*                                                                         *)
(* NoLostChange is not inductive.  A cursor travels from the session to    *)
(* the shared checkpoint, to a flushing thread, to the file, and back to a *)
(* session after a restart; at each hop the index it will be paired with   *)
(* may have been replaced.  The inductive invariant says that every cursor *)
(* in flight is covered by the index it would be saved with NOW, and that  *)
(* an index about to be installed covers every cursor still in flight.     *)
(***************************************************************************)
EXTENDS VolumeWorker, TLAPS

\* A cursor that some journal of the volume issued.
Issued(c) ==
  /\ c.id \in 1 .. jid
  /\ Pos(c.id, c.next) <= vol

Cursor == [id |-> sid, next |-> snext]

\* Points at which the worker owns a journal session.
SessionPoints == WorkerPoints \ {"open", "exit"}

\* Points at which the live index reflects everything before the session cursor.
CurrentPoints ==
  {"publish", "ready", "tail", "advance", "compact", "swap", "stopsave"}

\* Journals: each begins at a change already made, and a dead one can be replaced.
JournalInv ==
  /\ \A j \in 1 .. MaxJournals : jbase[j] <= vol
  /\ ~jlive => jid < MaxJournals

\* Every cursor was issued, and none by a journal newer than the open session's.
CursorInv ==
  /\ sid <= jid
  /\ pc \in SessionPoints => Issued(Cursor)
  /\ snap # None => Issued(snap) /\ (pc \in SessionPoints => snap.id <= sid)
  /\ loaded # None => Issued(loaded) /\ loaded.id <= sid
  /\ ckpt # None => Issued(ckpt) /\ (pc \in SessionPoints => ckpt.id <= sid)
  /\ \A f \in Flushers : fck[f] # None =>
       Issued(fck[f]) /\ (pc \in SessionPoints => fck[f].id <= sid)

\* Working values exist where the code uses them, and only there.
ControlInv ==
  /\ loaded # None => pc = "decide"
  /\ pc \in {"mark", "remove", "open", "load", "decide", "scan", "scanned",
              "wired", "publish"} => ckpt = None
  /\ pc \in {"scanned", "wired", "swap"} => built # None
  /\ pc \in CurrentPoints \cup {"apply"} => idx # None
  /\ ckpt # None => idx # None
  /\ \A f \in Flushers :
       /\ fpc[f] \in {"dirty", "save", "rename"} => fck[f] # None
       /\ fck[f] # None => idx # None

\* Every cursor is covered by the index it would be, or is, saved with.
CoverInv ==
  /\ snap # None => Covers(snap.has, snap)
  /\ loaded # None => Covers(loaded.has, loaded)
  /\ ckpt # None => Covers(idx.has, ckpt)
  /\ \A f \in Flushers : fck[f] # None => Covers(idx.has, fck[f])
  /\ pc \in CurrentPoints => Covers(idx.has, Cursor)
  /\ pc = "apply" => 1 .. from \subseteq idx.has

\* During a rescan the only snapshot that can be loaded is one a flush wrote
\* from the index still installed.
RescanInv ==
  pc \in {"open", "load", "decide"} /\ idx # None =>
    /\ snap # None => snap.has = idx.has
    /\ loaded # None => loaded.has = idx.has

\* An index under construction will cover every cursor in flight.
BuildInv ==
  /\ pc = "scan" =>
       /\ Pos(sid, snext) <= from
       /\ from <= vol
       /\ \A f \in Flushers : fck[f] # None => Pos(fck[f].id, fck[f].next) <= from
  /\ pc \in {"scanned", "wired"} =>
       /\ Covers(built.has, Cursor)
       /\ \A f \in Flushers : fck[f] # None => Covers(built.has, fck[f])
  /\ pc = "swap" => built.has = idx.has

\* Points at which the worker has an index of its own to publish, apply to or save.
OwnPoints == CurrentPoints \cup {"apply"}

\* What flush last saved is the live index or an earlier one: its generations are behind
\* the live ones, or are the live ones.  In that case the file, where it is there, holds
\* the live index; remove() takes it away only with the checkpoint, until an install.
SavedInv ==
  lastSaved # None =>
    /\ idx # None
    /\ \/ lastSaved[2] < idx.structural
       \/ lastSaved[2] = idx.structural /\ lastSaved[1] < idx.content
       \/ /\ lastSaved = Generations(idx)
          /\ snap # None => snap.has = idx.has
          /\ snap = None => ckpt = None /\ pc \notin OwnPoints

\* What holds of types, journals, cursors and control whether or not the
\* snapshot can be removed.
StructInv ==
  /\ TypeOK
  /\ JournalInv
  /\ CursorInv
  /\ ControlInv

IInv ==
  /\ StructInv
  /\ CoverInv
  /\ RescanInv
  /\ BuildInv

-----------------------------------------------------------------------------
(* What the operators of the model return *)

\* install_index makes the slot hold the content it was given.
LEMMA InstalledIndex ==
  ASSUME NEW i \in Index, idx \in Index \cup {None}, InstallIndex(i)
  PROVE  idx' \in Index /\ idx' # None /\ idx'.has = i.has
  BY NoneAssumption DEF InstallIndex, Index

\* A batch lies between the change it starts after and the session cursor.
LEMMA BatchBounds ==
  ASSUME TypeOK, sid \in 1 .. jid
  PROVE  /\ Batch \subseteq Nat
         /\ 1 .. Pos(sid, snext) \subseteq (1 .. from) \cup Batch
  BY BoundsAssumption DEF TypeOK, Batch, Pos

\* apply_planned extends the index by the batch, or by part of it.
LEMMA AppliedIndex ==
  ASSUME idx \in Index, NEW part \in SUBSET Nat,
         idx' = [idx EXCEPT !.has = @ \cup part, !.content = @ + 1]
  PROVE  idx' \in Index /\ idx' # None /\ idx'.has = idx.has \cup part
<1>1. idx' = [has |-> idx.has \cup part, content |-> idx.content + 1,
              structural |-> idx.structural]
  BY DEF Index
<1>2. idx' \in Index
  BY <1>1 DEF Index
<1> QED BY <1>1, <1>2, NoneAssumption

\* Creating a journal changes no position that an existing cursor denotes.
LEMMA OpenKeepsPositions ==
  ASSUME TypeOK, JournalInv, OpenJournal
  PROVE  /\ jid' \in 1 .. MaxJournals
         /\ jid <= jid'
         /\ jbase' \in [1 .. MaxJournals -> Nat]
         /\ \A j \in 1 .. jid : jbase'[j] = jbase[j]
         /\ jbase'[jid'] <= vol
         /\ \A j \in 1 .. MaxJournals : jbase'[j] <= vol
<1>1. CASE jlive
  BY <1>1 DEF TypeOK, JournalInv, OpenJournal
<1>2. CASE ~jlive
  <2>1. jid' = jid + 1 /\ jid + 1 \in 1 .. MaxJournals
    BY <1>2, BoundsAssumption DEF TypeOK, JournalInv, OpenJournal
  <2>2. jbase' = [jbase EXCEPT ![jid + 1] = vol] /\ vol \in Nat
    BY <1>2 DEF TypeOK, OpenJournal
  <2> QED BY <2>1, <2>2, BoundsAssumption DEF TypeOK, JournalInv
<1> QED BY <1>1, <1>2

-----------------------------------------------------------------------------
(* Each conjunct of the invariant is preserved *)

\* Every step preserves the types.  The interesting cases are those where a
\* value must be present (an index to apply to, a copied checkpoint to save).
LEMMA TypeOKStep ==
  ASSUME StructInv, Next PROVE TypeOK'
<1> USE BoundsAssumption, NoneAssumption DEF StructInv, TypeOK, JournalInv,
       ControlInv, FlushPoints, Phases, WorkerPoints, CurrentPoints,
       Checkpoint, Snapshot, Index, Pos, journalVars, slotVars, workVars,
       flushVars, budgets
<1>1. CASE Environment
  <2>1. CASE VolumeChange
    BY <2>1 DEF VolumeChange
  <2>2. CASE JournalTrim
    BY <2>2 DEF JournalTrim
  <2>3. CASE JournalDelete
    <3>1. jlive' \in BOOLEAN
      BY <2>3 DEF JournalDelete
    <3> QED BY <2>3, <3>1 DEF JournalDelete
  <2> QED BY <1>1, <2>1, <2>2, <2>3 DEF Environment
<1>2. CASE Establish
  <2>1. CASE OpenJournal
    <3>1. jlive' \in BOOLEAN
      BY <2>1 DEF OpenJournal
    <3>2. jfirst' \in Nat
      BY <2>1 DEF OpenJournal
    <3>3. snext' \in Nat
      BY <2>1, OpenKeepsPositions DEF OpenJournal
    <3>4. sid' \in 0 .. MaxJournals /\ vol' = vol /\ pc' = "load"
      BY <2>1, OpenKeepsPositions DEF OpenJournal
    <3>5. UNCHANGED <<snap, slotVars, loaded, from, built, flushVars, budgets>>
      BY <2>1 DEF OpenJournal
    <3>7. UNCHANGED <<phase, ckpt, idx, lastSaved, saveLock, stop, fpc, fck>>
      BY <3>5
    <3>6. jid' \in 1 .. MaxJournals /\ jbase' \in [1 .. MaxJournals -> Nat]
      BY <2>1, OpenKeepsPositions
    <3> HIDE DEF JournalInv, ControlInv, Checkpoint, Snapshot, Index, Pos
    <3> QED BY <3>1, <3>2, <3>3, <3>4, <3>5, <3>6, <3>7
  <2>2. CASE Load
    BY <2>2 DEF Load
  <2>3. CASE Restore
    BY <2>3 DEF Restore, Replayable
  <2>4. CASE StartScan
    BY <2>4 DEF StartScan, Replayable
  <2>5. CASE ScanDone
    BY <2>5 DEF ScanDone
  <2>6. CASE OpenMetadata
    BY <2>6 DEF OpenMetadata
  <2>7. CASE Install
    <3>1. idx' \in Index
      BY <2>7, InstalledIndex DEF Install
    <3> QED BY <2>7, <3>1 DEF Install
  <2>8. CASE PublishFirst
    BY <2>8 DEF PublishFirst, PublishCheckpoint
  <2>9. CASE BecomeReady
    BY <2>9 DEF BecomeReady
  <2> QED BY <1>2, <2>1, <2>2, <2>3, <2>4, <2>5, <2>6, <2>7, <2>8, <2>9 DEF
       Establish
<1>3. CASE Tail
  <2>1. CASE ReadRecords
    <3>1. snext' \in Nat
      BY <2>1 DEF ReadRecords
    <3>2. from' \in Nat
      <4>1. sid = jid /\ from' = jbase[sid] + snext
        BY <2>1 DEF ReadRecords, ReadGone
      <4> QED BY <4>1
    <3>3. pc' = "apply" /\ UNCHANGED <<journalVars, snap, slotVars, sid, loaded, built,
                                      flushVars, budgets>>
      BY <2>1 DEF ReadRecords
    <3> HIDE DEF JournalInv, ControlInv, Checkpoint, Snapshot, Index, Pos
    <3> QED BY <3>1, <3>2, <3>3
  <2>2. CASE ReadNothing
    BY <2>2 DEF ReadNothing, vars
  <2>3. CASE ReadFindsGone
    BY <2>3 DEF ReadFindsGone, ReadGone
  <2>4. CASE Apply
    <3>1. idx' \in Index
      BY <2>4, BatchBounds, AppliedIndex DEF Apply, CursorInv, SessionPoints, Issued, Cursor
    <3> HIDE DEF JournalInv, ControlInv, Checkpoint, Snapshot, Index, Pos
    <3> QED BY <2>4, <3>1 DEF Apply
  <2>5. CASE PublishAfterApply
    BY <2>5 DEF PublishAfterApply, PublishCheckpoint
  <2>6. CASE SkipCompaction
    BY <2>6 DEF SkipCompaction
  <2>7. CASE CompactCopy
    <3>1. built' \in Index /\ pc' = "swap"
      BY <2>7 DEF CompactCopy
    <3>2. UNCHANGED <<journalVars, snap, slotVars, sid, snext, loaded, from,
                      flushVars, budgets>>
      BY <2>7 DEF CompactCopy
    <3> HIDE DEF JournalInv, ControlInv
    <3> QED BY <3>1, <3>2
  <2>8. CASE CompactSwap
    <3>1. [built EXCEPT !.content = 0] \in Index
      BY <2>8 DEF CompactSwap
    <3>2. idx' \in Index
      BY <2>8, <3>1, InstalledIndex DEF CompactSwap
    <3>3. built' = None /\ pc' = "tail" /\ UNCHANGED <<journalVars, snap, phase, ckpt,
            lastSaved, saveLock, stop, sid, snext, loaded, from, flushVars, budgets>>
      BY <2>8 DEF CompactSwap
    <3> HIDE DEF JournalInv, ControlInv, Checkpoint, Snapshot, Index, Pos
    <3> QED BY <3>2, <3>3
  <2> QED BY <1>3, <2>1, <2>2, <2>3, <2>4, <2>5, <2>6, <2>7, <2>8 DEF Tail
<1>4. CASE BeginRescan
  <2>1. CASE DropCheckpoint
    BY <2>1 DEF DropCheckpoint
  <2>2. CASE MarkRescanning
    BY <2>2 DEF MarkRescanning
  <2>3. CASE RemoveSnapshot
    BY <2>3 DEF RemoveSnapshot
  <2> QED BY <1>4, <2>1, <2>2, <2>3 DEF BeginRescan
<1>5. CASE Stopping
  <2>1. CASE StopUnready
    BY <2>1 DEF StopUnready, StopAt, Return
  <2>2. CASE StopSaveBegin
    BY <2>2 DEF StopSaveBegin
  <2>3. CASE StopSaveEnd
    <3>1. snap' \in Snapshot \cup {None} /\ lastSaved' \in (Nat \X Nat) \cup {None}
      BY <2>3 DEF StopSaveEnd, Rename, Generations, Fault
    <3>2. faults' \in Nat /\ restarts' \in Nat
      BY <2>3 DEF StopSaveEnd, Rename, Fault
    <3> QED BY <2>3, <3>1, <3>2 DEF StopSaveEnd, Rename, Return
  <2> QED BY <1>5, <2>1, <2>2, <2>3 DEF Stopping
<1>6. CASE Failure
  <2>1. CASE OpenFails
    BY <2>1 DEF OpenFails, Fault, FailVolume, Return
  <2>2. CASE LoadUnusable
    BY <2>2 DEF LoadUnusable, Fault
  <2>3. CASE ScanFails
    BY <2>3 DEF ScanFails, Fault, FailVolume, Return
  <2>4. CASE OpenMetadataFails
    BY <2>4 DEF OpenMetadataFails, Fault, FailVolume, Return
  <2>5. CASE ReadMalformed
    BY <2>5 DEF ReadMalformed, Fault
  <2>6. CASE ReadFails
    BY <2>6 DEF ReadFails, Fault, FailVolume, Return
  <2>7. CASE ApplyRejected
    <3>1. idx' \in Index
      BY <2>7, BatchBounds, AppliedIndex DEF ApplyRejected, CursorInv, SessionPoints, Issued, Cursor
    <3>2. faults' \in Nat /\ restarts' \in Nat
      <4>1. Fault
        BY <2>7 DEF ApplyRejected
      <4> QED BY <4>1 DEF Fault
    <3> HIDE DEF JournalInv, ControlInv, Checkpoint, Snapshot, Index, Pos
    <3> QED BY <2>7, <3>1, <3>2, ZenonT(60) DEF ApplyRejected
  <2>8. CASE RemoveFails
    BY <2>8 DEF RemoveFails, Fault
  <2>9. CASE Panic
    BY <2>9 DEF Panic, Fault, FailVolume, Return
  <2> QED BY <1>6, <2>1, <2>2, <2>3, <2>4, <2>5, <2>6, <2>7, <2>8, <2>9 DEF
       Failure
<1>7. ASSUME NEW f \in Flushers, Flush(f) PROVE TypeOK'
  <2>1. CASE FlushPhase(f)
    BY <2>1 DEF FlushPhase
  <2>2. CASE FlushCheckpoint(f)
    BY <2>2 DEF FlushCheckpoint
  <2>3. CASE FlushDirty(f)
    <3>1. fpc' \in [Flushers -> FlushPoints]
      BY <2>3 DEF FlushDirty
    <3>2. fck' \in [Flushers -> Checkpoint \cup {None}]
      BY <2>3 DEF FlushDirty
    <3>3. UNCHANGED <<journalVars, snap, slotVars, pc, workVars, budgets>>
      BY <2>3 DEF FlushDirty
    <3> HIDE DEF JournalInv, ControlInv
    <3> QED BY <3>1, <3>2, <3>3
  <2>4. CASE FlushSave(f)
    BY <2>4 DEF FlushSave
  <2>5. CASE FlushRename(f)
    <3>1. snap' \in Snapshot \cup {None} /\ lastSaved' \in (Nat \X Nat) \cup {None}
      BY <2>5 DEF FlushRename, Rename, Generations, Fault
    <3>2. faults' \in Nat /\ restarts' \in Nat
      BY <2>5 DEF FlushRename, Rename, Fault
    <3> QED BY <2>5, <3>1, <3>2 DEF FlushRename, Rename
  <2> QED BY <1>7, <2>1, <2>2, <2>3, <2>4, <2>5 DEF Flush
<1>8. CASE Shutdown
  BY <1>8 DEF Shutdown
<1>9. CASE Restart
  <2>1. /\ fpc' \in [Flushers -> FlushPoints]
        /\ fck' \in [Flushers -> Checkpoint \cup {None}]
        /\ stop' \in BOOLEAN
    BY <1>9 DEF Restart
  <2> QED BY <1>9, <2>1 DEF Restart
<1>10. CASE Terminated
  BY <1>10 DEF Terminated, vars
<1> QED BY <1>1, <1>2, <1>3, <1>4, <1>5, <1>6, <1>7, <1>8, <1>9, <1>10 DEF
       Next, WorkerStep

\* Journals are only created by open, at the current change.
LEMMA JournalInvStep ==
  ASSUME StructInv, Next PROVE JournalInv'
<1> USE BoundsAssumption, NoneAssumption DEF StructInv, TypeOK, JournalInv,
       journalVars, slotVars, workVars, flushVars, budgets
<1>1. CASE Environment
  <2>1. CASE VolumeChange
    BY <2>1 DEF VolumeChange
  <2>2. CASE JournalTrim
    BY <2>2 DEF JournalTrim
  <2>3. CASE JournalDelete
    BY <2>3 DEF JournalDelete
  <2> QED BY <1>1, <2>1, <2>2, <2>3 DEF Environment
<1>2. CASE Establish
  <2>1. CASE OpenJournal
    BY <2>1 DEF OpenJournal
  <2>2. CASE Load
    BY <2>2 DEF Load
  <2>3. CASE Restore
    BY <2>3 DEF Restore, Replayable
  <2>4. CASE StartScan
    BY <2>4 DEF StartScan, Replayable
  <2>5. CASE ScanDone
    BY <2>5 DEF ScanDone
  <2>6. CASE OpenMetadata
    BY <2>6 DEF OpenMetadata
  <2>7. CASE Install
    BY <2>7 DEF Install, InstallIndex
  <2>8. CASE PublishFirst
    BY <2>8 DEF PublishFirst, PublishCheckpoint
  <2>9. CASE BecomeReady
    BY <2>9 DEF BecomeReady
  <2> QED BY <1>2, <2>1, <2>2, <2>3, <2>4, <2>5, <2>6, <2>7, <2>8, <2>9 DEF
       Establish
<1>3. CASE Tail
  BY <1>3 DEF Tail, ReadRecords, ReadGone, ReadNothing, vars, ReadFindsGone,
       Apply, Batch, PublishAfterApply, PublishCheckpoint, SkipCompaction,
       CompactCopy, CompactSwap, InstallIndex
<1>4. CASE BeginRescan
  BY <1>4 DEF BeginRescan, DropCheckpoint, MarkRescanning, RemoveSnapshot
<1>5. CASE Stopping
  BY <1>5 DEF Stopping, StopUnready, StopAt, Return, StopSaveBegin,
       StopSaveEnd, Rename, Generations, Fault
<1>6. CASE Failure
  BY <1>6 DEF Failure, OpenFails, Fault, FailVolume, Return, LoadUnusable,
       ScanFails, OpenMetadataFails, ReadMalformed, ReadFails, ApplyRejected,
       Batch, RemoveFails, Panic
<1>7. ASSUME NEW f \in Flushers, Flush(f) PROVE JournalInv'
  BY <1>7 DEF Flush, FlushPhase, FlushCheckpoint, FlushDirty, FlushSave,
       FlushRename, Rename, Generations, Fault
<1>8. CASE Shutdown
  BY <1>8 DEF Shutdown
<1>9. CASE Restart
  BY <1>9 DEF Restart
<1>10. CASE Terminated
  BY <1>10 DEF Terminated, vars
<1> QED BY <1>1, <1>2, <1>3, <1>4, <1>5, <1>6, <1>7, <1>8, <1>9, <1>10 DEF
       Next, WorkerStep

\* Every step hands cursors on unchanged, or takes one from the open session.
LEMMA CursorInvStep ==
  ASSUME StructInv, Next PROVE CursorInv'
<1> USE BoundsAssumption, NoneAssumption DEF StructInv, TypeOK, JournalInv,
       CursorInv, ControlInv, CurrentPoints, Issued, Cursor, Pos,
       SessionPoints, WorkerPoints, Checkpoint, Snapshot, journalVars,
       slotVars, workVars, flushVars, budgets
<1>1. CASE Environment
  <2>1. CASE VolumeChange
    <3>1. ASSUME NEW c \in Checkpoint \cup Snapshot, Issued(c) PROVE Issued(c)'
      <4>1. vol' = vol + 1 /\ jid' = jid /\ jbase' = jbase
        BY <2>1 DEF VolumeChange
      <4> HIDE DEF CursorInv, ControlInv, JournalInv
      <4> QED BY <3>1, <4>1
    <3>2. Cursor' = Cursor /\ (pc \in SessionPoints => Cursor \in Checkpoint)
      BY <2>1 DEF VolumeChange
    <3>3. UNCHANGED <<snap, ckpt, loaded, fck, pc, sid, jid>>
      BY <2>1 DEF VolumeChange
    <3> HIDE DEF Issued, Cursor, ControlInv, JournalInv
    <3> QED BY <3>1, <3>2, <3>3
  <2>2. CASE JournalTrim
    BY <2>2 DEF JournalTrim
  <2>3. CASE JournalDelete
    BY <2>3 DEF JournalDelete
  <2> QED BY <1>1, <2>1, <2>2, <2>3 DEF Environment
<1>2. CASE Establish
  <2>1. CASE OpenJournal
    <3>1. ASSUME NEW c \in Checkpoint \cup Snapshot, Issued(c)
          PROVE  Issued(c)' /\ c.id <= sid'
      <4>1. sid' = jid' /\ vol' = vol
        BY <2>1 DEF OpenJournal
      <4>2. \A j \in 1 .. jid : jbase'[j] = jbase[j]
        BY <2>1, OpenKeepsPositions
      <4>3. jid <= jid' /\ jid' \in Nat
        BY <2>1, OpenKeepsPositions
      <4>4. c.id \in 1 .. jid /\ jbase[c.id] + c.next <= vol
        BY <3>1
      <4>5. c.id \in 1 .. jid' /\ jbase'[c.id] = jbase[c.id]
        BY <4>2, <4>3, <4>4
      <4> HIDE DEF CursorInv, ControlInv, JournalInv
      <4> QED BY <4>1, <4>4, <4>5
    <3>2. sid' \in 1 .. jid' /\ Issued(Cursor)'
      BY <2>1, OpenKeepsPositions DEF OpenJournal
    <3>3. UNCHANGED <<snap, loaded, ckpt, fck>> /\ loaded = None
      BY <2>1 DEF OpenJournal
    <3>4. \A f \in Flushers :
            fck'[f] # None => Issued(fck[f])' /\ fck'[f].id <= sid'
      BY <3>1, <3>3
    <3>5. snap' # None => Issued(snap)' /\ snap'.id <= sid'
      BY <3>1, <3>3
    <3>6. ckpt' # None => Issued(ckpt)' /\ ckpt'.id <= sid'
      BY <3>1, <3>3
    <3> QED BY <3>2, <3>3, <3>4, <3>5, <3>6
  <2>2. CASE Load
    BY <2>2 DEF Load
  <2>3. CASE Restore
    BY <2>3 DEF Restore, Replayable
  <2>4. CASE StartScan
    BY <2>4 DEF StartScan, Replayable
  <2>5. CASE ScanDone
    BY <2>5 DEF ScanDone
  <2>6. CASE OpenMetadata
    BY <2>6 DEF OpenMetadata
  <2>7. CASE Install
    BY <2>7 DEF Install, InstallIndex
  <2>8. CASE PublishFirst
    BY <2>8 DEF PublishFirst, PublishCheckpoint
  <2>9. CASE BecomeReady
    BY <2>9 DEF BecomeReady
  <2> QED BY <1>2, <2>1, <2>2, <2>3, <2>4, <2>5, <2>6, <2>7, <2>8, <2>9 DEF
       Establish
<1>3. CASE Tail
  <2>1. CASE ReadRecords
    BY <2>1 DEF ReadRecords, ReadGone
  <2>2. CASE ReadNothing
    BY <2>2 DEF ReadNothing, vars
  <2>3. CASE ReadFindsGone
    BY <2>3 DEF ReadFindsGone, ReadGone
  <2>4. CASE Apply
    BY <2>4 DEF Apply, Batch
  <2>5. CASE PublishAfterApply
    BY <2>5 DEF PublishAfterApply, PublishCheckpoint
  <2>6. CASE SkipCompaction
    BY <2>6 DEF SkipCompaction
  <2>7. CASE CompactCopy
    BY <2>7 DEF CompactCopy
  <2>8. CASE CompactSwap
    BY <2>8 DEF CompactSwap, InstallIndex
  <2> QED BY <1>3, <2>1, <2>2, <2>3, <2>4, <2>5, <2>6, <2>7, <2>8 DEF Tail
<1>4. CASE BeginRescan
  <2>1. CASE DropCheckpoint
    BY <2>1 DEF DropCheckpoint
  <2>2. CASE MarkRescanning
    BY <2>2 DEF MarkRescanning
  <2>3. CASE RemoveSnapshot
    BY <2>3 DEF RemoveSnapshot
  <2> QED BY <1>4, <2>1, <2>2, <2>3 DEF BeginRescan
<1>5. CASE Stopping
  <2>1. CASE StopUnready
    BY <2>1 DEF StopUnready, StopAt, Return
  <2>2. CASE StopSaveBegin
    BY <2>2 DEF StopSaveBegin
  <2>3. CASE StopSaveEnd
    BY <2>3 DEF StopSaveEnd, Rename, Generations, Return, Fault
  <2> QED BY <1>5, <2>1, <2>2, <2>3 DEF Stopping
<1>6. CASE Failure
  <2>1. CASE OpenFails
    BY <2>1 DEF OpenFails, Fault, FailVolume, Return
  <2>2. CASE LoadUnusable
    BY <2>2 DEF LoadUnusable, Fault
  <2>3. CASE ScanFails
    BY <2>3 DEF ScanFails, Fault, FailVolume, Return
  <2>4. CASE OpenMetadataFails
    BY <2>4 DEF OpenMetadataFails, Fault, FailVolume, Return
  <2>5. CASE ReadMalformed
    BY <2>5 DEF ReadMalformed, Fault
  <2>6. CASE ReadFails
    BY <2>6 DEF ReadFails, Fault, FailVolume, Return
  <2>7. CASE ApplyRejected
    BY <2>7 DEF ApplyRejected, Batch, Fault
  <2>8. CASE RemoveFails
    BY <2>8 DEF RemoveFails, Fault
  <2>9. CASE Panic
    BY <2>9 DEF Panic, Fault, FailVolume, Return
  <2> QED BY <1>6, <2>1, <2>2, <2>3, <2>4, <2>5, <2>6, <2>7, <2>8, <2>9 DEF
       Failure
<1>7. ASSUME NEW f \in Flushers, Flush(f) PROVE CursorInv'
  <2>1. CASE FlushPhase(f)
    BY <2>1 DEF FlushPhase
  <2>2. CASE FlushCheckpoint(f)
    BY <2>2 DEF FlushCheckpoint
  <2>3. CASE FlushDirty(f)
    BY <2>3 DEF FlushDirty
  <2>4. CASE FlushSave(f)
    BY <2>4 DEF FlushSave
  <2>5. CASE FlushRename(f)
    <3>1. fck[f] \in Checkpoint /\ Issued(fck[f]) /\ (pc \in SessionPoints => fck[f].id <= sid)
      BY <2>5 DEF FlushRename
    <3>2. snap' # None => Issued(snap)' /\ (pc' \in SessionPoints => snap'.id <= sid')
      BY <2>5, <3>1 DEF FlushRename, Rename, Fault
    <3> QED BY <2>5, <3>2 DEF FlushRename
  <2> QED BY <1>7, <2>1, <2>2, <2>3, <2>4, <2>5 DEF Flush
<1>8. CASE Shutdown
  BY <1>8 DEF Shutdown
<1>9. CASE Restart
  BY <1>9 DEF Restart
<1>10. CASE Terminated
  BY <1>10 DEF Terminated, vars
<1> QED BY <1>1, <1>2, <1>3, <1>4, <1>5, <1>6, <1>7, <1>8, <1>9, <1>10 DEF
       Next, WorkerStep

\* begin_rescan drops the checkpoint before anything can replace the index.
LEMMA ControlInvStep ==
  ASSUME StructInv, Next PROVE ControlInv'
<1> USE BoundsAssumption, NoneAssumption DEF StructInv, TypeOK, ControlInv,
       CurrentPoints, WorkerPoints, FlushPoints, Checkpoint, Snapshot, Index,
       JournalInv, CursorInv, SessionPoints, Issued, Cursor, Pos, journalVars,
       slotVars, workVars, flushVars, budgets
<1>1. CASE Environment
  BY <1>1 DEF Environment, VolumeChange, JournalTrim, JournalDelete
<1>2. CASE Establish
  <2>1. CASE OpenJournal
    BY <2>1 DEF OpenJournal
  <2>2. CASE Load
    BY <2>2 DEF Load
  <2>3. CASE Restore
    BY <2>3 DEF Restore, Replayable
  <2>4. CASE StartScan
    BY <2>4 DEF StartScan, Replayable
  <2>5. CASE ScanDone
    <3>1. built' \in Index
      BY <2>5 DEF ScanDone
    <3> QED BY <2>5, <3>1 DEF ScanDone
  <2>6. CASE OpenMetadata
    BY <2>6 DEF OpenMetadata
  <2>7. CASE Install
    <3>1. idx' \in Index
      BY <2>7, InstalledIndex DEF Install
    <3> QED BY <2>7, <3>1 DEF Install
  <2>8. CASE PublishFirst
    BY <2>8 DEF PublishFirst, PublishCheckpoint
  <2>9. CASE BecomeReady
    BY <2>9 DEF BecomeReady
  <2> QED BY <1>2, <2>1, <2>2, <2>3, <2>4, <2>5, <2>6, <2>7, <2>8, <2>9 DEF
       Establish
<1>3. CASE Tail
  <2>1. CASE ReadRecords
    BY <2>1 DEF ReadRecords, ReadGone
  <2>2. CASE ReadNothing
    BY <2>2 DEF ReadNothing, vars
  <2>3. CASE ReadFindsGone
    BY <2>3 DEF ReadFindsGone, ReadGone
  <2>4. CASE Apply
    <3>1. idx' # None
      BY <2>4, BatchBounds, AppliedIndex DEF Apply, CursorInv, SessionPoints, Issued, Cursor
    <3> QED BY <2>4, <3>1 DEF Apply
  <2>5. CASE PublishAfterApply
    BY <2>5 DEF PublishAfterApply, PublishCheckpoint
  <2>6. CASE SkipCompaction
    BY <2>6 DEF SkipCompaction
  <2>7. CASE CompactCopy
    <3>1. built' \in Index
      BY <2>7 DEF CompactCopy
    <3> QED BY <2>7, <3>1 DEF CompactCopy
  <2>8. CASE CompactSwap
    <3>1. [built EXCEPT !.content = 0] \in Index
      BY <2>8 DEF CompactSwap
    <3>2. idx' # None
      BY <2>8, <3>1, InstalledIndex DEF CompactSwap
    <3> QED BY <2>8, <3>2 DEF CompactSwap
  <2> QED BY <1>3, <2>1, <2>2, <2>3, <2>4, <2>5, <2>6, <2>7, <2>8 DEF Tail
<1>4. CASE BeginRescan
  <2>1. CASE DropCheckpoint
    BY <2>1 DEF DropCheckpoint
  <2>2. CASE MarkRescanning
    BY <2>2 DEF MarkRescanning
  <2>3. CASE RemoveSnapshot
    BY <2>3 DEF RemoveSnapshot
  <2> QED BY <1>4, <2>1, <2>2, <2>3 DEF BeginRescan
<1>5. CASE Stopping
  BY <1>5 DEF Stopping, StopUnready, StopAt, Return, StopSaveBegin,
       StopSaveEnd, Rename, Generations, Fault
<1>6. CASE Failure
  <2>1. CASE OpenFails
    BY <2>1 DEF OpenFails, Fault, FailVolume, Return
  <2>2. CASE LoadUnusable
    BY <2>2 DEF LoadUnusable, Fault
  <2>3. CASE ScanFails
    BY <2>3 DEF ScanFails, Fault, FailVolume, Return
  <2>4. CASE OpenMetadataFails
    BY <2>4 DEF OpenMetadataFails, Fault, FailVolume, Return
  <2>5. CASE ReadMalformed
    BY <2>5 DEF ReadMalformed, Fault
  <2>6. CASE ReadFails
    BY <2>6 DEF ReadFails, Fault, FailVolume, Return
  <2>7. CASE ApplyRejected
    <3>1. sid \in 1 .. jid /\ idx \in Index
      BY <2>7 DEF ApplyRejected
    <3>2. idx' # None
      <4>1. ASSUME NEW part \in SUBSET Batch,
                   idx' = [idx EXCEPT !.has = @ \cup part, !.content = @ + 1]
            PROVE  idx' # None
        <5>1. part \in SUBSET Nat
          BY <3>1, BatchBounds
        <5> QED BY <5>1, <4>1, <3>1, AppliedIndex
      <4> QED BY <2>7, <3>1, <4>1 DEF ApplyRejected
    <3> QED BY <2>7, <3>2 DEF ApplyRejected
  <2>8. CASE RemoveFails
    BY <2>8 DEF RemoveFails, Fault
  <2>9. CASE Panic
    BY <2>9 DEF Panic, Fault, FailVolume, Return
  <2> QED BY <1>6, <2>1, <2>2, <2>3, <2>4, <2>5, <2>6, <2>7, <2>8, <2>9 DEF
       Failure
<1>7. ASSUME NEW f \in Flushers, Flush(f) PROVE ControlInv'
  <2>1. CASE FlushPhase(f)
    BY <2>1 DEF FlushPhase
  <2>2. CASE FlushCheckpoint(f)
    BY <2>2 DEF FlushCheckpoint
  <2>3. CASE FlushDirty(f)
    BY <2>3 DEF FlushDirty
  <2>4. CASE FlushSave(f)
    BY <2>4 DEF FlushSave
  <2>5. CASE FlushRename(f)
    BY <2>5 DEF FlushRename
  <2> QED BY <1>7, <2>1, <2>2, <2>3, <2>4, <2>5 DEF Flush
<1>8. CASE Shutdown
  BY <1>8 DEF Shutdown
<1>9. CASE Restart
  BY <1>9 DEF Restart
<1>10. CASE Terminated
  BY <1>10 DEF Terminated, vars
<1> QED BY <1>1, <1>2, <1>3, <1>4, <1>5, <1>6, <1>7, <1>8, <1>9, <1>10 DEF
       Next, WorkerStep

\* Cursors stay covered: a batch extends the index, and an index is installed
\* only over cursors it covers.
LEMMA CoverInvStep ==
  ASSUME IInv, Next PROVE CoverInv'
<1> USE BoundsAssumption, NoneAssumption DEF IInv, StructInv, TypeOK,
       JournalInv, CursorInv, ControlInv, CoverInv, RescanInv, BuildInv,
       CurrentPoints, SessionPoints, WorkerPoints, Issued, Cursor, Pos,
       Covers, Checkpoint, Snapshot, Index, journalVars, slotVars, workVars,
       flushVars, budgets
<1>1. CASE Environment
  BY <1>1 DEF Environment, VolumeChange, JournalTrim, JournalDelete
<1>2. CASE Establish
  <2>1. CASE OpenJournal
    <3>1. ASSUME NEW h, NEW c \in Checkpoint \cup Snapshot, Issued(c), Covers(h, c)
          PROVE  Covers(h, c)'
      BY <2>1, <3>1, OpenKeepsPositions
    <3> QED BY <2>1, <3>1 DEF OpenJournal
  <2>2. CASE Load
    BY <2>2 DEF Load
  <2>3. CASE Restore
    BY <2>3 DEF Restore, Replayable
  <2>4. CASE StartScan
    BY <2>4 DEF StartScan, Replayable
  <2>5. CASE ScanDone
    BY <2>5 DEF ScanDone
  <2>6. CASE OpenMetadata
    BY <2>6 DEF OpenMetadata
  <2>7. CASE Install
    <3>1. built \in Index
      BY <2>7 DEF Install
    <3>2. idx' # None /\ idx'.has = built.has
      BY <2>7, <3>1, InstalledIndex DEF Install
    <3> QED BY <2>7, <3>2 DEF Install
  <2>8. CASE PublishFirst
    BY <2>8 DEF PublishFirst, PublishCheckpoint
  <2>9. CASE BecomeReady
    BY <2>9 DEF BecomeReady
  <2> QED BY <1>2, <2>1, <2>2, <2>3, <2>4, <2>5, <2>6, <2>7, <2>8, <2>9 DEF
       Establish
<1>3. CASE Tail
  <2>1. CASE ReadRecords
    BY <2>1 DEF ReadRecords, ReadGone
  <2>2. CASE ReadNothing
    BY <2>2 DEF ReadNothing, vars
  <2>3. CASE ReadFindsGone
    BY <2>3 DEF ReadFindsGone, ReadGone
  <2>4. CASE Apply
    <3>1. sid \in 1 .. jid /\ idx \in Index
      BY <2>4 DEF Apply
    <3>2. idx' # None /\ idx'.has = idx.has \cup Batch
      BY <2>4, <3>1, BatchBounds, AppliedIndex DEF Apply
    <3> QED BY <2>4, <3>1, <3>2, BatchBounds DEF Apply
  <2>5. CASE PublishAfterApply
    BY <2>5 DEF PublishAfterApply, PublishCheckpoint
  <2>6. CASE SkipCompaction
    BY <2>6 DEF SkipCompaction
  <2>7. CASE CompactCopy
    BY <2>7 DEF CompactCopy
  <2>8. CASE CompactSwap
    <3>1. [built EXCEPT !.content = 0] \in Index /\ [built EXCEPT !.content = 0].has = idx.has
      BY <2>8 DEF CompactSwap
    <3>2. idx' # None /\ idx'.has = idx.has
      BY <2>8, <3>1, InstalledIndex DEF CompactSwap
    <3> QED BY <2>8, <3>2 DEF CompactSwap
  <2> QED BY <1>3, <2>1, <2>2, <2>3, <2>4, <2>5, <2>6, <2>7, <2>8 DEF Tail
<1>4. CASE BeginRescan
  BY <1>4 DEF BeginRescan, DropCheckpoint, MarkRescanning, RemoveSnapshot
<1>5. CASE Stopping
  <2>1. CASE StopUnready
    BY <2>1 DEF StopUnready, StopAt, Return
  <2>2. CASE StopSaveBegin
    BY <2>2 DEF StopSaveBegin
  <2>3. CASE StopSaveEnd
    <3>1. snap' # None => Covers(snap'.has, snap')
      <4>1. \/ snap' = snap
            \/ snap' = [id |-> sid, next |-> snext, has |-> idx.has]
        BY <2>3 DEF StopSaveEnd, Rename
      <4>2. Covers(idx.has, Cursor)
        BY <2>3 DEF StopSaveEnd
      <4>3. jbase' = jbase
        BY <2>3 DEF StopSaveEnd
      <4> HIDE DEF ControlInv, CursorInv, JournalInv, Issued
      <4> QED BY <4>1, <4>2, <4>3
    <3> QED BY <2>3, <3>1 DEF StopSaveEnd, Return
  <2> QED BY <1>5, <2>1, <2>2, <2>3 DEF Stopping
<1>6. CASE Failure
  <2>1. CASE OpenFails
    BY <2>1 DEF OpenFails, Fault, FailVolume, Return
  <2>2. CASE LoadUnusable
    BY <2>2 DEF LoadUnusable, Fault
  <2>3. CASE ScanFails
    BY <2>3 DEF ScanFails, Fault, FailVolume, Return
  <2>4. CASE OpenMetadataFails
    BY <2>4 DEF OpenMetadataFails, Fault, FailVolume, Return
  <2>5. CASE ReadMalformed
    BY <2>5 DEF ReadMalformed, Fault
  <2>6. CASE ReadFails
    BY <2>6 DEF ReadFails, Fault, FailVolume, Return
  <2>7. CASE ApplyRejected
    <3>1. sid \in 1 .. jid /\ idx \in Index
      BY <2>7 DEF ApplyRejected
    <3>2. idx' # None /\ idx.has \subseteq idx'.has
      <4>1. CASE UNCHANGED idx
        BY <4>1, <3>1
      <4>2. ASSUME NEW part \in SUBSET Batch,
                   idx' = [idx EXCEPT !.has = @ \cup part, !.content = @ + 1]
            PROVE  idx' # None /\ idx.has \subseteq idx'.has
        <5>1. part \in SUBSET Nat
          BY <3>1, BatchBounds
        <5> QED BY <5>1, <4>2, <3>1, AppliedIndex
      <4> QED BY <2>7, <4>1, <4>2 DEF ApplyRejected
    <3> QED BY <2>7, <3>2 DEF ApplyRejected
  <2>8. CASE RemoveFails
    BY <2>8 DEF RemoveFails, Fault
  <2>9. CASE Panic
    BY <2>9 DEF Panic, Fault, FailVolume, Return
  <2> QED BY <1>6, <2>1, <2>2, <2>3, <2>4, <2>5, <2>6, <2>7, <2>8, <2>9 DEF
       Failure
<1>7. ASSUME NEW f \in Flushers, Flush(f) PROVE CoverInv'
  <2>1. CASE FlushPhase(f)
    BY <2>1 DEF FlushPhase
  <2>2. CASE FlushCheckpoint(f)
    BY <2>2 DEF FlushCheckpoint
  <2>3. CASE FlushDirty(f)
    <3>1. fck' = fck \/ fck' = [fck EXCEPT ![f] = None]
      BY <2>3 DEF FlushDirty
    <3>2. UNCHANGED <<journalVars, snap, slotVars, pc, workVars>>
      BY <2>3 DEF FlushDirty
    <3> HIDE DEF ControlInv, CursorInv, JournalInv, Issued
    <3> QED BY <3>1, <3>2, SMTT(30)
  <2>4. CASE FlushSave(f)
    BY <2>4 DEF FlushSave
  <2>5. CASE FlushRename(f)
    <3>1. snap' # None => Covers(snap'.has, snap')
      <4>1. \/ snap' = snap
            \/ snap' = [id |-> fck[f].id, next |-> fck[f].next, has |-> idx.has]
        BY <2>5 DEF FlushRename, Rename
      <4>2. fck[f] # None /\ Covers(idx.has, fck[f])
        BY <2>5 DEF FlushRename
      <4> HIDE DEF Cursor, ControlInv, CursorInv, JournalInv, Issued
      <4> QED BY <4>1, <4>2
    <3>2. fck' = [fck EXCEPT ![f] = None] /\ UNCHANGED <<journalVars, ckpt, idx, pc, workVars>>
      BY <2>5 DEF FlushRename
    <3> HIDE DEF Covers, Cursor, ControlInv, CursorInv, JournalInv, Issued
    <3> QED BY <3>1, <3>2 DEF Covers, Cursor
  <2> QED BY <1>7, <2>1, <2>2, <2>3, <2>4, <2>5 DEF Flush
<1>8. CASE Shutdown
  BY <1>8 DEF Shutdown
<1>9. CASE Restart
  BY <1>9 DEF Restart
<1>10. CASE Terminated
  BY <1>10 DEF Terminated, vars
<1> QED BY <1>1, <1>2, <1>3, <1>4, <1>5, <1>6, <1>7, <1>8, <1>9, <1>10 DEF
       Next, WorkerStep

\* Between remove() and the next load a snapshot can only come from a flush of
\* the index still installed.  This is where a failing remove() breaks the design.
LEMMA RescanInvStep ==
  ASSUME IInv, ~RemoveMayFail, Next PROVE RescanInv'
<1> USE BoundsAssumption, NoneAssumption DEF IInv, StructInv, TypeOK,
       ControlInv, RescanInv, CurrentPoints, Snapshot, Index, WorkerPoints,
       journalVars, slotVars, workVars, flushVars, budgets
<1>1. CASE Environment
  BY <1>1 DEF Environment, VolumeChange, JournalTrim, JournalDelete
<1>2. CASE Establish
  BY <1>2 DEF Establish, OpenJournal, Load, Restore, Replayable, StartScan,
       ScanDone, OpenMetadata, Install, InstallIndex, PublishFirst,
       PublishCheckpoint, BecomeReady
<1>3. CASE Tail
  BY <1>3 DEF Tail, ReadRecords, ReadGone, ReadNothing, vars, ReadFindsGone,
       Apply, Batch, PublishAfterApply, PublishCheckpoint, SkipCompaction,
       CompactCopy, CompactSwap, InstallIndex
<1>4. CASE BeginRescan
  BY <1>4 DEF BeginRescan, DropCheckpoint, MarkRescanning, RemoveSnapshot
<1>5. CASE Stopping
  BY <1>5 DEF Stopping, StopUnready, StopAt, Return, StopSaveBegin,
       StopSaveEnd, Rename, Generations, Fault
<1>6. CASE Failure
  BY <1>6 DEF Failure, OpenFails, Fault, FailVolume, Return, LoadUnusable,
       ScanFails, OpenMetadataFails, ReadMalformed, ReadFails, ApplyRejected,
       Batch, RemoveFails, Panic
<1>7. ASSUME NEW f \in Flushers, Flush(f) PROVE RescanInv'
  <2>1. CASE FlushPhase(f)
    BY <2>1 DEF FlushPhase
  <2>2. CASE FlushCheckpoint(f)
    BY <2>2 DEF FlushCheckpoint
  <2>3. CASE FlushDirty(f)
    BY <2>3 DEF FlushDirty
  <2>4. CASE FlushSave(f)
    BY <2>4 DEF FlushSave
  <2>5. CASE FlushRename(f)
    BY <2>5 DEF FlushRename, Rename, Generations, Fault
  <2> QED BY <1>7, <2>1, <2>2, <2>3, <2>4, <2>5 DEF Flush
<1>8. CASE Shutdown
  BY <1>8 DEF Shutdown
<1>9. CASE Restart
  BY <1>9 DEF Restart
<1>10. CASE Terminated
  BY <1>10 DEF Terminated, vars
<1> QED BY <1>1, <1>2, <1>3, <1>4, <1>5, <1>6, <1>7, <1>8, <1>9, <1>10 DEF
       Next, WorkerStep

\* A scan starts after every cursor in flight; a restore in a running process
\* brings back the index that those cursors were copied against.
LEMMA BuildInvStep ==
  ASSUME IInv, Next PROVE BuildInv'
<1> USE BoundsAssumption, NoneAssumption DEF IInv, StructInv, TypeOK,
       JournalInv, CursorInv, ControlInv, CoverInv, RescanInv, BuildInv,
       CurrentPoints, SessionPoints, WorkerPoints, Issued, Cursor, Pos,
       Covers, Checkpoint, Snapshot, Index, journalVars, slotVars, workVars,
       flushVars, budgets
<1>1. CASE Environment
  <2>1. CASE VolumeChange
    <3>1. vol' = vol + 1 /\ UNCHANGED <<jbase, pc, sid, snext, from, built, fck, idx>>
      BY <2>1 DEF VolumeChange
    <3> HIDE DEF CursorInv, ControlInv, CoverInv, RescanInv, JournalInv, Issued
    <3> QED BY <3>1
  <2>2. CASE JournalTrim
    BY <2>2 DEF JournalTrim
  <2>3. CASE JournalDelete
    BY <2>3 DEF JournalDelete
  <2> QED BY <1>1, <2>1, <2>2, <2>3 DEF Environment
<1>2. CASE Establish
  <2>1. CASE OpenJournal
    BY <2>1 DEF OpenJournal
  <2>2. CASE Load
    BY <2>2 DEF Load
  <2>3. CASE Restore
    <3>1. loaded # None /\ loaded \in Snapshot /\ idx' = idx /\ fck' = fck
      BY <2>3 DEF Restore, Replayable
    <3>2. Covers(loaded.has, loaded) /\ loaded.id = sid
      BY <2>3, <3>1 DEF Restore, Replayable
    <3>3. built'.has = loaded.has /\ pc' = "scanned" /\ Cursor' = [id |-> sid, next |-> loaded.next]
      BY <2>3 DEF Restore
    <3>4. idx # None => loaded.has = idx.has
      BY <2>3, <3>1 DEF Restore
    <3>5. jbase' = jbase
      BY <2>3 DEF Restore
    <3>6. \A f \in Flushers : fck[f] # None => Covers(built'.has, fck[f])
      BY <3>1, <3>3, <3>4
    <3> HIDE DEF IInv, StructInv, TypeOK, CursorInv, ControlInv, CoverInv, RescanInv
    <3> QED BY <3>1, <3>2, <3>3, <3>5, <3>6
  <2>4. CASE StartScan
    BY <2>4 DEF StartScan, Replayable
  <2>5. CASE ScanDone
    <3>1. PICK seen \in SUBSET (from + 1 .. vol) :
            built' = [has |-> (1 .. from) \cup seen, content |-> 0, structural |-> 0]
      BY <2>5 DEF ScanDone
    <3>2. 1 .. from \subseteq built'.has
      BY <3>1
    <3>3. Covers(built.has, Cursor)'
      BY <2>5, <3>2 DEF ScanDone
    <3>4. ASSUME NEW f \in Flushers, fck[f] # None PROVE Covers(built'.has, fck[f])
      <4>1. fck[f] \in Checkpoint /\ Issued(fck[f])
        BY <3>4
      <4>2. Pos(fck[f].id, fck[f].next) <= from
        BY <2>5, <3>4 DEF ScanDone
      <4>3. Pos(fck[f].id, fck[f].next) \in Nat
        <5> HIDE DEF CursorInv, ControlInv, CoverInv, RescanInv, BuildInv, JournalInv
        <5> QED BY <4>1
      <4> HIDE DEF CursorInv, ControlInv, CoverInv, RescanInv, BuildInv, Pos
      <4> QED BY <3>2, <4>2, <4>3
    <3>5. pc' = "scanned" /\ fck' = fck
      BY <2>5 DEF ScanDone
    <3>6. UNCHANGED jbase
      BY <2>5 DEF ScanDone
    <3> HIDE DEF IInv, StructInv, TypeOK, CursorInv, ControlInv, CoverInv, RescanInv
    <3> QED BY <3>3, <3>4, <3>5, <3>6
  <2>6. CASE OpenMetadata
    BY <2>6 DEF OpenMetadata
  <2>7. CASE Install
    BY <2>7 DEF Install, InstallIndex
  <2>8. CASE PublishFirst
    BY <2>8 DEF PublishFirst, PublishCheckpoint
  <2>9. CASE BecomeReady
    BY <2>9 DEF BecomeReady
  <2> QED BY <1>2, <2>1, <2>2, <2>3, <2>4, <2>5, <2>6, <2>7, <2>8, <2>9 DEF
       Establish
<1>3. CASE Tail
  BY <1>3 DEF Tail, ReadRecords, ReadGone, ReadNothing, vars, ReadFindsGone,
       Apply, Batch, PublishAfterApply, PublishCheckpoint, SkipCompaction,
       CompactCopy, CompactSwap, InstallIndex
<1>4. CASE BeginRescan
  BY <1>4 DEF BeginRescan, DropCheckpoint, MarkRescanning, RemoveSnapshot
<1>5. CASE Stopping
  BY <1>5 DEF Stopping, StopUnready, StopAt, Return, StopSaveBegin,
       StopSaveEnd, Rename, Generations, Fault
<1>6. CASE Failure
  BY <1>6 DEF Failure, OpenFails, Fault, FailVolume, Return, LoadUnusable,
       ScanFails, OpenMetadataFails, ReadMalformed, ReadFails, ApplyRejected,
       Batch, RemoveFails, Panic
<1>7. ASSUME NEW f \in Flushers, Flush(f) PROVE BuildInv'
  <2>1. CASE FlushPhase(f)
    BY <2>1 DEF FlushPhase
  <2>2. CASE FlushCheckpoint(f)
    BY <2>2 DEF FlushCheckpoint
  <2>3. CASE FlushDirty(f)
    <3>1. \A g \in Flushers : fck'[g] # None => fck[g] # None /\ fck'[g] = fck[g]
      BY <2>3 DEF FlushDirty
    <3>2. UNCHANGED <<journalVars, snap, slotVars, pc, workVars>>
      BY <2>3 DEF FlushDirty
    <3> HIDE DEF ControlInv, CursorInv, JournalInv, Issued
    <3> QED BY <3>1, <3>2
  <2>4. CASE FlushSave(f)
    BY <2>4 DEF FlushSave
  <2>5. CASE FlushRename(f)
    BY <2>5 DEF FlushRename, Rename, Generations, Fault
  <2> QED BY <1>7, <2>1, <2>2, <2>3, <2>4, <2>5 DEF Flush
<1>8. CASE Shutdown
  BY <1>8 DEF Shutdown
<1>9. CASE Restart
  BY <1>9 DEF Restart
<1>10. CASE Terminated
  BY <1>10 DEF Terminated, vars
<1> QED BY <1>1, <1>2, <1>3, <1>4, <1>5, <1>6, <1>7, <1>8, <1>9, <1>10 DEF
       Next, WorkerStep

-----------------------------------------------------------------------------
(* The theorems *)

\* The structural part of the inductive invariant holds initially.
LEMMA StructInit == Init => StructInv
<1> SUFFICES ASSUME Init PROVE StructInv
  OBVIOUS
<1>1. jbase \in [1 .. MaxJournals -> Nat] /\ fpc \in [Flushers -> FlushPoints]
  BY DEF Init, FlushPoints
<1>2. fck \in [Flushers -> Checkpoint \cup {None}]
  BY DEF Init
<1>3. TypeOK
  <2>1. jlive \in BOOLEAN /\ stop \in BOOLEAN
    BY DEF Init
  <2>2. vol \in 0 .. MaxVol /\ jid \in 1 .. MaxJournals /\ sid \in 0 .. MaxJournals
    BY BoundsAssumption DEF Init
  <2> QED BY <1>1, <1>2, <2>1, <2>2, BoundsAssumption
      DEF Init, TypeOK, Phases, WorkerPoints
<1>4. JournalInv /\ CursorInv /\ ControlInv
  BY BoundsAssumption
  DEF Init, JournalInv, CursorInv, ControlInv, SessionPoints, CurrentPoints
<1> QED BY <1>3, <1>4 DEF StructInv

\* Every step preserves the structural part: types, journals, cursors, control.
LEMMA StructNext == ASSUME StructInv, [Next]_vars PROVE StructInv'
<1>1. CASE Next
  BY <1>1, TypeOKStep, JournalInvStep, CursorInvStep, ControlInvStep
  DEF StructInv
<1>2. CASE UNCHANGED vars
  BY <1>2
  DEF StructInv, TypeOK, JournalInv, CursorInv, ControlInv, Issued, Cursor, Pos,
      vars, journalVars, slotVars, workVars, flushVars, budgets
<1> QED BY <1>1, <1>2

\* The structural part is an invariant, with or without remove() failing.
LEMMA StructInvariant == Spec => []StructInv
  BY StructInit, StructNext, PTL DEF Spec

\* The whole inductive invariant holds initially.
LEMMA IInvInit == Init => IInv
<1> SUFFICES ASSUME Init PROVE IInv
  OBVIOUS
<1>1. StructInv
  BY StructInit
<1>2. CoverInv /\ RescanInv /\ BuildInv
  BY NoneAssumption DEF Init, CoverInv, RescanInv, BuildInv, CurrentPoints
<1> QED BY <1>1, <1>2 DEF IInv

\* Every step preserves the whole inductive invariant, if remove() succeeds.
LEMMA IInvNext ==
  ASSUME IInv, ~RemoveMayFail, [Next]_vars PROVE IInv'
<1>1. CASE Next
  BY <1>1, StructNext, CoverInvStep, RescanInvStep, BuildInvStep DEF IInv
<1>2. CASE UNCHANGED vars
  <2>1. StructInv'
    BY StructNext DEF IInv
  <2>2. (CoverInv /\ RescanInv /\ BuildInv)'
    BY <1>2
    DEF IInv, CoverInv, RescanInv, BuildInv, Covers, Cursor, Pos,
        vars, journalVars, slotVars, workVars, flushVars, budgets
  <2> QED BY <2>1, <2>2 DEF IInv
<1> QED BY <1>1, <1>2

\* The slot, the session, the flushing threads and the file keep their types,
\* whatever fails (engine/volume.rs VolumeSlot, engine/worker.rs).
THEOREM TypeCorrect == Spec => []TypeOK
<1>1. StructInv => TypeOK
  BY DEF StructInv
<1> QED BY <1>1, StructInvariant, PTL

\* If the snapshot can always be removed, no interleaving of the volume thread
\* with any number of flushes, failures and restarts writes a snapshot whose
\* cursor is ahead of its index: a restore loses no change (volume.rs:32-37).
THEOREM NoChangeIsLost == ASSUME ~RemoveMayFail PROVE Spec => []NoLostChange
<1>1. IInv /\ [Next]_vars => IInv'
  BY IInvNext
<1>2. IInv => NoLostChange
  BY DEF IInv, CoverInv, NoLostChange
<1> QED BY IInvInit, <1>1, <1>2, PTL DEF Spec

\* Under the same condition the shared checkpoint is never ahead of the live
\* index, through batches, compactions and rescans (worker.rs:583-594).
THEOREM CheckpointIsCovered ==
  ASSUME ~RemoveMayFail PROVE Spec => []CheckpointCovered
<1>1. IInv /\ [Next]_vars => IInv'
  BY IInvNext
<1>2. IInv => CheckpointCovered
  BY DEF IInv, StructInv, ControlInv, CoverInv, CheckpointCovered
<1> QED BY IInvInit, <1>1, <1>2, PTL DEF Spec

\* Every step extends the index in place or replaces it, and the generations move on.
LEMMA GenerationStepHolds ==
  ASSUME StructInv, Next PROVE GenerationStep
<1> USE NoneAssumption
    DEF StructInv, TypeOK, ControlInv, CursorInv, GenerationStep,
        CurrentPoints, SessionPoints, WorkerPoints, Issued, Cursor,
        slotVars, vars
<1>1. CASE Install
  <2>1. built \in Index
    BY <1>1 DEF Install
  <2>2. idx # None => idx' = [built EXCEPT !.structural = idx.structural + 1]
    BY <1>1 DEF Install, InstallIndex
  <2> QED BY <2>1, <2>2 DEF Index
<1>2. CASE CompactSwap
  <2>1. built \in Index /\ idx \in Index
    BY <1>2 DEF CompactSwap
  <2>2. \/ idx' = idx
        \/ idx' = [built EXCEPT !.content = 0, !.structural = idx.structural + 1]
    BY <1>2, <2>1 DEF CompactSwap, InstallIndex, Index
  <2>3. idx' # idx => idx'.structural = idx.structural + 1
    BY <2>1, <2>2 DEF Index
  <2> QED BY <2>1, <2>3 DEF Index
<1>3. CASE Apply
  <2>1. idx \in Index
    BY <1>3 DEF Apply
  <2> QED BY <1>3, <2>1 DEF Apply, Index
<1>4. CASE ApplyRejected
  <2>1. idx \in Index
    BY <1>4 DEF ApplyRejected
  <2>2. CASE UNCHANGED idx
    BY <2>2
  <2>3. ASSUME NEW part \in SUBSET Batch,
               idx' = [idx EXCEPT !.has = @ \cup part, !.content = @ + 1]
        PROVE  GenerationStep
    BY <2>1, <2>3 DEF Index
  <2> QED BY <1>4, <2>2, <2>3 DEF ApplyRejected
<1>5. CASE Restart
  BY <1>5 DEF Restart
<1>6. CASE idx' = idx
  BY <1>6
<1> QED
  BY <1>1, <1>2, <1>3, <1>4, <1>5, <1>6
  DEF Next, WorkerStep, Environment, VolumeChange, JournalTrim, JournalDelete,
      Establish, OpenJournal, Load, Restore, StartScan, ScanDone, OpenMetadata,
      PublishFirst, PublishCheckpoint, BecomeReady, Tail, ReadRecords,
      ReadNothing, ReadFindsGone, PublishAfterApply, SkipCompaction,
      CompactCopy, BeginRescan, DropCheckpoint, MarkRescanning,
      RemoveSnapshot, Stopping, StopUnready, StopAt, StopSaveBegin,
      StopSaveEnd, Failure, OpenFails, FailVolume, LoadUnusable, ScanFails,
      OpenMetadataFails, ReadMalformed, ReadFails, RemoveFails, Panic, Flush,
      FlushPhase, FlushCheckpoint, FlushDirty, FlushSave, FlushRename,
      Shutdown, Terminated

\* Within a process no two index contents share a pair of generations, which
\* the dirty check of flush and the query caches rely on (volume.rs:83-100).
THEOREM GenerationsIdentify == Spec => GenerationsMove
<1>1. StructInv /\ [Next]_vars => [GenerationStep]_vars
  BY GenerationStepHolds
<1> QED BY StructInvariant, <1>1, PTL DEF Spec, GenerationsMove

\* A step that moves the live index moves its generations past those last saved.
LEMMA SavedFallsBehind ==
  ASSUME StructInv, SavedInv, Next, idx' # idx, lastSaved' = lastSaved
  PROVE  SavedInv'
<1> SUFFICES ASSUME lastSaved # None
             PROVE  SavedInv'
  BY DEF SavedInv
<1>1. idx \in Index /\ idx # None /\ lastSaved \in Nat \X Nat
  BY NoneAssumption DEF SavedInv, StructInv, TypeOK
<1>2. idx' \in Index \cup {None}
  BY TypeOKStep DEF TypeOK
<1>3. CASE Restart
  BY <1>3 DEF Restart, SavedInv
<1>4. ASSUME ~Restart PROVE idx' # None
  <2>1. Install \/ CompactSwap \/ Apply \/ ApplyRejected
    BY <1>4
    DEF Next, WorkerStep, Environment, VolumeChange, JournalTrim, JournalDelete,
        Establish, OpenJournal, Load, Restore, StartScan, ScanDone, OpenMetadata,
        PublishFirst, PublishCheckpoint, BecomeReady, Tail, ReadRecords,
        ReadNothing, ReadFindsGone, PublishAfterApply, SkipCompaction,
        CompactCopy, BeginRescan, DropCheckpoint, MarkRescanning,
        RemoveSnapshot, Stopping, StopUnready, StopAt, StopSaveBegin,
        StopSaveEnd, Failure, OpenFails, FailVolume, LoadUnusable, ScanFails,
        OpenMetadataFails, ReadMalformed, ReadFails, RemoveFails, Panic, Flush,
        FlushPhase, FlushCheckpoint, FlushDirty, FlushSave, FlushRename,
        Shutdown, Terminated, slotVars, vars
  <2>2. built # None => built \in Index
    BY DEF StructInv, TypeOK
  <2>3. CASE Install
    <3>1. built \in Index
      BY <2>2, <2>3 DEF Install, StructInv, ControlInv
    <3> QED BY <2>3, <3>1, InstalledIndex, <1>1 DEF Install
  <2>4. CASE CompactSwap
    <3>1. built \in Index
      BY <2>2, <2>4 DEF CompactSwap, StructInv, ControlInv
    <3>2. [built EXCEPT !.content = 0] \in Index
      BY <3>1 DEF Index
    <3> QED BY <2>4, <3>2, InstalledIndex, <1>1 DEF CompactSwap
  <2>5. CASE Apply
    BY <2>5, ControlInvStep DEF Apply, ControlInv, CurrentPoints
  <2>6. CASE ApplyRejected
    <3>1. sid \in 1 .. jid
      BY <2>6 DEF ApplyRejected, StructInv, CursorInv, Issued, Cursor, SessionPoints,
         WorkerPoints
    <3>2. PICK part \in SUBSET Batch :
            idx' = [idx EXCEPT !.has = @ \cup part, !.content = @ + 1]
      BY <2>6 DEF ApplyRejected
    <3>3. part \in SUBSET Nat
      BY <3>1, BatchBounds DEF StructInv
    <3> QED BY <1>1, <3>2, <3>3, AppliedIndex
  <2> QED BY <2>1, <2>3, <2>4, <2>5, <2>6
<1>5. CASE idx' # None
  <2>1. idx' \in Index /\ GenerationStep
    BY <1>2, <1>5, GenerationStepHolds
  <2>2. \/ idx'.structural = idx.structural /\ idx'.content > idx.content
        \/ idx'.structural > idx.structural
    BY <1>1, <1>5, <2>1 DEF GenerationStep
  <2>3. \/ lastSaved[1] <= idx.content /\ lastSaved[2] = idx.structural
        \/ lastSaved[2] < idx.structural
    BY <1>1 DEF SavedInv, Generations, Index
  <2>4. \/ lastSaved[2] < idx'.structural
        \/ lastSaved[2] = idx'.structural /\ lastSaved[1] < idx'.content
    BY <1>1, <2>1, <2>2, <2>3 DEF Index
  <2> QED BY <1>5, <2>4 DEF SavedInv
<1> QED BY <1>3, <1>4, <1>5

\* A save records the generations of what it wrote, or nothing changes.
LEMMA RenameSaves ==
  ASSUME NEW c \in Checkpoint, idx \in Index, Rename(c)
  PROVE  \/ snap' = snap /\ lastSaved' = lastSaved
         \/ snap' # None /\ snap'.has = idx.has /\ lastSaved' = Generations(idx)
<1>1. [id |-> c.id, next |-> c.next, has |-> idx.has] \in Snapshot
  BY DEF Checkpoint, Snapshot, Index
<1> QED BY <1>1, NoneAssumption DEF Rename

\* remove() leaves no checkpoint to flush with, a save records what it wrote, and an index
\* that replaces another is newer than any that was saved.
LEMMA SavedInvStep ==
  ASSUME StructInv, SavedInv, Next PROVE SavedInv'
<1> USE NoneAssumption DEF SavedInv, StructInv, ControlInv, CurrentPoints, OwnPoints,
       Generations, journalVars, slotVars, workVars, flushVars, budgets
<1>1. CASE Environment
  BY <1>1 DEF Environment, VolumeChange, JournalTrim, JournalDelete
<1>2. CASE idx' # idx /\ lastSaved' = lastSaved
  BY <1>2, SavedFallsBehind
<1>3. CASE Establish /\ idx' = idx
  <2>1. CASE Install
    <3>1. built \in Index /\ idx \in Index \cup {None}
      BY <2>1 DEF Install, TypeOK
    <3>2. CASE idx = None
      BY <1>3, <2>1, <3>1, <3>2, InstalledIndex DEF Install
    <3>3. CASE idx # None
      <4>1. idx'.structural = idx.structural + 1
        BY <2>1, <3>1, <3>3 DEF Install, InstallIndex, Index
      <4> QED BY <1>3, <3>1, <3>3, <4>1 DEF Index
    <3> QED BY <3>2, <3>3
  <2>2. CASE ~Install
    BY <1>3, <2>2 DEF Establish, OpenJournal, Load, Restore, StartScan, ScanDone,
         OpenMetadata, PublishFirst, PublishCheckpoint, BecomeReady
  <2> QED BY <2>1, <2>2
<1>4. CASE Tail /\ idx' = idx
  BY <1>4 DEF Tail, ReadRecords, ReadNothing, vars, ReadFindsGone, Apply,
       PublishAfterApply, PublishCheckpoint, SkipCompaction, CompactCopy, CompactSwap
<1>5. CASE BeginRescan
  BY <1>5 DEF BeginRescan, DropCheckpoint, MarkRescanning, RemoveSnapshot
<1>6. CASE Stopping
  <2>1. CASE StopSaveEnd
    <3>1. [id |-> sid, next |-> snext] \in Checkpoint /\ idx \in Index
      BY <2>1 DEF StopSaveEnd, TypeOK, CursorInv, Issued, Cursor, SessionPoints, WorkerPoints,
         JournalInv, Checkpoint
    <3>2. pc \in OwnPoints /\ pc' \notin OwnPoints /\ idx' = idx /\ ckpt' = ckpt
      BY <2>1 DEF StopSaveEnd, Return
    <3>3. \/ snap' = snap /\ lastSaved' = lastSaved
          \/ snap' # None /\ snap'.has = idx.has /\ lastSaved' = Generations(idx)
      BY <2>1, <3>1, RenameSaves DEF StopSaveEnd
    <3> QED BY <3>1, <3>2, <3>3
  <2>2. CASE ~StopSaveEnd
    BY <1>6, <2>2 DEF Stopping, StopUnready, StopAt, Return, StopSaveBegin
  <2> QED BY <2>1, <2>2
<1>7. CASE Failure /\ idx' = idx
  BY <1>7 DEF Failure, OpenFails, Fault, FailVolume, Return, LoadUnusable, ScanFails,
       OpenMetadataFails, ReadMalformed, ReadFails, ApplyRejected, RemoveFails, Panic
<1>8. ASSUME NEW f \in Flushers, Flush(f) PROVE SavedInv'
  <2>1. CASE FlushRename(f)
    <3>1. fck[f] \in Checkpoint /\ idx \in Index
      BY <2>1 DEF FlushRename, TypeOK
    <3>2. pc' = pc /\ idx' = idx /\ ckpt' = ckpt
      BY <2>1 DEF FlushRename
    <3>3. \/ snap' = snap /\ lastSaved' = lastSaved
          \/ snap' # None /\ snap'.has = idx.has /\ lastSaved' = Generations(idx)
      BY <2>1, <3>1, RenameSaves DEF FlushRename
    <3> QED BY <3>1, <3>2, <3>3
  <2>2. CASE ~FlushRename(f)
    BY <1>8, <2>2 DEF Flush, FlushPhase, FlushCheckpoint, FlushDirty, FlushSave
  <2> QED BY <2>1, <2>2
<1>9. CASE Shutdown
  BY <1>9 DEF Shutdown
<1>10. CASE Restart
  BY <1>10 DEF Restart
<1>11. CASE Terminated
  BY <1>11 DEF Terminated, vars
<1>12. (Establish \/ Tail \/ Failure) => lastSaved' = lastSaved
  BY DEF Establish, OpenJournal, Load, Restore, StartScan, ScanDone, OpenMetadata,
       Install, PublishFirst, PublishCheckpoint, BecomeReady, Tail, ReadRecords,
       ReadNothing, vars, ReadFindsGone, Apply, PublishAfterApply, SkipCompaction,
       CompactCopy, CompactSwap, Failure, OpenFails, FailVolume, LoadUnusable, ScanFails,
       OpenMetadataFails, ReadMalformed, ReadFails, ApplyRejected, RemoveFails, Panic
<1> QED BY <1>1, <1>2, <1>3, <1>4, <1>5, <1>6, <1>7, <1>8, <1>9, <1>10, <1>11, <1>12
        DEF Next, WorkerStep

\* The dirty check of flush never skips a volume whose file is missing or differs from
\* the live index, also when remove() fails (mod.rs:475-483).
THEOREM DirtyCheckIsSound == Spec => []CleanMeansSaved
<1>1. Init => SavedInv
  BY DEF Init, SavedInv
<1>2. StructInv /\ SavedInv /\ [Next]_vars => SavedInv'
  <2>1. ASSUME SavedInv, UNCHANGED vars PROVE SavedInv'
    BY <2>1 DEF SavedInv, OwnPoints, Generations, vars, slotVars
  <2> QED BY <2>1, SavedInvStep
<1>3. StructInv /\ SavedInv => CleanMeansSaved
  BY NoneAssumption, PairAssumption DEF SavedInv, StructInv, TypeOK, ControlInv, CleanMeansSaved,
     Generations, Index
<1> QED BY StructInvariant, <1>1, <1>2, <1>3, PTL DEF Spec

=============================================================================
