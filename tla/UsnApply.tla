------------------------------ MODULE UsnApply ------------------------------
(***************************************************************************)
(* How a volume's index follows the volume (fmf-core: engine/worker.rs,    *)
(* usn/apply.rs, index/): the worker opens the change journal, scans the   *)
(* $MFT record slots in order while the volume keeps changing, builds the  *)
(* index, and then replays the journal from the cursor it took before the  *)
(* scan, in batches of any length.                                         *)
(*                                                                         *)
(* A record says that an object was created, renamed, linked, deleted or   *)
(* had its attributes changed; for files the worker also asks the volume   *)
(* for the object's links AS THEY ARE NOW, one object at a time, before it *)
(* takes the index lock.  So what a batch applies may be older or newer    *)
(* than the index.  A batch the index refuses is answered by a full scan.  *)
(* The module asks whether the index nevertheless ends up equal to the     *)
(* volume.                                                                 *)
(*                                                                         *)
(* The volume and its journal are NTFS, external: they are modelled as far *)
(* as the code relies on them.  A file object may have several links, a    *)
(* directory has one; a record number is used again with a new sequence    *)
(* number; a rename writes two records, and a batch may end between them.  *)
(***************************************************************************)
EXTENDS VolumeIndex

CONSTANTS
  Names,          \* names of directory links
  Settings        \* the volumes the worker may find and what may happen to them; the bounds

AllOps == {"create", "delete", "rename", "move_dir", "link", "unlink", "hide"}

\* What an MFT record holds: whether it is in use, how often it was, and its object.
MftRecord ==
  [live : BOOLEAN, seq : Nat, dir : BOOLEAN, hidden : BOOLEAN,
   links : SUBSET ((Nat \X Nat) \X Names)]

\* A setting: the volume at the start; extents, the scan's reads of its MFT, a sequence
\* of sets of record numbers (positive: 0 is the root's), no record in two of them; the
\* kinds of change it makes; and the bounds on its changes, on link lookups that fail,
\* and on restarts from a flushed snapshot.
ASSUME SettingsAssumption ==
  \A s \in Settings :
    /\ DOMAIN s.volume \subseteq Nat \ {0} /\ IsFiniteSet(DOMAIN s.volume)
    /\ \A r \in DOMAIN s.volume :
         s.volume[r] \in MftRecord /\ IsFiniteSet(s.volume[r].links)
    /\ s.extents \in Seq(SUBSET DOMAIN s.volume)
    /\ UNION Range(s.extents) = DOMAIN s.volume
    /\ \A i, j \in DOMAIN s.extents : i # j => s.extents[i] \cap s.extents[j] = {}
    /\ s.kinds \subseteq AllOps
    /\ s.maxOps \in Nat /\ s.maxFaults \in Nat /\ s.maxCrashes \in Nat

VARIABLES
  setting,  \* which setting this is; nothing changes it
  vol,      \* the volume: what each MFT record holds
  pending,  \* journal records after the published cursor
  mode,     \* where the worker is
  image,    \* what the running scan has read: extents done and objects found
  idx,      \* the index
  batch,    \* records of pending in the batch at hand, 0 when there is none
  snaps,    \* link lookups made for the batch, by object
  ops, faults, crashes

vars == <<setting, vol, pending, mode, image, idx, batch, snaps, ops, faults, crashes>>
worker == <<setting, mode, image, idx, batch, snaps, faults, crashes>>

Frns(v) == {<<r, v[r].seq>> : r \in {q \in DOMAIN vol : v[q].live}}
Dirs(v) == {RootFrn} \cup {f \in Frns(v) : v[f[1]].dir}
Used(v) == UNION {v[f[1]].links : f \in Frns(v)}
FreeLinks == (Dirs(vol) \X Names) \ Used(vol)

NoImage == [done |-> 0, found |-> <<>>]

Init ==
  /\ setting \in Settings
  /\ vol = setting.volume
  /\ pending = <<>> /\ mode = "opening" /\ image = NoImage
  /\ idx = EmptyIndex /\ batch = 0 /\ snaps = << >>
  /\ ops = 0 /\ faults = 0 /\ crashes = 0

(***************************************************************************)
(* The volume and its journal.  A journal record names the object, why it  *)
(* was written, one link of the object and the object's attributes.        *)
(***************************************************************************)
JournalRecord(r, v, reason, link) ==
  [frn |-> <<r, v[r].seq>>, reasons |-> {reason}, parent |-> link[1],
   name |-> link[2], dir |-> v[r].dir, hidden |-> v[r].hidden]

\* The volume becomes v and the records are journalled; before the journal is
\* opened nobody will read them.
Change(kind, v, records) ==
  /\ kind \in setting.kinds /\ ops < setting.maxOps
  /\ ops' = ops + 1
  /\ vol' = v
  /\ pending' = IF mode = "opening" THEN pending ELSE pending \o records
  /\ UNCHANGED worker

Create(r, link, dir) ==
  /\ ~vol[r].live
  /\ LET v == [vol EXCEPT ![r] = [live |-> TRUE, seq |-> vol[r].seq + 1,
                                  dir |-> dir, hidden |-> FALSE,
                                  links |-> {link}]]
     IN  Change("create", v, <<JournalRecord(r, v, "create", link)>>)

Delete(r, link) ==
  /\ vol[r].live /\ vol[r].links = {link}
  /\ \A used \in Used(vol) : used[1] # <<r, vol[r].seq>>
  /\ Change("delete", [vol EXCEPT ![r].live = FALSE, ![r].links = {}],
            <<JournalRecord(r, vol, "delete", link)>>)

\* Directory f and the directories above it, the root left out.
DirsAbove(f) ==
  LET above(g) == IF g = RootFrn THEN RootFrn
                  ELSE (CHOOSE link \in vol[g[1]].links : TRUE)[1]
      up[k \in 0..Cardinality(DOMAIN vol)] == IF k = 0 THEN f ELSE above(up[k - 1])
  IN  {up[k] : k \in 0..Cardinality(DOMAIN vol)} \ {RootFrn}

Rename(r, old, new) ==
  LET v == [vol EXCEPT ![r].links = (@ \ {old}) \cup {new}]
  IN  /\ vol[r].live /\ old \in vol[r].links
      /\ vol[r].dir => <<r, vol[r].seq>> \notin DirsAbove(new[1])
      /\ Change(IF vol[r].dir THEN "move_dir" ELSE "rename", v,
                <<JournalRecord(r, vol, "rename_old", old),
                  JournalRecord(r, v, "rename_new", new)>>)

Link(r, link) ==
  LET v == [vol EXCEPT ![r].links = @ \cup {link}]
  IN  /\ vol[r].live /\ ~vol[r].dir
      /\ Change("link", v, <<JournalRecord(r, v, "hard_link", link)>>)

Unlink(r, link) ==
  /\ vol[r].live /\ ~vol[r].dir
  /\ link \in vol[r].links /\ vol[r].links # {link}
  /\ Change("unlink", [vol EXCEPT ![r].links = @ \ {link}],
            <<JournalRecord(r, vol, "hard_link", link)>>)

SetHidden(r, link) ==
  LET v == [vol EXCEPT ![r].hidden = ~@]
  IN  /\ vol[r].live /\ link \in vol[r].links
      /\ Change("hide", v, <<JournalRecord(r, v, "basic_info", link)>>)

VolumeChanges ==
  \E r \in DOMAIN vol :
    \/ \E link \in FreeLinks, dir \in BOOLEAN : Create(r, link, dir)
    \/ \E link \in vol[r].links : Delete(r, link)
    \/ \E old \in vol[r].links, new \in FreeLinks : Rename(r, old, new)
    \/ \E link \in FreeLinks : Link(r, link)
    \/ \E link \in vol[r].links : Unlink(r, link)
    \/ \E link \in vol[r].links : SetHidden(r, link)

(***************************************************************************)
(* The scan.  The journal cursor is taken first; then the record slots are *)
(* read extent by extent, each as it is at that moment.                    *)
(***************************************************************************)
OpenJournal ==
  /\ mode = "opening"
  /\ mode' = "scanning" /\ pending' = <<>> /\ image' = NoImage
  /\ UNCHANGED <<setting, vol, idx, batch, snaps, ops, faults, crashes>>

\* The entries of the objects in a set of records, one per link; their order is the
\* order of the rows, which no property tells apart.
Entries(recs) ==
  LET entry(r, link) == [frn |-> <<r, vol[r].seq>>, parent |-> link[1],
                         name |-> link[2], dir |-> vol[r].dir,
                         hidden |-> vol[r].hidden]
  IN  SetToSeq(UNION {{entry(r, link) : link \in vol[r].links} :
                        r \in {q \in recs : vol[q].live}})

ReadExtent ==
  /\ mode = "scanning" /\ image.done < Len(setting.extents)
  /\ image' = [done  |-> image.done + 1,
               found |-> image.found \o Entries(setting.extents[image.done + 1])]
  /\ UNCHANGED <<setting, vol, pending, mode, idx, batch, snaps, ops, faults, crashes>>

\* The finished build is installed, or the volume fails for good.
FinishScan ==
  /\ mode = "scanning" /\ image.done = Len(setting.extents)
  /\ LET built == FinishStrict(image.found)
     IN  /\ mode' = IF built.ok THEN "tailing" ELSE "failed"
         /\ idx'  = IF built.ok THEN built.idx ELSE idx
  /\ image' = NoImage
  /\ UNCHANGED <<setting, vol, pending, batch, snaps, ops, faults, crashes>>

(***************************************************************************)
(* Planning a batch: collapse its records by object, in the order objects  *)
(* are first touched, and look up the links of the files that need it.     *)
(***************************************************************************)
NoRecord == [frn |-> RootFrn]

\* The positions of the records that are the first of their object.
Order(records) ==
  {i \in DOMAIN records : \A j \in 1..(i - 1) : records[j].frn # records[i].frn}

Collapse(records, frn) ==
  LET own  == {i \in DOMAIN records : records[i].frn = frn}
      olds == {i \in own : "rename_old" \in records[i].reasons}
  IN  [frn     |-> frn,
       reasons |-> UNION {records[i].reasons : i \in own},
       last    |-> records[Nth(own, Cardinality(own))],
       old     |-> IF olds = {} THEN NoRecord ELSE records[Nth(olds, 1)]]

Plan(records) ==
  [k \in 1..Cardinality(Order(records)) |->
     Collapse(records, records[Nth(Order(records), k)].frn)]

LinkAffecting(a) == a.reasons \cap {"create", "rename_new", "hard_link"} # {}
NeedsLinks(a) == LinkAffecting(a) /\ ~a.last.dir

CurrentBatch == Plan(SubSeq(pending, 1, batch))
Unread == {k \in DOMAIN CurrentBatch : /\ NeedsLinks(CurrentBatch[k])
                                       /\ CurrentBatch[k].frn \notin DOMAIN snaps}
NextUnread == CurrentBatch[Nth(Unread, 1)].frn

ReadJournal ==
  /\ mode = "tailing"
  /\ \E n \in 1..Len(pending) : batch' = n
  /\ mode' = "planning" /\ snaps' = << >>
  /\ UNCHANGED <<setting, vol, pending, image, idx, ops, faults, crashes>>

\* The links of the exact object generation at this moment.
Lookup(frn) ==
  IF frn \in Frns(vol)
  THEN [kind |-> "present", links |-> vol[frn[1]].links]
  ELSE [kind |-> "gone", links |-> {}]

NoAnswer == [kind |-> "failed", links |-> {}]

ReadLinks(answer) ==
  /\ mode = "planning" /\ Unread # {}
  /\ snaps' = [f \in DOMAIN snaps \cup {NextUnread} |->
                 IF f \in DOMAIN snaps THEN snaps[f] ELSE answer]
  /\ UNCHANGED <<setting, vol, pending, mode, image, idx, batch, ops, crashes>>

FetchLinks ==
  /\ mode = "planning" /\ Unread # {}
  /\ ReadLinks(Lookup(NextUnread))
  /\ UNCHANGED faults

FetchFails ==
  /\ faults < setting.maxFaults
  /\ ReadLinks(NoAnswer)
  /\ faults' = faults + 1

\* Lookups whose absence rejects the batch before anything is changed.
OldLinkRows(ix, a) ==
  IF a.old = NoRecord THEN {}
  ELSE EntryByLink(ix, a.frn, a.old.parent, a.old.name)

AmbiguousRename(ix, a) ==
  /\ "rename_new" \in a.reasons
  /\ Cardinality(EntriesByFrn(ix, a.frn)) > 1
  /\ OldLinkRows(ix, a) = {}

PreflightFails(ix, a) ==
  /\ LinkAffecting(a)
  /\ IF a.last.dir THEN "hard_link" \in a.reasons
     ELSE /\ snaps[a.frn].kind = "failed"
          /\ "hard_link" \in a.reasons \/ AmbiguousRename(ix, a)

(***************************************************************************)
(* Applying a batch.  st is the index so far and whether some record was   *)
(* refused; a refused record is skipped and the others still apply.        *)
(***************************************************************************)
Settle(st, result) ==
  [idx |-> result.idx, rescan |-> st.rescan \/ ~result.ok]

EventEntry(a) ==
  [frn |-> a.frn, parent |-> a.last.parent, name |-> a.last.name,
   dir |-> a.last.dir, hidden |-> a.last.hidden]

\* A directory the index has keeps its row; its attributes follow the name.
ApplyDirRename(st, a) ==
  LET moved == RenameDirInPlace(st.idx, a.frn, a.last.name, a.last.parent)
  IN  IF moved.ok
      THEN Settle(st, Accepted(UpdateObjectAttrs(moved.idx, a.frn, a.last.hidden)))
      ELSE Settle(st, moved)

\* A file rename known only by its records: the row of the old name goes, and
\* with several rows and no such name the choice would be a guess.
ApplyFileRename(st, a) ==
  LET before  == Cardinality(EntriesByFrn(st.idx, a.frn))
      removed == OldLinkRows(st.idx, a)
  IN  IF removed = {} /\ before > 1 THEN Settle(st, Refused(st.idx))
      ELSE IF removed = {} /\ before = 1
      THEN Settle(st, UpsertUsn(st.idx, EventEntry(a)))
      ELSE Settle(st, UpsertLinkUsn(Tombstone(st.idx, removed), EventEntry(a)))

\* A rename of a generation the index does not have, in a record that is in
\* use: a late event about an object that is gone.
StaleRename(ix, a) ==
  /\ EntriesByFrn(ix, a.frn) = {}
  /\ "create" \notin a.reasons
  /\ EntriesByRecord(ix, Record(a.frn)) # {}

ApplyUpsert(st, a) ==
  IF /\ a.last.dir
     /\ \E i \in EntriesByFrn(st.idx, a.frn) : st.idx.rows[i].dir
  THEN ApplyDirRename(st, a)
  ELSE IF StaleRename(st.idx, a) THEN st
  ELSE IF a.last.dir THEN Settle(st, UpsertUsn(st.idx, EventEntry(a)))
  ELSE IF "rename_new" \in a.reasons THEN ApplyFileRename(st, a)
  ELSE Settle(st, UpsertLinkUsn(st.idx, EventEntry(a)))

ApplyObject(st, a) ==
  LET answer == IF NeedsLinks(a) THEN snaps[a.frn].kind ELSE "none"
  IN  IF answer = "present"
      THEN Settle(st, ReconcileFileLinks(st.idx, a.frn, snaps[a.frn].links,
                                         a.last.hidden))
      ELSE IF answer = "gone" \/ (answer = "none" /\ "delete" \in a.reasons)
      THEN Settle(st, Accepted(DeleteFrn(st.idx, a.frn)))
      ELSE IF answer = "failed" /\ "hard_link" \in a.reasons
      THEN Settle(st, Refused(st.idx))
      ELSE IF "delete" \in a.reasons
      THEN Settle(st, Accepted(DeleteFrn(st.idx, a.frn)))
      ELSE IF a.reasons \cap {"create", "rename_new"} # {}
      THEN ApplyUpsert(st, a)
      ELSE IF "basic_info" \in a.reasons
      THEN Settle(st, Accepted(UpdateObjectAttrs(st.idx, a.frn, a.last.hidden)))
      ELSE st

ApplyPlanned(ix, plan) ==
  IF \E i \in DOMAIN plan : PreflightFails(ix, plan[i])
  THEN [idx |-> ix, rescan |-> TRUE]
  ELSE LET applied[k \in 0..Len(plan)] ==
             IF k = 0 THEN [idx |-> ix, rescan |-> FALSE]
                      ELSE ApplyObject(applied[k - 1], plan[k])
       IN  Settle(applied[Len(plan)], MergeNew(applied[Len(plan)].idx))

\* Mutant of ApplyBatch: a refused batch ends the worker.
ApplyBatchGivingUp ==
  /\ mode = "planning" /\ Unread = {}
  /\ LET applied == ApplyPlanned(idx, CurrentBatch)
     IN  /\ idx'     = applied.idx
         /\ mode'    = IF applied.rescan THEN "failed" ELSE "applied"
         /\ batch'   = IF applied.rescan THEN 0 ELSE batch
         /\ pending' = IF applied.rescan THEN <<>> ELSE pending
  /\ snaps' = << >>
  /\ UNCHANGED <<setting, vol, image, ops, faults, crashes>>

\* The batch is applied; a refusal sends the worker back to a new scan, and
\* queries read the index as it is until that scan ends.
ApplyBatch ==
  /\ mode = "planning" /\ Unread = {}
  /\ LET applied == ApplyPlanned(idx, CurrentBatch)
     IN  /\ idx'     = applied.idx
         /\ mode'    = IF applied.rescan THEN "opening" ELSE "applied"
         /\ batch'   = IF applied.rescan THEN 0 ELSE batch
         /\ pending' = IF applied.rescan THEN <<>> ELSE pending
  /\ snaps' = << >>
  /\ UNCHANGED <<setting, vol, image, ops, faults, crashes>>

\* Mutant of Publish: the batch is not forgotten when its cursor is published.
PublishKeepingBatch(compact) ==
  /\ mode = "applied"
  /\ mode' = "tailing"
  /\ pending' = SubSeq(pending, batch + 1, Len(pending))
  /\ idx' = IF compact THEN Compacted(idx) ELSE idx
  /\ UNCHANGED <<setting, vol, batch, image, snaps, ops, faults, crashes>>

\* The cursor is published after the batch; then the index may be compacted.
Publish(compact) ==
  /\ mode = "applied"
  /\ mode' = "tailing" /\ batch' = 0
  /\ pending' = SubSeq(pending, batch + 1, Len(pending))
  /\ idx' = IF compact THEN Compacted(idx) ELSE idx
  /\ UNCHANGED <<setting, vol, image, snaps, ops, faults, crashes>>

\* A flush saved the index with the cursor from before the batch, the process
\* ended, and the next one restores the snapshot and reads the batch again.
RestartFromFlush ==
  /\ mode = "applied" /\ crashes < setting.maxCrashes
  /\ mode' = "tailing" /\ batch' = 0 /\ crashes' = crashes + 1
  /\ UNCHANGED <<setting, vol, pending, image, idx, snaps, ops, faults>>

WorkerSteps ==
  \/ OpenJournal \/ ReadExtent \/ FinishScan
  \/ ReadJournal \/ FetchLinks \/ ApplyBatch
  \/ \E compact \in BOOLEAN : Publish(compact)

Next == VolumeChanges \/ WorkerSteps \/ FetchFails \/ RestartFromFlush

Spec == Init /\ [][Next]_vars

CaughtUp == mode = "tailing" /\ pending = <<>>

\* The worker has a step to take unless it has failed or waits for the journal.
Busy == mode # "failed" /\ ~CaughtUp

\* The worker's thread is scheduled again and again: weak fairness of its
\* steps, with Busy for "some step of the worker is enabled".
FairSpec ==
  /\ Spec
  /\ []<>~Busy \/ []<><<worker' # worker>>_vars

-----------------------------------------------------------------------------
\* What the volume holds, one element per link: the object, its parent and
\* name, its kind, its HIDDEN bit, and whether a directory above hides it.
VolumeLinks ==
  UNION {{[frn |-> f, parent |-> link[1], name |-> link[2], dir |-> vol[f[1]].dir,
           hidden |-> vol[f[1]].hidden,
           excl |-> \E g \in DirsAbove(link[1]) \cup {f} : vol[g[1]].hidden] :
            link \in vol[f[1]].links} : f \in Frns(vol)}

IndexLinks ==
  {[frn |-> idx.rows[i].frn, parent |-> idx.rows[idx.rows[i].parent].frn,
    name |-> idx.rows[i].name, dir |-> idx.rows[i].dir,
    hidden |-> idx.rows[i].hidden, excl |-> idx.rows[i].excl] :
     i \in Live(idx) \ {Root}}

InSync ==
  /\ IndexLinks = VolumeLinks
  /\ Cardinality(Live(idx)) = Cardinality(VolumeLinks) + 1

\* Type invariant of the worker's state (worker.rs volume_thread_inner): a batch
\* is at hand exactly while it is planned and applied, and lookups are for it.
TypeOK ==
  /\ mode \in {"opening", "scanning", "tailing", "planning", "applied", "failed"}
  /\ batch \in 0..Len(pending)
  /\ (batch > 0) <=> mode \in {"planning", "applied"}
  /\ DOMAIN snaps \subseteq {pending[i].frn : i \in 1..batch}
  /\ image.done \in 0..Len(setting.extents)
  /\ ops \in 0..setting.maxOps /\ faults \in 0..setting.maxFaults
  /\ crashes \in 0..setting.maxCrashes

\* Replay converges: whenever the worker has applied all the journal holds, the
\* index lists exactly the volume's links with their attributes, whatever the
\* volume did during the scan and between a record and its link lookup.
Converged == CaughtUp => InSync

\* What builder.rs says of the rows a scan drops: replaying the scan window
\* re-adds whichever of them still exist.
DroppedRowsReturn == CaughtUp => VolumeLinks \subseteq IndexLinks

\* Between batches queries read a forest: every live row hangs from the root
\* over live directories, one generation lives in a record, and no link occurs
\* twice (a batch that breaks this is never published; worker.rs re-scans).
ServedForest == mode \in {"tailing", "planning", "applied"} => ValidLiveTopology(idx)

\* Between batches a row is hidden from default searches exactly when it or a
\* directory above it is hidden, although a batch maintains the bit row by row.
ExclusionInherited ==
  mode \in {"tailing", "planning", "applied"} =>
    \A i \in Live(idx) :
      idx.rows[i].excl = \E j \in Chain(idx.rows, i) : idx.rows[j].hidden

\* Once the volume is quiet the worker ends with an index equal to it: refused
\* batches lead to scans, and scans lead to batches that are accepted.
EventuallyInSync == <>[](CaughtUp /\ InSync)

\* What queries read between batches is sound, and what follows from it while a
\* batch is under way is in its types.
ServedSound == TypeOK /\ ServedForest /\ ExclusionInherited
=============================================================================
