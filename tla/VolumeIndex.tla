----------------------------- MODULE VolumeIndex -----------------------------
(***************************************************************************)
(* The row store of one volume's index (fmf-core, index/): parallel        *)
(* columns indexed by EntryId, one row per directory link of an NTFS       *)
(* object.  An index is a record                                           *)
(*                                                                         *)
(*   rows  : a sequence of rows; the EntryId of a row is its position, and *)
(*           row Root is the volume's root directory;                      *)
(*   dirty : exclusion_tree_dirty, "inherited exclusion must be recomputed *)
(*           at the batch boundary".                                       *)
(*                                                                         *)
(* A row keeps the file reference number of its object, the EntryId of its *)
(* parent, its name, whether it is a directory, the raw HIDDEN bit (which  *)
(* stands for HIDDEN|SYSTEM: the code treats the two alike), the derived   *)
(* EXCLUDED bit and its liveness (a dead row is a tombstone and is never   *)
(* reused).  Names are abstract values; sizes, times, the name dictionary  *)
(* and the permutations are left out.  Everything here is an operator: the *)
(* volume worker is the only writer, and UsnApply says when it writes.     *)
(***************************************************************************)
EXTENDS Naturals, Sequences, FiniteSets, SequencesExt

\* The k-th least of a finite set of numbers.
Nth(S, k) == CHOOSE i \in S : Cardinality({j \in S : j <= i}) = k

\* EntryId 0 stands for NO_PARENT, and ROOT is the first row.
NoParent == 0
Root == 1

\* A file reference number is a record number and the sequence number that
\* tells the record's successive uses apart.
Record(frn) == frn[1]
RootFrn == <<0, 1>>

EmptyIndex == [rows |-> <<>>, dirty |-> FALSE]

Live(idx) == {i \in DOMAIN idx.rows : idx.rows[i].live}
EntriesByRecord(idx, rec) ==
  {i \in Live(idx) : Record(idx.rows[i].frn) = rec}
EntriesByFrn(idx, frn) == {i \in Live(idx) : idx.rows[i].frn = frn}

\* The exact directory links: object generation, parent generation and name.
\* The parent's row is matched by its reference number and may be dead.
EntryByLink(idx, frn, parent, name) ==
  {i \in EntriesByFrn(idx, frn) :
     /\ idx.rows[i].parent # NoParent
     /\ idx.rows[idx.rows[i].parent].frn = parent
     /\ idx.rows[i].name = name}

\* The parent walk from row i, and the rows on it, i included.
Walk(rows, i) ==
  LET above(j) == IF j = NoParent THEN NoParent ELSE rows[j].parent
      up[k \in 0..Len(rows)] == IF k = 0 THEN i ELSE above(up[k - 1])
  IN  up
Chain(rows, i) ==
  {Walk(rows, i)[k] : k \in 0..Len(rows)} \ {NoParent}

(***************************************************************************)
(* Exclusion: a row is excluded when it, or any directory above it, is     *)
(* hidden.  One row takes it from its parent's current bit; a batch that   *)
(* changed the tree recomputes every row, dead ones too.                   *)
(***************************************************************************)
Inherits(rows, i) ==
  \/ rows[i].hidden
  \/ rows[i].parent \notin {NoParent, i} /\ rows[rows[i].parent].excl
RecomputeExcluded(rows, i) == [rows EXCEPT ![i].excl = Inherits(rows, i)]

RecomputeAllExcluded(idx) ==
  [idx EXCEPT !.rows =
     [i \in DOMAIN idx.rows |->
        [idx.rows[i] EXCEPT
           !.excl = \E j \in Chain(idx.rows, i) : idx.rows[j].hidden]]]

(***************************************************************************)
(* The row operations a batch is made of.                                  *)
(***************************************************************************)
Tombstone(idx, ids) ==
  [idx EXCEPT !.rows =
     [i \in DOMAIN idx.rows |->
        IF i \in ids THEN [idx.rows[i] EXCEPT !.live = FALSE]
                     ELSE idx.rows[i]]]

NewRow(idx, e, parent) ==
  [frn |-> e.frn, parent |-> parent, name |-> e.name, dir |-> e.dir,
   hidden |-> e.hidden, live |-> TRUE, excl |-> e.hidden \/ idx.rows[parent].excl]

PushRaw(idx, e, parent) ==
  [idx EXCEPT !.rows = Append(@, NewRow(idx, e, parent))]

\* A mutation either returns the changed index or refuses and leaves it alone.
Accepted(idx) == [idx |-> idx, ok |-> TRUE]
Refused(idx)  == [idx |-> idx, ok |-> FALSE]

\* The walk from the new parent must reach the root over live directories
\* without meeting the directory that is being moved.
EnsureParentDoesNotCycle(idx, object, parent) ==
  LET dirs == {i \in EntriesByFrn(idx, object) : idx.rows[i].dir}
      up   == Walk(idx.rows, parent)
  IN  /\ Record(object) # Record(idx.rows[parent].frn)
      /\ \/ dirs = {}
         \/ /\ Cardinality(dirs) = 1
            /\ \E k \in DOMAIN up :
                 /\ up[k] = Root
                 /\ \A j \in 0..k :
                      /\ up[j] \notin dirs
                      /\ j < k => /\ up[j] \in Live(idx)
                                  /\ idx.rows[up[j]].dir

\* The row of the directory a reference names, or NoParent for an error.
ResolveParent(idx, object, parent) ==
  LET dirs == {i \in EntriesByFrn(idx, parent) : idx.rows[i].dir}
      p    == CHOOSE i \in dirs : TRUE
  IN  IF /\ Record(object) # Record(parent)
         /\ Cardinality(dirs) = 1
         /\ EnsureParentDoesNotCycle(idx, object, p)
      THEN p ELSE NoParent

ObjectKindOk(idx, object, dir) ==
  LET ids == EntriesByFrn(idx, object)
  IN  /\ \A i \in ids : idx.rows[i].dir = dir
      /\ dir => Cardinality(ids) <= 1

\* Replace whatever lives in e's record by the one row e.
UpsertUsn(idx, e) ==
  LET parent == ResolveParent(idx, e.frn, e.parent)
  IN  IF \/ parent = NoParent
         \/ ~ObjectKindOk(idx, e.frn, e.dir)
         \/ ~e.dir /\ Cardinality(EntriesByFrn(idx, e.frn)) > 1
      THEN Refused(idx)
      ELSE Accepted(PushRaw(Tombstone(idx, EntriesByRecord(idx, Record(e.frn))),
                            e, parent))

OtherGenerations(idx, frn) ==
  EntriesByRecord(idx, Record(frn)) \ EntriesByFrn(idx, frn)

\* Add one file link, or refresh it when it is there already; the object's
\* other links stay, the rows of an earlier use of the record go.
UpsertLinkUsn(idx, e) ==
  LET parent == ResolveParent(idx, e.frn, e.parent)
  IN  IF e.dir \/ parent = NoParent \/ ~ObjectKindOk(idx, e.frn, FALSE)
      THEN Refused(idx)
      ELSE Accepted(PushRaw(
             Tombstone(idx, OtherGenerations(idx, e.frn)
                              \cup EntryByLink(idx, e.frn, e.parent, e.name)),
             e, parent))

DeleteFrn(idx, frn) == Tombstone(idx, EntriesByFrn(idx, frn))

\* The attributes belong to the object: every link row takes them, and each
\* derives its exclusion from its own parent, which is no row of the object.
UpdateObjectAttrs(idx, frn, hidden) ==
  LET ids == EntriesByFrn(idx, frn)
      raw == [i \in DOMAIN idx.rows |->
                IF i \in ids THEN [idx.rows[i] EXCEPT !.hidden = hidden]
                             ELSE idx.rows[i]]
  IN  [rows  |-> [i \in DOMAIN raw |->
                    IF i \in ids THEN [raw[i] EXCEPT !.excl = Inherits(raw, i)]
                                 ELSE raw[i]],
       dirty |-> \/ idx.dirty
                 \/ \E i \in ids : /\ idx.rows[i].dir
                                   /\ idx.rows[i].hidden # hidden]

\* One new row in base for each of the object's links, below the directory that
\* was resolved in idx.
PushLinks(base, idx, frn, links, hidden) ==
  LET entry(link) == [frn |-> frn, name |-> link[2], dir |-> FALSE, hidden |-> hidden]
      new == SetToSeq(links)
  IN  [base EXCEPT !.rows =
         @ \o [k \in DOMAIN new |-> NewRow(base, entry(new[k]),
                                          ResolveParent(idx, frn, new[k][1]))]]

\* Mutant of ReconcileFileLinks: links that disappeared keep their rows.
ReconcileAddingOnly(idx, frn, links, hidden) ==
  LET at(link)   == ResolveParent(idx, frn, link[1])
      is(i, link) == idx.rows[i].parent = at(link) /\ idx.rows[i].name = link[2]
      rows       == EntriesByFrn(idx, frn)
      missing    == {link \in links : \A i \in rows : ~is(i, link)}
  IN  IF \/ links = {}
         \/ ~ObjectKindOk(idx, frn, FALSE)
         \/ \E link \in links : at(link) = NoParent
      THEN Refused(idx)
      ELSE Accepted(UpdateObjectAttrs(
             PushLinks(Tombstone(idx, OtherGenerations(idx, frn)), idx, frn, missing,
                       hidden),
             frn, hidden))

\* Bring a file's rows to exactly the links the volume reports: resolve all of
\* them first, keep the rows that match, drop the others, append the rest.
ReconcileFileLinks(idx, frn, links, hidden) ==
  LET at(link)   == ResolveParent(idx, frn, link[1])
      is(i, link) == idx.rows[i].parent = at(link) /\ idx.rows[i].name = link[2]
      kept       == {i \in EntriesByFrn(idx, frn) : \E link \in links : is(i, link)}
      missing    == {link \in links : \A i \in kept : ~is(i, link)}
      dropped    == EntriesByRecord(idx, Record(frn)) \ kept
  IN  IF \/ links = {}
         \/ ~ObjectKindOk(idx, frn, FALSE)
         \/ \E link \in links : at(link) = NoParent
      THEN Refused(idx)
      ELSE Accepted(UpdateObjectAttrs(
             PushLinks(Tombstone(idx, dropped), idx, frn, missing, hidden),
             frn, hidden))

\* Mutant of RenameDirInPlace: a moved directory does not ask for the recomputation.
RenameDirWithoutDirty(idx, frn, name, parent) ==
  LET i == CHOOSE j \in EntriesByFrn(idx, frn) : TRUE
      p == ResolveParent(idx, frn, parent)
  IN  IF ~ObjectKindOk(idx, frn, TRUE) \/ p = NoParent
      THEN Refused(idx)
      ELSE Accepted(
        [rows  |-> RecomputeExcluded([idx.rows EXCEPT ![i].name   = name,
                                                      ![i].parent = p], i),
         dirty |-> idx.dirty])

\* Directories keep their EntryId, because their children point at it.
RenameDirInPlace(idx, frn, name, parent) ==
  LET i == CHOOSE j \in EntriesByFrn(idx, frn) : TRUE
      p == ResolveParent(idx, frn, parent)
  IN  IF ~ObjectKindOk(idx, frn, TRUE) \/ p = NoParent
      THEN Refused(idx)
      ELSE Accepted(
        [rows  |-> RecomputeExcluded([idx.rows EXCEPT ![i].name   = name,
                                                      ![i].parent = p], i),
         dirty |-> idx.dirty \/ idx.rows[i].parent # p])

(***************************************************************************)
(* The batch boundary: judge the topology, recompute exclusion when the    *)
(* tree changed.  A bad verdict never stops the recomputation.             *)
(***************************************************************************)
ValidObjectGroups(idx) ==
  \A i, j \in Live(idx) :
    i # j /\ Record(idx.rows[i].frn) = Record(idx.rows[j].frn)
      => /\ idx.rows[i].frn = idx.rows[j].frn
         /\ ~idx.rows[i].dir /\ ~idx.rows[j].dir
UniqueLinks(idx) ==
  \A i, j \in Live(idx) :
    i # j => <<idx.rows[i].frn, idx.rows[i].parent, idx.rows[i].name>>
               # <<idx.rows[j].frn, idx.rows[j].parent, idx.rows[j].name>>
LiveDirectoryParents(idx) ==
  \A i \in Live(idx) \ {Root} :
    /\ idx.rows[i].parent \in Live(idx)
    /\ idx.rows[idx.rows[i].parent].dir
    /\ Record(idx.rows[i].frn) # Record(idx.rows[idx.rows[i].parent].frn)

ValidLiveTopology(idx) ==
  /\ Root \in Live(idx) /\ idx.rows[Root].dir /\ idx.rows[Root].parent = NoParent
  /\ ValidObjectGroups(idx)
  /\ UniqueLinks(idx)
  /\ LiveDirectoryParents(idx)
  /\ \A i \in Live(idx) : Root \in Chain(idx.rows, i)

\* Mutant of MergeNew: the batch boundary does not judge the topology.
MergeNewUnchecked(idx) ==
  [idx |-> IF idx.dirty THEN RecomputeAllExcluded([rows |-> idx.rows, dirty |-> FALSE])
                        ELSE idx,
   ok  |-> TRUE]

MergeNew(idx) ==
  [idx |-> IF idx.dirty THEN RecomputeAllExcluded([rows |-> idx.rows, dirty |-> FALSE])
                        ELSE idx,
   ok  |-> ValidLiveTopology(idx)]

\* A copy without the tombstones; a row below a dead directory moves to the root.
Compacted(idx) ==
  LET live    == Live(idx)
      remap(i) == Cardinality({j \in live : j <= i})
      row(k)  == idx.rows[Nth(live, k)]
      home(p) == IF p = NoParent THEN NoParent
                 ELSE IF p \in live THEN remap(p) ELSE Root
  IN  RecomputeAllExcluded(
        [rows  |-> [k \in 1..Cardinality(live) |->
                      [row(k) EXCEPT !.parent = home(row(k).parent)]],
         dirty |-> FALSE])

(***************************************************************************)
(* The initial build from the entries a scan produced, each naming its     *)
(* parent by reference number.  An entry whose parent the scan did not see *)
(* is dropped with everything below it; a cycle refuses the whole build.   *)
(***************************************************************************)
RootRow == [frn |-> RootFrn, parent |-> NoParent, name |-> "", dir |-> TRUE,
            hidden |-> FALSE, excl |-> FALSE, live |-> TRUE]

ResolvedRows(entries) ==
  LET all     == <<RootRow>> \o entries
      dirs(f) == {i \in DOMAIN all : all[i].frn = f /\ all[i].dir}
  IN  [i \in DOMAIN all |->
         IF i = Root THEN RootRow
         ELSE [frn |-> all[i].frn, name |-> all[i].name, dir |-> all[i].dir,
               hidden |-> all[i].hidden, excl |-> FALSE, live |-> TRUE,
               parent |-> IF dirs(all[i].parent) = {} THEN NoParent
                          ELSE CHOOSE d \in dirs(all[i].parent) : TRUE]]

\* The rows whose parent walk ends before the root.
UnresolvedParents(rows) ==
  {i \in DOMAIN rows :
     /\ Root \notin Chain(rows, i)
     /\ \E k \in 0..Len(rows) : Walk(rows, i)[k] = NoParent}

FinishStrict(entries) ==
  LET rows   == ResolvedRows(entries)
      kept   == Tombstone([rows |-> rows, dirty |-> FALSE],
                          UnresolvedParents(rows))
      cyclic == \E i \in Live(kept) : Root \notin Chain(rows, i)
  IN  IF cyclic \/ ~ValidObjectGroups(kept)
      THEN Refused(EmptyIndex)
      ELSE Accepted(Compacted(kept))
==============================================================================
