------------------------------- MODULE LiveLinks -------------------------------
(***************************************************************************)
(* One live read of a file's hard links: its base record, the attribute    *)
(* list that says where the rest of its attributes are, and the extension  *)
(* records the list names, each read on its own while NTFS goes on         *)
(* changing the file.  A list too long for the record is a stream of its   *)
(* own, whose extents are described in part by the list itself: they are   *)
(* discovered from the prefix already readable until the stream is closed. *)
(*                                                                         *)
(* A stream holds one unit per 32 bytes; an entry takes one unit, a named  *)
(* one two.  A cluster is one sector.  Attribute instance ids are not used *)
(* twice for one file reference.                                           *)
(***************************************************************************)
EXTENDS Naturals, Sequences, FiniteSets, SequencesExt

CONSTANTS
  Links,        \* a directory and a name in it
  Foreign,      \* a link of the file that takes over an extension record
  Exts,         \* numbers of the records the file may extend into
  Layouts,      \* what the file may look like when the read begins
  SectorUnits,  \* units in a sector
  MaxPasses,    \* MAX_CLOSURE_PASSES
  MaxNames,     \* MAX_FILE_NAME_ENTRIES
  MaxChanges    \* bound on the changes NTFS and the owner make during the read

ASSUME LinksAssumption ==
  /\ 0 \notin Exts /\ Foreign \notin Links
  /\ {SectorUnits, MaxPasses, MaxNames} \subseteq Nat \ {0}
  /\ MaxChanges \in Nat

\* A layout is a file NTFS keeps: an attribute has an id of its own in its
\* record, a file without a list has all its names in its base record, and a
\* resident list names exactly the names there are.  Of a stream nothing is
\* assumed.
ASSUME LayoutsAssumption == \A f \in Layouts :
  LET rec == {0} \cup Exts
      named == {i \in DOMAIN f.list : f.list[i].type = "name"}
      lists(i, n) == f.list[i].ref = <<n.rec, 1>> /\ f.list[i].id = n.id
  IN  /\ f \in [live : {TRUE}, kind : {"missing", "resident", "stream"},
                names : SUBSET [rec : rec, id : 0..9, link : Links, dos : BOOLEAN],
                list : Seq([type : {"list", "name", "data", "junk"}, ref : Nat \X Nat,
                            id : Nat, vcn : Nat]),
                extents : SUBSET [rec : rec, id : Nat, vcn : Nat, lcn : Nat, len : Nat]]
      /\ \A n, m \in f.names : n.rec = m.rec /\ n.id = m.id => n = m
      /\ f.kind = "missing" => f.list = <<>> /\ \A n \in f.names : n.rec = 0
      /\ f.kind = "resident" => /\ \A i \in named : \E n \in f.names : lists(i, n)
                                /\ \A n \in f.names : \E i \in named : lists(i, n)

VARIABLES
  disk,     \* the file as NTFS has it
  seqs,     \* sequence value of each record
  ids,      \* last attribute instance id given out
  changes,
  held,     \* the links the file had since its base record was read
  pc,
  base,     \* the base record as read
  runs,     \* extents of the list known so far
  seen,     \* the descriptors decoded, by target
  scanned,  \* prefix already searched for descriptors
  passes,
  target,   \* units to read now
  buf,      \* units read
  pending,  \* entries still to follow
  found,    \* an extent was added in this pass
  cache,    \* extension records read
  links,    \* the links collected
  answer

fsVars == <<disk, seqs, ids, changes, held>>
closeVars == <<runs, seen, scanned, passes, found>>
streamVars == <<target, buf>>
vars == <<fsVars, pc, base, closeVars, streamVars, pending, cache, links, answer>>

Records == {0} \cup Exts
Reading == pc \notin {"start", "done"}
Entry(type, ref, id, vcn) == [type |-> type, ref |-> ref, id |-> id, vcn |-> vcn]
Junk == Entry("junk", <<0, 0>>, 0, 0)      \* bytes no entry begins with
Rank(e) == CASE e.type = "list" -> 2 [] e.type = "name" -> 3 [] e.type = "data" -> 8

--------------------------------------------------------------------------------
(* The file.  Its names are attributes [rec, id, link, dos]; its list, a    *)
(* sequence of units, is missing, resident or a stream, whose extents are   *)
(* attributes [rec, id, vcn, lcn, len].                                     *)

SearchLinks(names) == {n.link : n \in {m \in names : ~m.dos}}
NameEntry(n) == Entry("name", <<n.rec, seqs[n.rec]>>, n.id, 0)

Clusters(extent) == {extent.lcn + k : k \in 0..extent.len - 1}
Room(extents) == SectorUnits * Cardinality(UNION {Clusters(e) : e \in extents})

\* What a raw read of cluster `lcn` returns.
Sector(lcn) ==
  LET mine == {e \in disk.extents : lcn \in Clusters(e)}
      at(e) == (e.vcn + lcn - e.lcn) * SectorUnits
  IN  [k \in 1..SectorUnits |->
         IF mine = {} THEN Junk
         ELSE LET u == at(CHOOSE e \in mine : TRUE) + k
              IN  IF u \in DOMAIN disk.list THEN disk.list[u] ELSE Junk]

Init ==
  /\ disk \in Layouts
  /\ seqs = [r \in Records |-> 1] /\ ids = 9 /\ changes = 0 /\ held = {}
  /\ pc = "start" /\ base = disk
  /\ runs = <<>> /\ seen = {} /\ scanned = 0 /\ passes = 0 /\ found = FALSE
  /\ target = 0 /\ buf = <<>> /\ pending = <<>> /\ cache = {} /\ links = {}
  /\ answer = [kind |-> "none", links |-> {}]

\* NTFS changes the file's names and the entries that list them at once.
Becomes(names, list) ==
  /\ Reading /\ disk.live /\ changes < MaxChanges
  /\ disk.kind = "stream" => Len(list) <= Room(disk.extents)
  /\ disk' = [disk EXCEPT !.names = names, !.list = list]
  /\ held' = held \cup SearchLinks(names)
  /\ changes' = changes + 1

Unlisted(n) == SelectSeq(disk.list, LAMBDA e : e # NameEntry(n))
Listed(list, n) ==
  IF disk.kind = "missing" THEN <<>>
  ELSE SelectSeq(list, LAMBDA e : e.type \in {"list", "name"}) \o <<NameEntry(n)>>
       \o SelectSeq(list, LAMBDA e : e.type \in {"data", "junk"})
Owned(r) == seqs[r] = 1 /\ (disk.kind = "missing" => r = 0)

AddLink == \E r \in Records, l \in Links \ SearchLinks(disk.names) :
  /\ Owned(r)
  /\ LET n == [rec |-> r, id |-> ids + 1, link |-> l, dos |-> FALSE]
     IN  Becomes(disk.names \cup {n}, Listed(disk.list, n))
  /\ ids' = ids + 1
  /\ UNCHANGED seqs

DropLink == \E n \in disk.names :
  /\ Becomes(disk.names \ {n}, Unlisted(n))
  /\ UNCHANGED <<seqs, ids>>

RenameLink == \E n \in disk.names, r \in Records, l \in Links :
  /\ Owned(r)
  /\ l = n.link \/ l \notin SearchLinks(disk.names)
  /\ LET m == [rec |-> r, id |-> ids + 1, link |-> l, dos |-> n.dos]
     IN  Becomes((disk.names \ {n}) \cup {m}, Listed(Unlisted(n), m))
  /\ ids' = ids + 1
  /\ UNCHANGED seqs

\* An extension record nothing is left in becomes another file's.
TakeOver == \E r \in Exts :
  /\ Reading /\ changes < MaxChanges /\ seqs[r] = 1
  /\ disk.live => \A a \in disk.names \cup disk.extents : a.rec # r
  /\ seqs' = [seqs EXCEPT ![r] = 2]
  /\ changes' = changes + 1
  /\ UNCHANGED <<disk, ids, held>>

Delete ==
  /\ Reading /\ disk.live /\ changes < MaxChanges
  /\ disk' = [disk EXCEPT !.live = FALSE]
  /\ changes' = changes + 1
  /\ UNCHANGED <<seqs, ids, held>>

FileSystem ==
  /\ AddLink \/ DropLink \/ RenameLink \/ TakeOver \/ Delete
  /\ UNCHANGED <<pc, base, closeVars, streamVars, pending, cache, links, answer>>

--------------------------------------------------------------------------------
(* Reading records. *)

Answer(kind, ls) == pc' = "done" /\ answer' = [kind |-> kind, links |-> ls]
Fail == /\ Answer("failed", {})
        /\ UNCHANGED <<base, closeVars, streamVars, pending, cache, links>>

\* Record r as FSCTL_GET_NTFS_FILE_RECORD returns it now, whosever it is.
Record(r) ==
  IF seqs[r] = 1
  THEN [ref |-> <<r, 1>>, of |-> "file", used |-> disk.live,
        names |-> {n \in disk.names : n.rec = r}, extents |-> {e \in disk.extents : e.rec = r}]
  ELSE [ref |-> <<r, seqs[r]>>, of |-> "other", used |-> TRUE, extents |-> {},
        names |-> {[rec |-> r, id |-> i, link |-> Foreign, dos |-> FALSE] : i \in 1..ids}]
BaseRecord == [ref |-> <<0, 1>>, of |-> "file", used |-> TRUE, names |-> {n \in base.names : n.rec = 0},
               extents |-> {e \in base.extents : e.rec = 0}]
Cached(r) == {c \in cache : c.ref[1] = r}

\* The record an entry points at: the base as read, a kept extension, or a
\* fresh read.  It must be the one the entry names, and extend this file.
Target(e) ==
  IF e.ref[1] = 0 THEN BaseRecord
  ELSE IF Cached(e.ref[1]) # {} THEN CHOOSE c \in Cached(e.ref[1]) : TRUE
  ELSE Record(e.ref[1])
BelongsAny(rec, e) == TRUE   \* whosever the record is now
Belongs(rec, e) == rec.used /\ rec.ref = e.ref /\ rec.of = "file"
Keep(e) == cache' = IF e.ref[1] = 0 THEN cache ELSE cache \cup {Target(e)}

\* decode_extent_runs, of the one extent (or none) in `parts`.
Run(parts) ==
  LET part == CHOOSE e \in parts : TRUE
  IN  IF parts = {} THEN <<>>
      ELSE <<[logical |-> part.vcn, physical |-> part.lcn, len |-> part.len]>>

ReadBase ==
  /\ pc = "start"
  /\ IF ~disk.live
     THEN /\ Answer("gone", {})
          /\ UNCHANGED <<base, closeVars, streamVars, pending, cache, links>>
     ELSE /\ base' = disk
          /\ links' = SearchLinks({n \in disk.names : n.rec = 0})
          /\ IF disk.kind = "stream"
             THEN LET first == {e \in disk.extents : e.rec = 0 /\ e.vcn = 0}
                  IN  /\ pc' = "close"
                      /\ runs' = Run(first)
                      /\ seen' = {<<<<0, 1>>, e.id, e.vcn>> : e \in first}
                      /\ UNCHANGED pending
             ELSE /\ pc' = "names"
                  /\ pending' = disk.list
                  /\ UNCHANGED <<runs, seen>>
          /\ UNCHANGED <<scanned, passes, found, streamVars, cache, answer>>
  /\ held' = SearchLinks(disk.names)
  /\ UNCHANGED <<disk, seqs, ids, changes>>

\* The owner asked to stop, or a read failed.
Interrupted ==
  /\ pc \in {"discover", "extend", "stream", "resolve"} /\ changes < MaxChanges
  /\ Fail
  /\ changes' = changes + 1
  /\ UNCHANGED <<disk, seqs, ids, held>>

--------------------------------------------------------------------------------
(* The extents of the stream. *)

Span(from, len) == from..from + len - 1
PartialRuns(rs) ==
  /\ rs # <<>> /\ \A i \in DOMAIN rs : rs[i].len > 0
  /\ \A i, j \in DOMAIN rs : i # j =>
       /\ Span(rs[i].physical, rs[i].len) \cap Span(rs[j].physical, rs[j].len) = {}
       /\ Span(rs[i].logical, rs[i].len) \cap Span(rs[j].logical, rs[j].len) = {}
  /\ \E i \in DOMAIN rs : rs[i].logical = 0
Covered(rs) ==
  LET logical == UNION {Span(rs[i].logical, rs[i].len) : i \in DOMAIN rs}
  IN  Cardinality({n \in logical : 0..n \subseteq logical})
CompleteRuns(rs, size) ==
  /\ PartialRuns(rs)
  /\ \A i \in DOMAIN rs : rs[i].logical < Covered(rs)
  /\ Covered(rs) * SectorUnits >= size
Size == Len(base.list)
Least(a, b) == IF a < b THEN a ELSE b

\* One round of the closure: read the prefix the known extents cover.
Close ==
  /\ pc = "close"
  /\ LET prefix == Least(Covered(runs) * SectorUnits, Size)
         go(at) == /\ pc' = at /\ target' = prefix /\ buf' = <<>>
                   /\ UNCHANGED <<base, runs, seen, scanned, found, pending, cache, links, answer>>
     IN  IF ~PartialRuns(runs) \/ Size = 0 THEN Fail
         ELSE IF prefix = Size
         THEN IF CompleteRuns(runs, Size) THEN go("stream") /\ UNCHANGED passes ELSE Fail
         ELSE IF prefix <= scanned \/ passes = MaxPasses THEN Fail
         ELSE go("discover") /\ passes' = passes + 1
  /\ UNCHANGED fsVars

\* The next sector, from the run that holds it.
ReadSectorWhole ==   \* not bounded by the size of the data
  /\ pc \in {"discover", "stream"} /\ Len(buf) < target
  /\ LET at == Len(buf) \div SectorUnits
         run == CHOOSE r \in ToSet(runs) : at \in Span(r.logical, r.len)
     IN  buf' = buf \o Sector(run.physical + at - run.logical)
  /\ UNCHANGED <<fsVars, pc, base, closeVars, target, pending, cache, links, answer>>
ReadSector ==
  /\ pc \in {"discover", "stream"} /\ Len(buf) < target
  /\ LET at == Len(buf) \div SectorUnits
         run == CHOOSE r \in ToSet(runs) : at \in Span(r.logical, r.len)
         units == Sector(run.physical + at - run.logical)
     IN  buf' = buf \o SubSeq(units, 1, Least(SectorUnits, target - Len(buf)))
  /\ UNCHANGED <<fsVars, pc, base, closeVars, target, pending, cache, links, answer>>

\* The entries of a list's units.  A prefix may cut its last entry short.
Walk(units) ==
  FoldLeft(LAMBDA w, u : IF w.inside THEN [w EXCEPT !.inside = FALSE]
                         ELSE [w EXCEPT !.entries = Append(@, u), !.inside = u.type = "data"],
           [entries |-> <<>>, inside |-> FALSE], units)
Entries(units, prefix) ==
  IF Walk(units).inside /\ prefix THEN Front(Walk(units).entries) ELSE Walk(units).entries

\* EntrySequence::accept: types in order, no attribute twice, the extents of
\* one attribute in order.
Accepted(es) ==
  /\ \A i \in DOMAIN es : es[i].type # "junk"
  /\ \A i, j \in DOMAIN es : i < j =>
       /\ Rank(es[i]) <= Rank(es[j])
       /\ <<es[i].ref, es[i].id>> # <<es[j].ref, es[j].id>>
       /\ es[i].type = "list" /\ es[j].type = "list" => es[i].vcn < es[j].vcn
  /\ Cardinality({i \in DOMAIN es : es[i].type = "name"}) <= MaxNames
ParsedWhole(units, prefix) ==   \* a prefix must end where an entry does
  /\ Accepted(Entries(units, FALSE))
  /\ ~Walk(units).inside /\ units # <<>>
Parsed(units, prefix) ==
  /\ Accepted(Entries(units, prefix))
  /\ ~prefix => ~Walk(units).inside /\ units # <<>>

Discovered ==
  /\ pc = "discover" /\ Len(buf) = target
  /\ IF ~Parsed(buf, TRUE) THEN Fail
     ELSE /\ pending' = SelectSeq(Entries(buf, TRUE), LAMBDA e : e.type = "list")
          /\ found' = FALSE /\ pc' = "extend"
          /\ UNCHANGED <<base, runs, seen, scanned, passes, streamVars, cache, links, answer>>
  /\ UNCHANGED fsVars

\* Follow one descriptor that is not known yet.
Extend ==
  /\ pc = "extend" /\ pending # <<>>
  /\ LET e == Head(pending)
         known == {s \in seen : s[1] = e.ref /\ s[2] = e.id}
         parts == {x \in Target(e).extents : Belongs(Target(e), e) /\ x.id = e.id /\ x.vcn = e.vcn}
         more == runs \o Run(parts)
     IN  IF known # {}
         THEN IF known # {<<e.ref, e.id, e.vcn>>} THEN Fail
              ELSE /\ pending' = Tail(pending)
                   /\ UNCHANGED <<pc, base, closeVars, streamVars, cache, links, answer>>
         ELSE IF parts = {} \/ ~PartialRuns(more) THEN Fail
         ELSE /\ seen' = seen \cup {<<e.ref, e.id, e.vcn>>}
              /\ runs' = more /\ found' = TRUE
              /\ pending' = Tail(pending)
              /\ Keep(e)
              /\ UNCHANGED <<pc, base, scanned, passes, streamVars, links, answer>>
  /\ UNCHANGED fsVars

ExtendedAgain ==   \* looks again at a prefix that revealed nothing
  /\ pc = "extend" /\ pending = <<>>
  /\ pc' = IF found THEN "close" ELSE "discover"
  /\ scanned' = IF found THEN target ELSE scanned
  /\ buf' = <<>>
  /\ UNCHANGED <<fsVars, base, runs, seen, passes, found, target, pending, cache, links, answer>>
Extended ==
  /\ pc = "extend" /\ pending = <<>>
  /\ IF ~found THEN Fail
     ELSE /\ scanned' = target /\ pc' = "close"
          /\ UNCHANGED <<base, runs, seen, passes, found, streamVars, pending, cache, links, answer>>
  /\ UNCHANGED fsVars

Streamed ==
  /\ pc = "stream" /\ Len(buf) = target
  /\ IF ~Parsed(buf, FALSE) THEN Fail
     ELSE /\ pending' = Entries(buf, FALSE)
          /\ pc' = "names"
          /\ UNCHANGED <<base, closeVars, streamVars, cache, links, answer>>
  /\ UNCHANGED fsVars

--------------------------------------------------------------------------------
(* The names. *)

\* Every name of the base record must be listed.
BaseListed(es) ==
  \A n \in BaseRecord.names : \E i \in DOMAIN es :
    es[i].type = "name" /\ es[i].ref = <<0, 1>> /\ es[i].id = n.id

CheckBase ==
  /\ pc = "names"
  /\ IF base.kind # "missing" /\ ~(Accepted(pending) /\ pending # <<>> /\ BaseListed(pending))
     THEN Fail
     ELSE /\ pc' = "resolve"
          /\ UNCHANGED <<base, closeVars, streamVars, pending, cache, links, answer>>
  /\ UNCHANGED fsVars

ResolveAnyName ==   \* every name of the record, not the one listed
  /\ pc = "resolve" /\ pending # <<>>
  /\ LET e == Head(pending)
         named == {n \in Target(e).names : Belongs(Target(e), e)}
     IN  IF e.type # "name"
         THEN /\ pending' = Tail(pending)
              /\ UNCHANGED <<pc, base, closeVars, streamVars, cache, links, answer>>
         ELSE IF named = {} THEN Fail
         ELSE /\ links' = links \cup SearchLinks(named)
              /\ pending' = Tail(pending)
              /\ Keep(e)
              /\ UNCHANGED <<pc, base, closeVars, streamVars, answer>>
  /\ UNCHANGED fsVars
ResolveName ==
  /\ pc = "resolve" /\ pending # <<>>
  /\ LET e == Head(pending)
         named == {n \in Target(e).names : Belongs(Target(e), e) /\ n.id = e.id}
     IN  IF e.type # "name"
         THEN /\ pending' = Tail(pending)
              /\ UNCHANGED <<pc, base, closeVars, streamVars, cache, links, answer>>
         ELSE IF named = {} THEN Fail
         ELSE /\ links' = links \cup SearchLinks(named)
              /\ pending' = Tail(pending)
              /\ Keep(e)
              /\ UNCHANGED <<pc, base, closeVars, streamVars, answer>>
  /\ UNCHANGED fsVars

Resolved ==
  /\ pc = "resolve" /\ pending = <<>>
  /\ IF links = {} THEN Fail
     ELSE /\ Answer("present", links)
          /\ UNCHANGED <<base, closeVars, streamVars, pending, cache, links>>
  /\ UNCHANGED fsVars

Reader ==
  \/ ReadBase \/ Close \/ ReadSector \/ Discovered \/ Extend \/ Extended
  \/ Streamed \/ CheckBase \/ ResolveName \/ Resolved
Done == pc = "done" /\ UNCHANGED vars
Next == Reader \/ FileSystem \/ Interrupted \/ Done

\* Weak fairness of Reader, and nothing of NTFS or the owner: a step of it is
\* possible until it ends (nothing deadlocks once the changes are used up), and
\* these variables tell when it takes one.
GoesOn == []<>(pc = "done") \/ []<><<TRUE>>_<<pc, buf, pending>>
Spec == Init /\ [][Next]_vars /\ GoesOn

--------------------------------------------------------------------------------
(* Properties *)

\* The state stays in its types (LinkSnapshot, StreamRun, ListEntry).
TypeOK ==
  /\ pc \in {"start", "close", "discover", "extend", "stream", "names", "resolve", "done"}
  /\ answer.kind \in {"none", "present", "gone", "failed"}
  /\ (pc = "done") <=> (answer.kind # "none")
  /\ answer.links \cup links \subseteq Links \cup {Foreign}
  /\ passes <= MaxPasses /\ Len(buf) <= target /\ target <= Size
  /\ \A c \in cache : c.ref[1] \in Exts

\* A file whose list is in its base record is answered with the links it had
\* the moment that record was read, although its extension records are read
\* later, when names may have come, gone or moved between records.
AnswerOfOneMoment ==
  answer.kind = "present" /\ base.kind # "stream" => answer.links = SearchLinks(base.names)

\* The descriptors that can be followed from the base extent, whatever order
\* they are met in: the reference for the closure.
Reachable ==
  LET first == {e \in base.extents : e.rec = 0 /\ e.vcn = 0}
      size(es) == SectorUnits * Cardinality(UNION {Span(e.vcn, e.len) : e \in es})
      prefix(es) == SubSeq(base.list, 1, Least(size(es), Size))
      grow[n \in 0..Cardinality(base.extents)] ==
        IF n = 0 THEN first
        ELSE grow[n - 1] \cup {e \in base.extents :
               \E u \in ToSet(prefix(grow[n - 1])) :
                 u.type = "list" /\ u.ref = <<e.rec, 1>> /\ u.id = e.id /\ u.vcn = e.vcn}
  IN  grow[Cardinality(base.extents)]

\* When NTFS leaves the file alone and nothing is interrupted, the answer is
\* exactly the file's links if the whole list can be reached from its base
\* extent, and a failure, never part of them, if it cannot.
StillFileExact ==
  pc = "done" /\ changes = 0 /\ disk.live =>
    LET whole == disk.kind = "stream" => Reachable = disk.extents /\ Room(Reachable) >= Size
        all == SearchLinks(disk.names)
    IN  answer = IF whole /\ all # {} THEN [kind |-> "present", links |-> all]
                 ELSE [kind |-> "failed", links |-> {}]

\* Whatever moved while the read was under way, every link in the answer was
\* one of this file's at some moment of it: not of the file that took over an
\* extension record, and not of bytes that are no list.
NothingInvented == answer.links \subseteq held

\* A read ends: the closure cannot go round for ever, however the descriptors
\* point at each other.  And it ends right: a file left alone gets the answer
\* that its whole list gives.
ReadEnds == <>(pc = "done" /\ StillFileExact)

\* What a lookup may answer, whatever happened during it.
AnswerIsFaithful == TypeOK /\ AnswerOfOneMoment /\ NothingInvented
================================================================================
