------------------------------- MODULE MftLayout -------------------------------
(***************************************************************************)
(* Where the records of the $MFT are on the volume: the bootstrap of every *)
(* scan.  The boot sector and the geometry the system reports must agree;  *)
(* record zero describes the data extents it has room for, and a file with *)
(* more is asked for its retrieval pointers, page by page; the map is then *)
(* cut into the chunks the scan reads.  NTFS may extend the $MFT meanwhile *)
(* and writes record zero, one sector after another, some time later.      *)
(*                                                                         *)
(* The unit is a sector.  Clusters, records and chunks are multiples of it *)
(* in any proportion, so that a record may lie across clusters and runs.   *)
(***************************************************************************)
EXTENDS Integers, Sequences, FiniteSets, SequencesExt

CONSTANTS
  Volumes,      \* what the volume may hold: [boot, geometry, extents, size, attrs]
  ROOT_RECORD,
  SCAN_CHUNK,   \* sectors read at a time
  PageExtents,  \* extents one retrieval page has room for
  MaxRecord,    \* MAX_FILE_RECORD_BYTES
  FreeLcns,     \* clusters the $MFT may grow into
  MaxGrowths    \* bound on the growths during the bootstrap

ASSUME LayoutAssumption ==
  /\ {SCAN_CHUNK, PageExtents, MaxRecord} \subseteq Nat \ {0}
  /\ {ROOT_RECORD, MaxGrowths} \subseteq Nat /\ FreeLcns \subseteq Nat \ {0}

VARIABLES
  boot,     \* the boot sector: [perCluster, code, sectors, at]
  geometry, \* the system's: [cluster, record, volume, at]
  mft,      \* every version of the $MFT: [extents, size, attrs]
  zero,     \* the version each sector of record zero on the disk is of
  pc,
  valid,    \* the valid data length the system reported
  size,     \* the size record zero states
  zmap,     \* the runs record zero describes: <<logical, physical, length>>
  runs,     \* the run map
  vcn,      \* the next cluster to ask for
  chunks    \* the chunks to read: [logical, want, reads]

fsVars == <<boot, geometry, mft, zero>>
vars == <<fsVars, pc, valid, size, zmap, runs, vcn, chunks>>

Now == mft[Len(mft)]
Span(from, len) == from..from + len - 1
Least(a, b) == IF a < b THEN a ELSE b
Sum(f, n) == FoldLeft(LAMBDA x, y : x + y, 0, SubSeq(f, 1, n))   \* of the first n
PowersOfTwo == {2 ^ k : k \in 0..6}

--------------------------------------------------------------------------------
(* The volume. *)

\* First cluster of the i-th extent, and the sector a sector of the $MFT is at.
VcnOf(extents, i) == Sum([k \in DOMAIN extents |-> extents[k].len], i - 1)
Allocated(extents) == VcnOf(extents, Len(extents) + 1)
Truth(v, at) ==
  LET cluster == geometry.cluster
      i == CHOOSE k \in DOMAIN v.extents :
             at \div cluster \in Span(VcnOf(v.extents, k), v.extents[k].len)
  IN  v.extents[i].lcn * cluster + at - VcnOf(v.extents, i) * cluster

Init ==
  /\ \E v \in Volumes :
       /\ boot = v.boot /\ geometry = v.geometry
       /\ mft = <<[extents |-> v.extents, size |-> v.size, attrs |-> v.attrs]>>
  /\ zero = <<1, 1>>
  /\ pc = "geometry" /\ valid = 0 /\ size = 0 /\ vcn = 0
  /\ zmap = <<>> /\ runs = <<>> /\ chunks = <<>>

\* NTFS extends the $MFT by a cluster or more.  The new extent is described in
\* record zero if it fits there, in an extension record otherwise.
Grow == \E lcn \in FreeLcns, room \in BOOLEAN :
  /\ Len(mft) <= MaxGrowths /\ pc \notin {"open", "failed"}
  /\ \A i \in DOMAIN Now.extents :
       lcn \notin Span(Now.extents[i].lcn, Now.extents[i].len)
  /\ LET len == IF geometry.record > geometry.cluster
                THEN geometry.record \div geometry.cluster ELSE 1
         at == Allocated(Now.extents)
     IN  /\ lcn + len <= geometry.volume \div geometry.cluster
         /\ \A i \in DOMAIN Now.extents :
              Span(lcn, len) \cap Span(Now.extents[i].lcn, Now.extents[i].len) = {}
         /\ mft' = Append(mft,
              [extents |-> Append(Now.extents, [lcn |-> lcn, len |-> len]),
               size |-> Now.size + geometry.record,
               attrs |-> IF room THEN Append(Now.attrs, [low |-> at, high |-> at + len - 1,
                                                         pairs |-> <<<<len, lcn>>>>])
                         ELSE Now.attrs])
  /\ UNCHANGED <<boot, geometry, zero, pc, valid, size, zmap, runs, vcn, chunks>>

WriteZero == \E s \in DOMAIN zero :
  /\ zero[s] < Len(mft) /\ pc \notin {"open", "failed"}
  /\ \A t \in 1..s - 1 : zero[t] = Len(mft)
  /\ zero' = [zero EXCEPT ![s] = Len(mft)]
  /\ UNCHANGED <<boot, geometry, mft, pc, valid, size, zmap, runs, vcn, chunks>>

--------------------------------------------------------------------------------
(* The geometry. *)

Fail == pc' = "failed" /\ UNCHANGED <<valid, size, zmap, runs, vcn, chunks>>

RecordSize(b) == IF b.code > 0 THEN b.code * b.perCluster ELSE 2 ^ (-b.code)
BootIsValid(b) ==
  LET record == RecordSize(b)
  IN  /\ b.perCluster \in PowersOfTwo /\ b.sectors > 0
      /\ record \in PowersOfTwo /\ record <= MaxRecord
      /\ b.at * b.perCluster + record <= b.sectors
GeometryAgrees(b, g) ==
  /\ g.cluster = b.perCluster /\ g.record = RecordSize(b)
  /\ g.volume = b.sectors /\ g.at = b.at
  /\ Now.size >= g.record /\ Now.size <= g.volume /\ Now.size % g.record = 0

ReadGeometry ==
  /\ pc = "geometry"
  /\ IF BootIsValid(boot) /\ GeometryAgrees(boot, geometry)
     THEN /\ pc' = "zero" /\ valid' = Now.size
          /\ UNCHANGED <<size, zmap, runs, vcn, chunks>>
     ELSE Fail
  /\ UNCHANGED fsVars

--------------------------------------------------------------------------------
(* Runs are <<logical, physical, length>>, in sectors. *)

Overlap(f, n, g, m) == Span(f, n) \cap Span(g, m) # {}
Disjoint(rs) == \A i, j \in DOMAIN rs : i # j => ~Overlap(rs[i][2], rs[i][3], rs[j][2], rs[j][3])
Covered(rs) == Sum([i \in DOMAIN rs |-> rs[i][3]], Len(rs))
Sorted(rs) == SortSeq(rs, LAMBDA r, s : r[1] < s[1])

ValidPartial(rs) ==
  /\ rs # <<>> /\ rs[1][1] = 0
  /\ \A i \in DOMAIN rs : rs[i][3] > 0 /\ rs[i][2] + rs[i][3] <= geometry.volume
  /\ \A i \in 2..Len(rs) : rs[i][1] >= rs[i - 1][1] + rs[i - 1][3]
  /\ Disjoint(rs)
CompleteMap(rs, len) ==
  /\ len > 0 /\ ValidPartial(rs)
  /\ \A i \in 2..Len(rs) : rs[i][1] = rs[i - 1][1] + rs[i - 1][3]
  /\ Covered(rs) >= len

\* The physical sector a map gives for a logical one: none in a gap.
At(rs, at) == {rs[i][2] + at - rs[i][1] : i \in {k \in DOMAIN rs : at \in Span(rs[k][1], rs[k][3])}}
MappingMatches(rs, run) == \A k \in 0..run[3] - 1 : At(rs, run[1] + k) = {run[2] + k}
ContainsMappings(rs, other) == \A i \in DOMAIN other : MappingMatches(rs, other[i])

\* decode_extent_runs: one extent's mapping pairs <<count, change of lcn>>.
DecodeExtent(attr) ==
  LET counts == [i \in DOMAIN attr.pairs |-> attr.pairs[i][1]]
      deltas == [i \in DOMAIN attr.pairs |-> attr.pairs[i][2]]
      rs == [i \in DOMAIN attr.pairs |-> <<(attr.low + Sum(counts, i - 1)) * geometry.cluster,
                                           Sum(deltas, i) * geometry.cluster,
                                           counts[i] * geometry.cluster>>]
  IN  [runs |-> rs,
       ok |-> /\ \A i \in DOMAIN rs : rs[i][3] > 0 /\ rs[i][2] > 0
                                      /\ rs[i][2] + rs[i][3] <= geometry.volume
              /\ attr.low + Sum(counts, Len(counts)) = attr.high + 1
              /\ (attr.high + 1) * geometry.cluster <= geometry.volume
              /\ Disjoint(rs)]

\* apply_fixup: a record whose sectors are of two writes is refused.
Untorn(z) == \A s \in DOMAIN z : z[s] = z[1]

ValidSize(n) == n >= geometry.record /\ n <= geometry.volume /\ n % geometry.record = 0

ReadZero ==
  /\ pc = "zero"
  /\ LET stated == mft[zero[1]].size
         attrs == mft[zero[2]].attrs
         first == {i \in DOMAIN attrs : attrs[i].low = 0}
         all == Sorted(FlattenSeq([i \in DOMAIN attrs |-> DecodeExtent(attrs[i]).runs]))
     IN  IF /\ Untorn(zero)
            /\ \A i \in DOMAIN attrs : DecodeExtent(attrs[i]).ok
            /\ Cardinality(first) = 1 /\ ValidPartial(all)
            /\ stated = valid /\ ValidSize(stated)
         THEN /\ size' = stated /\ zmap' = all
              /\ IF CompleteMap(all, stated)
                 THEN pc' = "root" /\ runs' = all
                 ELSE pc' = "handle" /\ UNCHANGED runs
              /\ UNCHANGED <<valid, vcn, chunks>>
         ELSE Fail
  /\ UNCHANGED fsVars

--------------------------------------------------------------------------------
(* The retrieval pointers. *)

OpenMft ==
  /\ pc = "handle"
  /\ IF Now.size # size THEN Fail
     ELSE pc' = "pages" /\ UNCHANGED <<valid, size, zmap, runs, vcn, chunks>>
  /\ UNCHANGED fsVars

\* The answer to a request for the extents from cluster `from`: it begins at
\* the extent that holds it or, rounded down, before it, and may say that there
\* is more.
Page(from, back) ==
  LET es == Now.extents
      holds == CHOOSE k \in DOMAIN es : from \in Span(VcnOf(es, k), es[k].len)
      i == IF back < holds THEN holds - back ELSE 1
      last == Least(i + PageExtents - 1, Len(es))
  IN  [start |-> VcnOf(es, i), extents |-> SubSeq(es, i, last), more |-> last < Len(es)]

\* append_retrieval_page: what is known already must match, what is new is
\* appended from where the known runs end.
PageRuns(page) ==
  [i \in DOMAIN page.extents |-> <<(page.start + VcnOf(page.extents, i)) * geometry.cluster,
                                   page.extents[i].lcn * geometry.cluster,
                                   page.extents[i].len * geometry.cluster>>]
Before(run, end) == <<run[1], run[2], Least(run[1] + run[3], end) - run[1]>>
From(run, at) == LET cut == IF run[1] < at THEN at - run[1] ELSE 0
                 IN  <<run[1] + cut, run[2] + cut, run[3] - cut>>
PageMatches(page, rs) ==
  \A i \in DOMAIN PageRuns(page) :
    LET run == PageRuns(page)[i]
    IN  /\ run[2] + run[3] <= geometry.volume
        /\ run[1] < Covered(rs) => MappingMatches(rs, Before(run, Covered(rs)))
AppendAll(page, rs) == rs \o PageRuns(page)   \* what is known is appended again
AppendPage(page, rs) ==
  LET new(run) == run[1] + run[3] > Covered(rs)
      fresh == SelectSeq(PageRuns(page), new)
  IN  rs \o [i \in DOMAIN fresh |-> From(fresh[i], Covered(rs))]

ReadPageRetry ==   \* begins anew when the pages and record zero disagree
  /\ pc = "pages"
  /\ LET page == Page(vcn, 0)
         merged == AppendPage(page, runs)
         agree == PageMatches(page, runs) /\ ContainsMappings(merged, zmap)
     IN  IF Covered(merged) >= size
         THEN IF agree THEN runs' = merged /\ pc' = "root" /\ UNCHANGED <<valid, size, zmap, vcn, chunks>>
              ELSE runs' = <<>> /\ vcn' = 0 /\ UNCHANGED <<pc, valid, size, zmap, chunks>>
         ELSE /\ runs' = merged /\ vcn' = page.start + Allocated(page.extents)
              /\ UNCHANGED <<pc, valid, size, zmap, chunks>>
  /\ UNCHANGED fsVars
ReadPage == \E back \in {0, 1} :
  /\ pc = "pages"
  /\ LET page == Page(vcn, back)
         merged == AppendPage(page, runs)
         end == page.start + Allocated(page.extents)
     IN  IF /\ page.start <= vcn /\ end > vcn
            /\ Covered(runs) = vcn * geometry.cluster /\ PageMatches(page, runs)
            /\ Covered(merged) = end * geometry.cluster
         THEN IF Covered(merged) >= size
              THEN IF CompleteMap(merged, size) /\ ContainsMappings(merged, zmap)
                   THEN /\ runs' = merged /\ pc' = "root"
                        /\ UNCHANGED <<valid, size, zmap, vcn, chunks>>
                   ELSE Fail
              ELSE IF page.more
              THEN /\ runs' = merged /\ vcn' = end
                   /\ UNCHANGED <<pc, valid, size, zmap, chunks>>
              ELSE Fail
         ELSE Fail
  /\ UNCHANGED fsVars

--------------------------------------------------------------------------------
(* The reads. *)

\* RunMap::data_spans: [offset, physical, len] for each piece of a request.
DataSpans(rs, logical, len) ==
  LET end == logical + len
      from(r) == IF r[1] > logical THEN r[1] ELSE logical
      to(r) == Least(r[1] + r[3], end)
      spans == [i \in DOMAIN rs |-> [offset |-> from(rs[i]) - logical,
                                     physical |-> rs[i][2] + from(rs[i]) - rs[i][1],
                                     len |-> to(rs[i]) - from(rs[i])]]
  IN  SelectSeq(spans, LAMBDA s : s.len > 0)

\* read_exact_logical: the sectors that arrive in the buffer, 0 where none does.
Bytes(spans, len) ==
  [k \in 1..len |->
     LET here == {i \in DOMAIN spans : k - 1 \in Span(spans[i].offset, spans[i].len)}
     IN  IF here = {} THEN 0
         ELSE LET s == spans[CHOOSE i \in here : TRUE] IN s.physical + k - 1 - s.offset]
RecordAt(v, n) == [k \in 1..geometry.record |-> Truth(v, n * geometry.record + k - 1)]

ReadRoot ==
  /\ pc = "root"
  /\ IF Bytes(DataSpans(runs, ROOT_RECORD * geometry.record, geometry.record), geometry.record)
        = RecordAt(Now, ROOT_RECORD)
     THEN pc' = "plan" /\ UNCHANGED <<valid, size, zmap, runs, vcn, chunks>>
     ELSE Fail
  /\ UNCHANGED fsVars

PlanTail ==   \* the last chunk as long as the others
  /\ pc = "plan"
  /\ LET left == size - Sum([i \in DOMAIN chunks |-> chunks[i].want], Len(chunks))
         want == (SCAN_CHUNK \div geometry.record) * geometry.record
     IN  IF left <= 0 THEN pc' = "open" /\ UNCHANGED <<valid, size, zmap, runs, vcn, chunks>>
         ELSE /\ chunks' = Append(chunks, [logical |-> size - left, want |-> want,
                                           reads |-> DataSpans(runs, size - left, want)])
              /\ UNCHANGED <<pc, valid, size, zmap, runs, vcn>>
  /\ UNCHANGED fsVars
PlanUnaligned ==   \* a chunk may end inside a record
  /\ pc = "plan"
  /\ LET left == size - Sum([i \in DOMAIN chunks |-> chunks[i].want], Len(chunks))
         want == Least(SCAN_CHUNK, left)
     IN  IF left = 0 THEN pc' = "open" /\ UNCHANGED <<valid, size, zmap, runs, vcn, chunks>>
         ELSE /\ chunks' = Append(chunks, [logical |-> size - left, want |-> want,
                                           reads |-> DataSpans(runs, size - left, want)])
              /\ UNCHANGED <<pc, valid, size, zmap, runs, vcn>>
  /\ UNCHANGED fsVars
PlanChunks ==
  /\ pc = "plan"
  /\ LET left == size - Sum([i \in DOMAIN chunks |-> chunks[i].want], Len(chunks))
         want == (Least(SCAN_CHUNK, left) \div geometry.record) * geometry.record
     IN  IF left = 0 THEN pc' = "open" /\ UNCHANGED <<valid, size, zmap, runs, vcn, chunks>>
         ELSE IF want = 0 THEN Fail
         ELSE /\ chunks' = Append(chunks, [logical |-> size - left, want |-> want,
                                           reads |-> DataSpans(runs, size - left, want)])
              /\ UNCHANGED <<pc, valid, size, zmap, runs, vcn>>
  /\ UNCHANGED fsVars

Bootstrap == ReadGeometry \/ ReadZero \/ OpenMft \/ ReadPage \/ ReadRoot \/ PlanChunks
Done == pc \in {"open", "failed"} /\ UNCHANGED vars
Next == Bootstrap \/ Grow \/ WriteZero \/ Done

\* Weak fairness of Bootstrap, and nothing of NTFS: a step of it is possible
\* until it ends (nothing deadlocks when the $MFT no longer grows), and only its
\* steps change these variables.
GoesOn == []<>(pc \in {"open", "failed"}) \/ []<><<TRUE>>_<<pc, vcn, runs, chunks>>
Spec == Init /\ [][Next]_vars /\ GoesOn

--------------------------------------------------------------------------------
(* Properties *)

\* The state stays in its types; chunks are whole records.
TypeOK ==
  /\ pc \in {"geometry", "zero", "handle", "pages", "root", "plan", "open", "failed"}
  /\ {valid, size, vcn} \subseteq Nat /\ size <= geometry.volume
  /\ \A i \in DOMAIN runs : runs[i] \in Nat \X Nat \X (Nat \ {0})
  /\ \A i \in DOMAIN chunks : chunks[i].want % geometry.record = 0 /\ chunks[i].want <= SCAN_CHUNK
  /\ \A s \in DOMAIN zero : zero[s] \in DOMAIN mft

\* Each sector the scan reads into a chunk is the sector of the $MFT the chunk
\* stands for, and the chunks are the whole $MFT of the stated size, once and in
\* order: across runs, pages that begin before what was asked for, records
\* larger than a cluster, and growth while the map was put together.
ReadsTheMft ==
  pc = "open" =>
    FlattenSeq([i \in DOMAIN chunks |-> Bytes(chunks[i].reads, chunks[i].want)])
      = [k \in 1..size |-> Truth(Now, k - 1)]

\* A volume NTFS leaves alone is opened exactly when its boot sector agrees with
\* the system and record zero describes part of the real map: the fragments that
\* have no room in record zero do not keep the volume from being indexed.
SoundVolumeOpens ==
  LET first == mft[1]
      described(a) == \A k \in 0..a.high - a.low :
        LET d == DecodeExtent(a)
        IN  d.ok /\ At(d.runs, (a.low + k) * geometry.cluster)
                    = {Truth(first, (a.low + k) * geometry.cluster)}
      sound == /\ BootIsValid(boot) /\ GeometryAgrees(boot, geometry)
               /\ \A i, j \in DOMAIN first.attrs : i # j => first.attrs[i].low # first.attrs[j].low
               /\ \E i \in DOMAIN first.attrs : first.attrs[i].low = 0
               /\ \A i \in DOMAIN first.attrs : described(first.attrs[i])
  IN  pc \in {"open", "failed"} /\ Len(mft) = 1 => (pc = "open" <=> sound)

\* The bootstrap ends, however the $MFT grows under the pages it asks for.
BootstrapEnds == <>(pc \in {"open", "failed"})

\* The bootstrap opens the volumes it should and reads the $MFT where it is.
MapIsFaithful == TypeOK /\ ReadsTheMft /\ SoundVolumeOpens
================================================================================
