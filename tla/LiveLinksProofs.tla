--------------------------- MODULE LiveLinksProofs ---------------------------
(***************************************************************************)
(* Proofs about LiveLinks for any file, any number of records and links,   *)
(* any sectors and any number of changes made while it is read.            *)
(*                                                                         *)
(* Two things hold the answer together.  An attribute keeps what it says,  *)
(* and neither its record nor its id goes to another: a name found later   *)
(* under the reference and id of a name of the base record's moment is     *)
(* that name (NamesInv, CacheInv).  And every name of that moment is       *)
(* collected or still to be followed (FollowInv), so that a list that was  *)
(* whole is answered whole or not at all.                                  *)
(***************************************************************************)
EXTENDS LiveLinks, FiniteSetTheorems, TLAPS

Name == [rec : Records, id : Nat, link : Links, dos : BOOLEAN]
Extent == [rec : Records, id : Nat, vcn : Nat, lcn : Nat, len : Nat]
ListEntry == [type : {"list", "name", "data", "junk"}, ref : Nat \X Nat, id : Nat, vcn : Nat]
StreamRun == [logical : Nat, physical : Nat, len : Nat]

\* The attribute is still the one the file had when its base record was read,
\* or a later one.
Same(n) == \A m \in base.names : n.rec = m.rec /\ n.id = m.id => n = m
Lists(e, n) == e.type = "name" /\ e.ref = <<n.rec, 1>> /\ e.id = n.id

NamesInv ==
  /\ disk = [live |-> disk.live, kind |-> disk.kind, names |-> disk.names,
             list |-> disk.list, extents |-> disk.extents]
  /\ base \in Layouts /\ (pc = "start" => disk = base)
  /\ disk.extents = base.extents
  /\ disk.names \subseteq Name /\ ids \in Nat /\ ids >= 9
  /\ \A n \in disk.names : Same(n)
  /\ pc # "start" => SearchLinks(disk.names) \cup SearchLinks(base.names) \subseteq held

CacheInv == \A c \in cache :
  /\ c.of = "file" /\ c.ref[1] \in Exts
  /\ c.names \subseteq Name /\ c.extents \subseteq base.extents
  /\ \A n \in c.names : n.rec = c.ref[1] /\ Same(n)
  /\ SearchLinks(c.names) \subseteq held

ReadInv ==
  /\ pc \in {"start", "close", "discover", "extend", "stream", "names", "resolve", "done"}
  /\ runs \in Seq(StreamRun) /\ passes \in 0..MaxPasses
  /\ target \in 0..Size /\ buf \in Seq(ToSet(buf)) /\ Len(buf) <= target
  /\ links \subseteq Links /\ (pc = "start" => cache = {} /\ links = {}) /\ links \subseteq held

FollowInv ==
  /\ pc \in {"close", "discover", "extend", "stream"} => base.kind = "stream"
  /\ pc = "names" /\ base.kind # "stream" =>
       pending = base.list /\ links = SearchLinks({n \in base.names : n.rec = 0})
  /\ pc = "resolve" /\ base.kind # "stream" =>
       /\ pending \in Seq(ListEntry) /\ links \subseteq SearchLinks(base.names)
       /\ \A i \in DOMAIN pending :
            pending[i].type = "name" => \E n \in base.names : Lists(pending[i], n)
       /\ \A n \in base.names : n.dos \/ n.link \in links \/ \E i \in DOMAIN pending : Lists(pending[i], n)

AnswerInv ==
  /\ answer.kind \in {"none", "present", "gone", "failed"}
  /\ (pc = "done") <=> (answer.kind # "none")
  /\ (pc # "done" => answer.links = {})
  /\ answer.links \subseteq Links /\ AnswerOfOneMoment /\ NothingInvented

LinksInv == NamesInv /\ CacheInv /\ ReadInv /\ FollowInv /\ AnswerInv

--------------------------------------------------------------------------------
(* What the operators of the model return. *)

\* A sequence is one of its own elements.
LEMMA OwnElements ==
  ASSUME NEW S, NEW s \in Seq(S)
  PROVE  s \in Seq(ToSet(s))
  <1>1. \A i \in 1..Len(s) : s[i] \in ToSet(s)
    BY DEF ToSet
  <1>. QED BY <1>1

LEMMA PrefixIs ==
  ASSUME NEW S, NEW s \in Seq(S), NEW m \in 1..Len(s)
  PROVE  SubSeq(s, 1, m) \in Seq(S) /\ Len(SubSeq(s, 1, m)) = m
  OBVIOUS

\* A sector has its units.
LEMMA SectorIs ==
  ASSUME NEW lcn
  PROVE  Sector(lcn) = [k \in 1..SectorUnits |-> Sector(lcn)[k]]
  BY DEF Sector

\* The prefix that known extents cover has a length.
LEMMA CoveredIsNat ==
  ASSUME NEW rs \in Seq(StreamRun)
  PROVE  Covered(rs) \in Nat
  <1>. DEFINE f == [i \in 1..Len(rs) |-> Span(rs[i].logical, rs[i].len)]
              all == {f[i] : i \in 1..Len(rs)}
              logical == UNION {Span(rs[i].logical, rs[i].len) : i \in DOMAIN rs}
              first == {n \in logical : 0..n \subseteq logical}
  <1>1. IsFiniteSet(1..Len(rs))
    BY FS_Interval
  <1>2. f \in Surjection(1..Len(rs), all)
    BY DEF Surjection
  <1>3. IsFiniteSet(all)
    BY <1>1, <1>2, FS_Surjection DEF ExistsSurjection
  <1>4. \A i \in 1..Len(rs) : IsFiniteSet(f[i])
    <2>. SUFFICES ASSUME NEW i \in 1..Len(rs) PROVE IsFiniteSet(f[i])
      OBVIOUS
    <2>1. rs[i] \in StreamRun
      OBVIOUS
    <2>2. rs[i].logical \in Int /\ rs[i].logical + rs[i].len - 1 \in Int
      BY <2>1 DEF StreamRun
    <2>. QED BY <2>2, FS_Interval DEF Span
  <1>5. IsFiniteSet(UNION all)
    BY <1>3, <1>4, FS_UNION
  <1>6. logical = UNION all
    OBVIOUS
  <1>7. IsFiniteSet(first)
    BY <1>5, <1>6, FS_Subset
  <1>8. Covered(rs) = Cardinality(first)
    BY DEF Covered
  <1>. QED BY <1>7, <1>8, FS_CardinalityType

\* The runs of one extent.
LEMMA RunIs ==
  ASSUME NEW parts, parts \subseteq Extent
  PROVE  Run(parts) \in Seq(StreamRun)
  <1>1. CASE parts = {}
    BY <1>1 DEF Run
  <1>2. CASE parts # {}
    <2>. DEFINE part == CHOOSE e \in parts : TRUE
    <2>1. part \in Extent
      BY <1>2
    <2>2. [logical |-> part.vcn, physical |-> part.lcn, len |-> part.len] \in StreamRun
      BY <2>1 DEF Extent, StreamRun
    <2>. QED BY <1>2, <2>2 DEF Run
  <1>. QED BY <1>1, <1>2

\* What is assumed of a layout, part by part.
LEMMA LayoutIs ==
  ASSUME NEW f \in Layouts
  PROVE  /\ f = [live |-> f.live, kind |-> f.kind, names |-> f.names,
                 list |-> f.list, extents |-> f.extents]
         /\ f.live /\ f.kind \in {"missing", "resident", "stream"}
         /\ f.names \subseteq Name /\ \A n \in f.names : n.id <= 9
         /\ f.list \in Seq(ListEntry) /\ f.extents \subseteq Extent
         /\ \A n, m \in f.names : n.rec = m.rec /\ n.id = m.id => n = m
         /\ f.kind = "missing" => f.list = <<>> /\ \A n \in f.names : n.rec = 0
         /\ f.kind = "resident" =>
              /\ \A i \in DOMAIN f.list :
                   f.list[i].type = "name" => \E n \in f.names : Lists(f.list[i], n)
              /\ \A n \in f.names : \E i \in DOMAIN f.list : Lists(f.list[i], n)
  <1>1. f \in [live : {TRUE}, kind : {"missing", "resident", "stream"},
               names : SUBSET [rec : Records, id : 0..9, link : Links, dos : BOOLEAN],
               list : Seq(ListEntry), extents : SUBSET Extent]
    BY LayoutsAssumption DEF Records, ListEntry, Extent
  <1>2. \A n \in [rec : Records, id : 0..9, link : Links, dos : BOOLEAN] : n \in Name /\ n.id <= 9
    BY DEF Name
  <1>3. /\ f.live /\ f.kind \in {"missing", "resident", "stream"}
        /\ f.names \in SUBSET [rec : Records, id : 0..9, link : Links, dos : BOOLEAN]
        /\ f.list \in Seq(ListEntry) /\ f.extents \in SUBSET Extent
    BY <1>1
  <1>4. f = [live |-> f.live, kind |-> f.kind, names |-> f.names,
             list |-> f.list, extents |-> f.extents]
    BY <1>1
  <1>5. \A n, m \in f.names : n.rec = m.rec /\ n.id = m.id => n = m
    BY LayoutsAssumption
  <1>6. f.kind = "missing" => f.list = <<>> /\ \A n \in f.names : n.rec = 0
    BY LayoutsAssumption
  <1>7. f.kind = "resident" =>
          /\ \A i \in DOMAIN f.list :
               f.list[i].type = "name" => \E n \in f.names : Lists(f.list[i], n)
          /\ \A n \in f.names : \E i \in DOMAIN f.list : Lists(f.list[i], n)
    <2>1. f.kind = "resident" =>
            /\ \A i \in {i \in DOMAIN f.list : f.list[i].type = "name"} : \E n \in f.names :
                 f.list[i].ref = <<n.rec, 1>> /\ f.list[i].id = n.id
            /\ \A n \in f.names : \E i \in {i \in DOMAIN f.list : f.list[i].type = "name"} :
                 f.list[i].ref = <<n.rec, 1>> /\ f.list[i].id = n.id
      BY LayoutsAssumption
    <2>. QED BY <2>1, Zenon DEF Lists
  <1>. QED BY <1>2, <1>3, <1>4, <1>5, <1>6, <1>7

\* Fewer names have fewer links.
LEMMA FewerLinks ==
  ASSUME NEW S, NEW T, S \subseteq T
  PROVE  SearchLinks(S) \subseteq SearchLinks(T)
  BY DEF SearchLinks

LEMMA LinksOfNames ==
  ASSUME NEW S, S \subseteq Name
  PROVE  SearchLinks(S) \subseteq Links
  BY DEF SearchLinks, Name

\* A record that is the one its entry names, and this file's: what it says is
\* of the base record's moment or later, was the file's meanwhile, and lies in
\* that record.
LEMMA TargetIs ==
  ASSUME NamesInv, CacheInv, pc # "start", NEW e, Belongs(Target(e), e)
  PROVE  LET t == Target(e) IN
         /\ t.of = "file" /\ t.ref = e.ref /\ t.names \subseteq Name
         /\ t.extents \subseteq base.extents
         /\ \A n \in t.names : n.rec = e.ref[1] /\ Same(n)
         /\ SearchLinks(t.names) \subseteq held
         /\ e.ref[1] # 0 /\ t.names \cup t.extents # {} => e.ref[1] \in Exts
  <1>. DEFINE t == Target(e)
              r == e.ref[1]
  <1>1. t.of = "file" /\ t.ref = e.ref
    BY DEF Belongs
  <1>b. base.names \subseteq Name /\ base.extents \subseteq Extent /\ \A n \in base.names : Same(n)
    BY LayoutIs DEF NamesInv, Same
  <1>2. CASE r = 0
    <2>1. t = BaseRecord
      BY <1>2 DEF Target
    <2>2. /\ t.names = {n \in base.names : n.rec = 0} /\ t.extents = {x \in base.extents : x.rec = 0}
      BY <2>1 DEF BaseRecord
    <2>3. SearchLinks(t.names) \subseteq held
      BY <2>2, FewerLinks DEF NamesInv
    <2>. QED BY <1>1, <1>2, <1>b, <2>2, <2>3
  <1>3. CASE r # 0 /\ Cached(r) # {}
    <2>1. t \in Cached(r)
      BY <1>3 DEF Target
    <2>2. t \in cache /\ t.ref[1] = r
      BY <2>1 DEF Cached
    <2>. QED BY <1>1, <2>2 DEF CacheInv
  <1>4. CASE r # 0 /\ Cached(r) = {}
    <2>1. t = Record(r)
      BY <1>4 DEF Target
    <2>2. seqs[r] = 1
      BY <1>1, <2>1 DEF Record
    <2>3. t.names = {n \in disk.names : n.rec = r} /\ t.extents = {x \in disk.extents : x.rec = r}
      BY <2>1, <2>2 DEF Record
    <2>4. SearchLinks(t.names) \subseteq held
      BY <2>3, FewerLinks DEF NamesInv
    <2>5. t.names \cup t.extents # {} => r \in Exts
      <3>1. \A n \in t.names : n.rec = r /\ r \in Records
        BY <2>3 DEF NamesInv, Name
      <3>2. \A x \in t.extents : x.rec = r /\ r \in Records
        BY <2>3, <1>b DEF NamesInv, Extent
      <3>. QED BY <3>1, <3>2, <1>4 DEF Records
    <2>. QED BY <1>1, <1>4, <2>3, <2>4, <2>5 DEF NamesInv
  <1>. QED BY <1>2, <1>3, <1>4

\* Such a record may be kept.
LEMMA KeepInv ==
  ASSUME NamesInv, CacheInv, pc # "start", NEW e, Belongs(Target(e), e),
         Target(e).names \cup Target(e).extents # {}, Keep(e),
         base' = base, held' = held
  PROVE  CacheInv'
  <1>1. CASE e.ref[1] = 0
    BY <1>1 DEF Keep, CacheInv, Same
  <1>2. CASE e.ref[1] # 0
    <2>1. cache' = cache \cup {Target(e)}
      BY <1>2 DEF Keep
    <2>2. LET t == Target(e) IN
          /\ t.of = "file" /\ t.ref[1] \in Exts
          /\ t.names \subseteq Name /\ t.extents \subseteq base.extents
          /\ \A n \in t.names : n.rec = t.ref[1] /\ Same(n)
          /\ SearchLinks(t.names) \subseteq held
      BY <1>2, TargetIs
    <2>. QED BY <2>1, <2>2 DEF CacheInv, Same
  <1>. QED BY <1>1, <1>2

--------------------------------------------------------------------------------
(* The parts a step leaves alone. *)

LEMMA NamesStay ==
  ASSUME NamesInv, pc # "start", pc' # "start", UNCHANGED <<disk, ids, base, held>>
  PROVE  NamesInv'
  BY DEF NamesInv, Same, SearchLinks

LEMMA CacheStays ==
  ASSUME CacheInv, UNCHANGED <<cache, base, held>>
  PROVE  CacheInv'
  BY DEF CacheInv, Same, SearchLinks

LEMMA AnswerStays ==
  ASSUME AnswerInv, pc # "done", pc' # "done", UNCHANGED <<answer, base, held>>
  PROVE  AnswerInv'
  BY DEF AnswerInv, AnswerOfOneMoment, NothingInvented, SearchLinks

LEMMA ReadStays ==
  ASSUME ReadInv, pc # "start",
         pc' \in {"close", "discover", "extend", "stream", "names", "resolve", "done"},
         UNCHANGED <<runs, passes, target, buf, links, base, held>>
  PROVE  ReadInv'
  BY DEF ReadInv, Size

--------------------------------------------------------------------------------
(* The steps of the reader. *)

LEMMA FailStep ==
  ASSUME LinksInv, pc \notin {"start", "done"}, Fail, UNCHANGED <<disk, ids, held>>
  PROVE  LinksInv'
  <1>1. /\ pc' = "done" /\ answer' = [kind |-> "failed", links |-> {}]
        /\ UNCHANGED <<base, runs, passes, target, buf, pending, cache, links>>
    BY DEF Fail, Answer, closeVars, streamVars
  <1>2. NamesInv' /\ CacheInv' /\ ReadInv'
    BY <1>1, NamesStay, CacheStays, ReadStays DEF LinksInv
  <1>3. FollowInv'
    BY <1>1 DEF FollowInv
  <1>4. AnswerInv'
    BY <1>1 DEF AnswerInv, AnswerOfOneMoment, NothingInvented
  <1>. QED BY <1>2, <1>3, <1>4 DEF LinksInv

LEMMA ReadBaseStep ==
  ASSUME LinksInv, ReadBase
  PROVE  LinksInv'
  <1>. DEFINE first == {e \in disk.extents : e.rec = 0 /\ e.vcn = 0}
              mine == {n \in disk.names : n.rec = 0}
  <1>1. pc = "start" /\ disk = base /\ base \in Layouts /\ disk.live
    BY LayoutIs DEF ReadBase, LinksInv, NamesInv
  <1>2. /\ base' = disk /\ links' = SearchLinks(mine) /\ held' = SearchLinks(disk.names)
        /\ UNCHANGED <<disk, ids, passes, target, buf, cache, answer>>
        /\ IF disk.kind = "stream" THEN pc' = "close" /\ runs' = Run(first)
           ELSE pc' = "names" /\ pending' = disk.list /\ runs' = runs
    BY <1>1 DEF ReadBase, streamVars
  <1>3. NamesInv'
    BY <1>1, <1>2 DEF LinksInv, NamesInv, Same, SearchLinks
  <1>4. CacheInv'
    BY <1>1, <1>2 DEF LinksInv, ReadInv, CacheInv
  <1>5. ReadInv'
    <2>1. links' \subseteq Links /\ links' \subseteq held'
      <3>1. links' \subseteq held'
        BY <1>2, FewerLinks
      <3>2. disk.names \subseteq Name
        BY DEF LinksInv, NamesInv
      <3>. QED BY <1>2, <3>1, <3>2, LinksOfNames
    <2>2. runs' \in Seq(StreamRun)
      <3>1. first \subseteq Extent
        BY <1>1, LayoutIs
      <3>. QED BY <1>2, <3>1, RunIs DEF LinksInv, ReadInv
    <2>. QED BY <1>1, <1>2, <2>1, <2>2 DEF LinksInv, ReadInv, Size
  <1>6. FollowInv'
    BY <1>1, <1>2 DEF FollowInv
  <1>7. AnswerInv'
    BY <1>1, <1>2 DEF LinksInv, AnswerInv, AnswerOfOneMoment, NothingInvented
  <1>. QED BY <1>3, <1>4, <1>5, <1>6, <1>7 DEF LinksInv

LEMMA CloseStep ==
  ASSUME LinksInv, Close
  PROVE  LinksInv'
  <1>. DEFINE prefix == Least(Covered(runs) * SectorUnits, Size)
  <1>1. pc = "close" /\ UNCHANGED <<disk, ids, held>>
    BY DEF Close, fsVars
  <1>2. CASE Fail
    BY <1>1, <1>2, FailStep
  <1>3. CASE ~Fail
    <2>1. /\ pc' \in {"stream", "discover"} /\ target' = prefix /\ buf' = <<>>
          /\ UNCHANGED <<base, runs, pending, cache, links, answer>>
          /\ passes' = passes \/ (passes # MaxPasses /\ passes' = passes + 1)
      BY <1>3 DEF Close
    <2>2. NamesInv' /\ CacheInv' /\ AnswerInv'
      BY <1>1, <2>1, NamesStay, CacheStays, AnswerStays DEF LinksInv
    <2>3. prefix \in 0..Size
      <3>1. Covered(runs) \in Nat
        BY CoveredIsNat DEF LinksInv, ReadInv
      <3>2. Size \in Nat
        BY LayoutIs DEF Size, LinksInv, NamesInv
      <3>3. Covered(runs) * SectorUnits \in Nat
        BY <3>1, LinksAssumption
      <3>. QED BY <3>2, <3>3 DEF Least
    <2>4. ReadInv'
      <3>1. passes' \in 0..MaxPasses
        BY <2>1, LinksAssumption DEF LinksInv, ReadInv
      <3>2. Size' = Size
        BY <2>1 DEF Size
      <3>3. buf' \in Seq(ToSet(buf')) /\ Len(buf') = 0
        BY <2>1
      <3>. QED BY <1>1, <2>1, <2>3, <3>1, <3>2, <3>3 DEF LinksInv, ReadInv
    <2>5. FollowInv'
      BY <1>1, <2>1 DEF LinksInv, FollowInv
    <2>. QED BY <2>2, <2>4, <2>5 DEF LinksInv
  <1>. QED BY <1>2, <1>3

LEMMA ReadSectorStep ==
  ASSUME LinksInv, ReadSector
  PROVE  LinksInv'
  <1>. DEFINE at == Len(buf) \div SectorUnits
              run == CHOOSE r \in ToSet(runs) : at \in Span(r.logical, r.len)
              units == Sector(run.physical + at - run.logical)
              more == SubSeq(units, 1, Least(SectorUnits, target - Len(buf)))
              all == ToSet(buf) \cup ToSet(units)
  <1>1. /\ pc \in {"discover", "stream"} /\ Len(buf) < target /\ buf' = buf \o more
        /\ UNCHANGED <<disk, ids, held, pc, base, runs, passes, target, pending, cache, links, answer>>
    BY DEF ReadSector, fsVars, closeVars
  <1>2. NamesInv' /\ CacheInv' /\ AnswerInv'
    BY <1>1, NamesStay, CacheStays, AnswerStays DEF LinksInv
  <1>3. buf \in Seq(all) /\ Len(buf) \in Nat /\ target \in Nat /\ target <= Size
    <2>1. buf \in Seq(ToSet(buf)) /\ target \in 0..Size
      BY DEF LinksInv, ReadInv
    <2>2. Size \in Nat
      BY LayoutIs DEF Size, LinksInv, NamesInv
    <2>. QED BY <2>1, <2>2
  <1>4. units \in Seq(all) /\ Len(units) = SectorUnits
    <2>. HIDE DEF units
    <2>1. units = [k \in 1..SectorUnits |-> units[k]]
      BY SectorIs DEF units
    <2>2. \A k \in 1..SectorUnits : units[k] \in all
      BY <2>1 DEF ToSet
    <2>. QED BY <2>1, <2>2, LinksAssumption
  <1>5. Least(SectorUnits, target - Len(buf)) \in 1..SectorUnits
        /\ Least(SectorUnits, target - Len(buf)) <= target - Len(buf)
    BY <1>1, <1>3, LinksAssumption DEF Least
  <1>6. more \in Seq(all) /\ Len(more) = Least(SectorUnits, target - Len(buf))
    <2>. HIDE DEF units
    <2>1. Least(SectorUnits, target - Len(buf)) \in 1..Len(units)
      BY <1>4, <1>5
    <2>. HIDE DEF all
    <2>. QED BY <1>4, <2>1, PrefixIs
  <1>7. buf' \in Seq(all) /\ Len(buf') <= target
    BY <1>1, <1>3, <1>5, <1>6, LinksAssumption
  <1>8. ReadInv'
    <2>1. buf' \in Seq(ToSet(buf'))
      BY <1>7, OwnElements
    <2>. QED BY <1>1, <1>7, <2>1 DEF LinksInv, ReadInv, Size
  <1>9. FollowInv'
    BY <1>1 DEF LinksInv, FollowInv
  <1>. QED BY <1>2, <1>8, <1>9 DEF LinksInv

LEMMA DiscoveredStep ==
  ASSUME LinksInv, Discovered
  PROVE  LinksInv'
  <1>1. pc = "discover" /\ UNCHANGED <<disk, ids, held>>
    BY DEF Discovered, fsVars
  <1>2. CASE Fail
    BY <1>1, <1>2, FailStep
  <1>3. CASE ~Fail
    <2>1. /\ pc' = "extend"
          /\ UNCHANGED <<base, runs, passes, target, buf, cache, links, answer>>
      BY <1>3 DEF Discovered, streamVars
    <2>2. NamesInv' /\ CacheInv' /\ ReadInv' /\ AnswerInv'
      BY <1>1, <2>1, NamesStay, CacheStays, ReadStays, AnswerStays DEF LinksInv
    <2>3. FollowInv'
      BY <1>1, <2>1 DEF LinksInv, FollowInv
    <2>. QED BY <2>2, <2>3 DEF LinksInv
  <1>. QED BY <1>2, <1>3

LEMMA ExtendStep ==
  ASSUME LinksInv, Extend
  PROVE  LinksInv'
  <1>. DEFINE e == Head(pending)
              known == {s \in seen : s[1] = e.ref /\ s[2] = e.id}
              parts == {x \in Target(e).extents : Belongs(Target(e), e) /\ x.id = e.id /\ x.vcn = e.vcn}
              more == runs \o Run(parts)
  <1>1. pc = "extend" /\ UNCHANGED <<disk, ids, held>>
    BY DEF Extend, fsVars
  <1>2. CASE Fail
    BY <1>1, <1>2, FailStep
  <1>3. CASE UNCHANGED <<pc, base, runs, passes, target, buf, cache, links, answer>>
    <2>1. NamesInv' /\ CacheInv' /\ ReadInv' /\ AnswerInv'
      BY <1>1, <1>3, NamesStay, CacheStays, ReadStays, AnswerStays DEF LinksInv
    <2>2. FollowInv'
      BY <1>1, <1>3 DEF LinksInv, FollowInv
    <2>. QED BY <2>1, <2>2 DEF LinksInv
  <1>4. CASE /\ parts # {} /\ runs' = more /\ Keep(e)
             /\ UNCHANGED <<pc, base, passes, target, buf, links, answer>>
    <2>1. NamesInv' /\ AnswerInv'
      BY <1>1, <1>4, NamesStay, AnswerStays DEF LinksInv
    <2>2. Belongs(Target(e), e) /\ Target(e).extents # {}
      BY <1>4
    <2>3. CacheInv'
      <3>. HIDE DEF e
      <3>. QED BY <1>1, <1>4, <2>2, KeepInv DEF LinksInv
    <2>4. ReadInv'
      <3>1. Target(e).extents \subseteq base.extents
        BY <1>1, <2>2, TargetIs DEF LinksInv
      <3>2. base.extents \subseteq Extent
        BY LayoutIs DEF LinksInv, NamesInv
      <3>3. Run(parts) \in Seq(StreamRun)
        BY <3>1, <3>2, RunIs
      <3>4. runs' \in Seq(StreamRun)
        BY <1>4, <3>3 DEF LinksInv, ReadInv
      <3>. QED BY <1>1, <1>4, <3>4 DEF LinksInv, ReadInv, Size
    <2>5. FollowInv'
      BY <1>1, <1>4 DEF LinksInv, FollowInv
    <2>. QED BY <2>1, <2>3, <2>4, <2>5 DEF LinksInv
  <1>. QED BY <1>2, <1>3, <1>4 DEF Extend, closeVars, streamVars

LEMMA ExtendedStep ==
  ASSUME LinksInv, Extended
  PROVE  LinksInv'
  <1>1. pc = "extend" /\ UNCHANGED <<disk, ids, held>>
    BY DEF Extended, fsVars
  <1>2. CASE Fail
    BY <1>1, <1>2, FailStep
  <1>3. CASE ~Fail
    <2>1. /\ pc' = "close"
          /\ UNCHANGED <<base, runs, passes, target, buf, cache, links, answer>>
      BY <1>3 DEF Extended, streamVars
    <2>2. NamesInv' /\ CacheInv' /\ ReadInv' /\ AnswerInv'
      BY <1>1, <2>1, NamesStay, CacheStays, ReadStays, AnswerStays DEF LinksInv
    <2>3. FollowInv'
      BY <1>1, <2>1 DEF LinksInv, FollowInv
    <2>. QED BY <2>2, <2>3 DEF LinksInv
  <1>. QED BY <1>2, <1>3

LEMMA StreamedStep ==
  ASSUME LinksInv, Streamed
  PROVE  LinksInv'
  <1>1. pc = "stream" /\ UNCHANGED <<disk, ids, held>>
    BY DEF Streamed, fsVars
  <1>2. CASE Fail
    BY <1>1, <1>2, FailStep
  <1>3. CASE ~Fail
    <2>1. /\ pc' = "names"
          /\ UNCHANGED <<base, runs, passes, target, buf, cache, links, answer>>
      BY <1>3 DEF Streamed, streamVars, closeVars
    <2>2. NamesInv' /\ CacheInv' /\ ReadInv' /\ AnswerInv'
      BY <1>1, <2>1, NamesStay, CacheStays, ReadStays, AnswerStays DEF LinksInv
    <2>3. FollowInv'
      BY <1>1, <2>1 DEF LinksInv, FollowInv
    <2>. QED BY <2>2, <2>3 DEF LinksInv
  <1>. QED BY <1>2, <1>3

LEMMA CheckBaseStep ==
  ASSUME LinksInv, CheckBase
  PROVE  LinksInv'
  <1>1. pc = "names" /\ UNCHANGED <<disk, ids, held>>
    BY DEF CheckBase, fsVars
  <1>2. CASE Fail
    BY <1>1, <1>2, FailStep
  <1>3. CASE ~Fail
    <2>1. /\ pc' = "resolve"
          /\ UNCHANGED <<base, runs, passes, target, buf, pending, cache, links, answer>>
      BY <1>3 DEF CheckBase, streamVars, closeVars
    <2>2. NamesInv' /\ CacheInv' /\ ReadInv' /\ AnswerInv'
      BY <1>1, <2>1, NamesStay, CacheStays, ReadStays, AnswerStays DEF LinksInv
    <2>3. FollowInv'
      <3>. SUFFICES ASSUME base.kind # "stream"
                    PROVE  /\ pending \in Seq(ListEntry) /\ links \subseteq SearchLinks(base.names)
                           /\ \A i \in DOMAIN pending :
                                pending[i].type = "name" => \E n \in base.names : Lists(pending[i], n)
                           /\ \A n \in base.names : \/ n.dos \/ n.link \in links
                                                    \/ \E i \in DOMAIN pending : Lists(pending[i], n)
        BY <2>1 DEF FollowInv
      <3>1. pending = base.list /\ links = SearchLinks({n \in base.names : n.rec = 0})
        BY <1>1 DEF LinksInv, FollowInv
      <3>2. base \in Layouts
        BY DEF LinksInv, NamesInv
      <3>3. links \subseteq SearchLinks(base.names)
        BY <3>1, FewerLinks
      <3>4. CASE base.kind = "missing"
        <4>1. base.list = <<>> /\ \A n \in base.names : n.rec = 0
          BY <3>2, <3>4, LayoutIs
        <4>2. \A n \in base.names : n.dos \/ n.link \in links
          BY <3>1, <4>1 DEF SearchLinks
        <4>. QED BY <3>1, <3>3, <4>1, <4>2
      <3>5. CASE base.kind = "resident"
        <4>1. base.list \in Seq(ListEntry)
          BY <3>2, LayoutIs
        <4>2. /\ \A i \in DOMAIN base.list :
                   base.list[i].type = "name" => \E n \in base.names : Lists(base.list[i], n)
              /\ \A n \in base.names : \E i \in DOMAIN base.list : Lists(base.list[i], n)
          BY <3>2, <3>5, LayoutIs
        <4>. QED BY <3>1, <3>3, <4>1, <4>2
      <3>. QED BY <3>2, <3>4, <3>5, LayoutIs
    <2>. QED BY <2>2, <2>3 DEF LinksInv
  <1>. QED BY <1>2, <1>3

\* What follows once the first of the pending entries has been dealt with: a
\* name is collected, or follows still.
LEMMA FollowOne ==
  ASSUME pending \in Seq(ListEntry), pending # <<>>, pending' = Tail(pending),
         base' = base, links' \subseteq SearchLinks(base.names), links \subseteq links',
         \A i \in DOMAIN pending :
           pending[i].type = "name" => \E n \in base.names : Lists(pending[i], n),
         \A n \in base.names : n.dos \/ n.link \in links \/ \E i \in DOMAIN pending : Lists(pending[i], n),
         \A n \in base.names : Lists(Head(pending), n) => n.dos \/ n.link \in links'
  PROVE  /\ pending' \in Seq(ListEntry) /\ links' \subseteq SearchLinks(base'.names)
         /\ \A i \in DOMAIN pending' :
              pending'[i].type = "name" => \E n \in base'.names : Lists(pending'[i], n)
         /\ \A n \in base'.names : n.dos \/ n.link \in links' \/ \E i \in DOMAIN pending' : Lists(pending'[i], n)
  <1>1. /\ pending' \in Seq(ListEntry) /\ Len(pending') = Len(pending) - 1
        /\ \A i \in 1..Len(pending') : pending'[i] = pending[i + 1] /\ i + 1 \in 1..Len(pending)
        /\ Head(pending) = pending[1]
    OBVIOUS
  <1>2. DOMAIN pending' = 1..Len(pending') /\ DOMAIN pending = 1..Len(pending)
    BY <1>1
  <1>3. \A i \in DOMAIN pending' :
          pending'[i].type = "name" => \E n \in base.names : Lists(pending'[i], n)
    BY <1>1, <1>2
  <1>4. ASSUME NEW n \in base.names, ~n.dos, n.link \notin links'
        PROVE  \E i \in DOMAIN pending' : Lists(pending'[i], n)
    <2>1. PICK i \in DOMAIN pending : Lists(pending[i], n)
      BY <1>4
    <2>2. i # 1
      BY <1>1, <1>4, <2>1
    <2>3. i - 1 \in 1..Len(pending') /\ (i - 1) + 1 = i
      BY <1>1, <1>2, <2>2
    <2>4. pending'[i - 1] = pending[i]
      BY <1>1, <2>3
    <2>. QED BY <1>2, <2>1, <2>3, <2>4
  <1>. QED BY <1>1, <1>3, <1>4

LEMMA ResolveNameStep ==
  ASSUME LinksInv, ResolveName
  PROVE  LinksInv'
  <1>. DEFINE e == Head(pending)
              named == {n \in Target(e).names : Belongs(Target(e), e) /\ n.id = e.id}
  <1>1. pc = "resolve" /\ pending # <<>> /\ UNCHANGED <<disk, ids, held>>
    BY DEF ResolveName, fsVars
  <1>2. CASE Fail
    BY <1>1, <1>2, FailStep
  <1>3. CASE /\ e.type # "name" /\ pending' = Tail(pending)
             /\ UNCHANGED <<pc, base, closeVars, streamVars, cache, links, answer>>
    <2>1. UNCHANGED <<pc, base, runs, passes, target, buf, cache, links, answer>>
      BY <1>3 DEF closeVars, streamVars
    <2>2. NamesInv' /\ CacheInv' /\ ReadInv' /\ AnswerInv'
      BY <1>1, <2>1, NamesStay, CacheStays, ReadStays, AnswerStays DEF LinksInv
    <2>3. FollowInv'
      <3>1. CASE base.kind = "stream"
        BY <1>1, <2>1, <3>1 DEF FollowInv
      <3>2. CASE base.kind # "stream"
        <4>1. \A n \in base.names : ~Lists(Head(pending), n)
          BY <1>3 DEF Lists
        <4>. QED BY <1>1, <1>3, <2>1, <3>2, <4>1, FollowOne DEF LinksInv, FollowInv
      <3>. QED BY <3>1, <3>2
    <2>. QED BY <2>2, <2>3 DEF LinksInv
  <1>4. CASE /\ e.type = "name" /\ named # {} /\ links' = links \cup SearchLinks(named)
             /\ pending' = Tail(pending) /\ Keep(e)
             /\ UNCHANGED <<pc, base, closeVars, streamVars, answer>>
    <2>1. UNCHANGED <<pc, base, runs, passes, target, buf, answer>>
      BY <1>4 DEF closeVars, streamVars
    <2>2. Belongs(Target(e), e) /\ Target(e).names # {} /\ named \subseteq Target(e).names
      BY <1>4
    <2>3. NamesInv' /\ AnswerInv'
      BY <1>1, <2>1, NamesStay, AnswerStays DEF LinksInv
    <2>4. /\ Target(e).names \subseteq Name /\ SearchLinks(Target(e).names) \subseteq held
          /\ \A n \in Target(e).names : n.rec = e.ref[1] /\ Same(n)
      <3>. HIDE DEF e
      <3>. QED BY <1>1, <2>2, TargetIs DEF LinksInv
    <2>5. CacheInv'
      <3>. HIDE DEF e
      <3>. QED BY <1>1, <1>4, <2>1, <2>2, KeepInv DEF LinksInv
    <2>6. links' \subseteq Links /\ links' \subseteq held
      <3>1. SearchLinks(named) \subseteq SearchLinks(Target(e).names)
        BY <2>2, FewerLinks
      <3>2. SearchLinks(named) \subseteq Links
        BY <2>2, <2>4, LinksOfNames
      <3>. QED BY <1>1, <1>4, <2>4, <3>1, <3>2 DEF LinksInv, ReadInv
    <2>7. ReadInv'
      BY <1>1, <2>1, <2>6 DEF LinksInv, ReadInv, Size
    <2>8. FollowInv'
      <3>1. CASE base.kind = "stream"
        BY <1>1, <2>1, <3>1 DEF FollowInv
      <3>2. CASE base.kind # "stream"
        <4>1. /\ pending \in Seq(ListEntry) /\ links \subseteq SearchLinks(base.names)
              /\ \A i \in DOMAIN pending :
                   pending[i].type = "name" => \E n \in base.names : Lists(pending[i], n)
              /\ \A n \in base.names : \/ n.dos \/ n.link \in links
                                       \/ \E i \in DOMAIN pending : Lists(pending[i], n)
          BY <1>1, <3>2 DEF LinksInv, FollowInv
        <4>2. 1 \in DOMAIN pending /\ e = pending[1]
          BY <1>1, <4>1
        <4>3. PICK m \in base.names : Lists(e, m)
          BY <1>4, <4>1, <4>2
        <4>4. e.ref[1] = m.rec /\ e.id = m.id
          BY <4>3 DEF Lists
        <4>5. \A n \in named : n = m
          BY <2>2, <2>4, <4>4 DEF Same
        <4>6. named = {m}
          BY <1>4, <4>5
        <4>7. links' \subseteq SearchLinks(base.names)
          BY <1>4, <4>1, <4>6 DEF SearchLinks
        <4>8. \A n \in base.names : Lists(Head(pending), n) => n = m
          <5>1. \A n, k \in base.names : n.rec = k.rec /\ n.id = k.id => n = k
            BY LayoutIs DEF LinksInv, NamesInv
          <5>2. \A n \in base.names : Lists(e, n) => n.rec = m.rec /\ n.id = m.id
            BY <4>3 DEF Lists
          <5>. QED BY <5>1, <5>2
        <4>9. m.dos \/ m.link \in links'
          BY <1>4, <4>6 DEF SearchLinks
        <4>10. links \subseteq links'
          BY <1>4
        <4>11. \A n \in base.names : Lists(Head(pending), n) => n.dos \/ n.link \in links'
          BY <4>8, <4>9
        <4>. QED BY <1>1, <1>4, <2>1, <3>2, <4>1, <4>7, <4>10, <4>11, FollowOne DEF FollowInv
      <3>. QED BY <3>1, <3>2
    <2>. QED BY <2>3, <2>5, <2>7, <2>8 DEF LinksInv
  <1>. QED BY <1>2, <1>3, <1>4 DEF ResolveName

LEMMA ResolvedStep ==
  ASSUME LinksInv, Resolved
  PROVE  LinksInv'
  <1>1. pc = "resolve" /\ pending = <<>> /\ UNCHANGED <<disk, ids, held>>
    BY DEF Resolved, fsVars
  <1>2. CASE Fail
    BY <1>1, <1>2, FailStep
  <1>3. CASE ~Fail
    <2>1. /\ pc' = "done" /\ answer' = [kind |-> "present", links |-> links]
          /\ UNCHANGED <<base, runs, passes, target, buf, cache, links>>
      BY <1>3 DEF Resolved, Answer, streamVars, closeVars
    <2>2. NamesInv' /\ CacheInv' /\ ReadInv'
      BY <1>1, <2>1, NamesStay, CacheStays, ReadStays DEF LinksInv
    <2>3. FollowInv'
      BY <2>1 DEF FollowInv
    <2>4. AnswerInv'
      <3>1. base.kind # "stream" => links = SearchLinks(base.names)
        <4>. SUFFICES ASSUME base.kind # "stream" PROVE links = SearchLinks(base.names)
          OBVIOUS
        <4>1. /\ links \subseteq SearchLinks(base.names)
              /\ \A n \in base.names : n.dos \/ n.link \in links
          BY <1>1 DEF LinksInv, FollowInv
        <4>. QED BY <4>1 DEF SearchLinks
      <3>2. links \subseteq Links /\ links \subseteq held
        BY <1>1 DEF LinksInv, ReadInv
      <3>3. AnswerOfOneMoment' /\ NothingInvented'
        BY <1>1, <2>1, <3>1, <3>2 DEF AnswerOfOneMoment, NothingInvented, SearchLinks
      <3>. QED BY <2>1, <3>2, <3>3 DEF AnswerInv
    <2>. QED BY <2>2, <2>3, <2>4 DEF LinksInv
  <1>. QED BY <1>2, <1>3

--------------------------------------------------------------------------------
(* What NTFS and the owner do meanwhile. *)

\* A change of the names that keeps those of the base record's moment what
\* they were disturbs nothing the reader knows.
LEMMA ChangeStep ==
  ASSUME LinksInv, pc \notin {"start", "done"}, NEW names, NEW list, NEW live,
         disk' = [disk EXCEPT !.names = names, !.list = list, !.live = live],
         names \subseteq Name, \A n \in names : Same(n),
         held' = held \cup SearchLinks(names), ids' \in Nat, ids' >= 9,
         UNCHANGED <<pc, base, closeVars, streamVars, pending, cache, links, answer>>
  PROVE  LinksInv'
  <1>1. UNCHANGED <<pc, base, runs, passes, target, buf, pending, cache, links, answer>>
    BY DEF closeVars, streamVars
  <1>2. disk' = [live |-> live, kind |-> disk.kind, names |-> names, list |-> list,
                 extents |-> disk.extents]
    <2>1. disk = [live |-> disk.live, kind |-> disk.kind, names |-> disk.names,
                  list |-> disk.list, extents |-> disk.extents]
      BY DEF LinksInv, NamesInv
    <2>. QED BY <2>1
  <1>3. NamesInv'
    <2>1. SearchLinks(disk'.names) \cup SearchLinks(base.names) \subseteq held'
      BY <1>2 DEF LinksInv, NamesInv
    <2>. QED BY <1>1, <1>2, <2>1 DEF LinksInv, NamesInv, Same, SearchLinks
  <1>4. CacheInv'
    BY <1>1 DEF LinksInv, CacheInv, Same, SearchLinks
  <1>5. ReadInv'
    BY <1>1 DEF LinksInv, ReadInv, Size
  <1>6. FollowInv'
    BY <1>1 DEF LinksInv, FollowInv, SearchLinks
  <1>7. AnswerInv'
    BY <1>1 DEF LinksInv, AnswerInv, AnswerOfOneMoment, NothingInvented, SearchLinks
  <1>. QED BY <1>3, <1>4, <1>5, <1>6, <1>7 DEF LinksInv

LEMMA FileSystemStep ==
  ASSUME LinksInv, FileSystem
  PROVE  LinksInv'
  <1>1. UNCHANGED <<pc, base, closeVars, streamVars, pending, cache, links, answer>>
    BY DEF FileSystem
  <1>2. pc \notin {"start", "done"}
    BY DEF FileSystem, AddLink, DropLink, RenameLink, TakeOver, Delete, Becomes, Reading
  <1>3. /\ disk = [live |-> disk.live, kind |-> disk.kind, names |-> disk.names,
                   list |-> disk.list, extents |-> disk.extents]
        /\ disk.names \subseteq Name /\ ids \in Nat /\ ids >= 9 /\ \A n \in disk.names : Same(n)
        /\ SearchLinks(disk.names) \subseteq held
    BY <1>2 DEF LinksInv, NamesInv
  <1>4. \A n \in Name : n.id = ids + 1 => Same(n)
    <2>1. \A m \in base.names : m.id <= 9 /\ m \in Name
      BY LayoutIs DEF LinksInv, NamesInv
    <2>. QED BY <1>3, <2>1 DEF Same, Name
  <1>5. ASSUME NEW names, NEW list, Becomes(names, list), names \subseteq Name,
               \A n \in names : Same(n), ids' \in Nat, ids' >= 9
        PROVE  LinksInv'
    <2>1. disk' = [disk EXCEPT !.names = names, !.list = list, !.live = disk.live]
      BY <1>3, <1>5 DEF Becomes
    <2>2. held' = held \cup SearchLinks(names)
      BY <1>5 DEF Becomes
    <2>. QED BY <1>1, <1>2, <1>5, <2>1, <2>2, ChangeStep
  <1>6. CASE AddLink
    <2>1. PICK r \in Records, l \in Links :
            /\ Becomes(disk.names \cup {[rec |-> r, id |-> ids + 1, link |-> l, dos |-> FALSE]},
                       Listed(disk.list, [rec |-> r, id |-> ids + 1, link |-> l, dos |-> FALSE]))
            /\ ids' = ids + 1
      BY <1>6 DEF AddLink
    <2>. DEFINE n == [rec |-> r, id |-> ids + 1, link |-> l, dos |-> FALSE]
    <2>2. n \in Name /\ n.id = ids + 1
      BY <1>3 DEF Name
    <2>3. Same(n)
      BY <1>4, <2>2
    <2>4. disk.names \cup {n} \subseteq Name /\ \A x \in disk.names \cup {n} : Same(x)
      BY <1>3, <2>2, <2>3
    <2>. QED BY <1>3, <1>5, <2>1, <2>4
  <1>7. CASE DropLink
    <2>1. PICK n \in disk.names : Becomes(disk.names \ {n}, Unlisted(n)) /\ ids' = ids
      BY <1>7 DEF DropLink
    <2>. QED BY <1>3, <1>5, <2>1
  <1>8. CASE RenameLink
    <2>1. PICK n \in disk.names, r \in Records, l \in Links :
            /\ Becomes((disk.names \ {n}) \cup {[rec |-> r, id |-> ids + 1, link |-> l, dos |-> n.dos]},
                       Listed(Unlisted(n), [rec |-> r, id |-> ids + 1, link |-> l, dos |-> n.dos]))
            /\ ids' = ids + 1
      BY <1>8 DEF RenameLink
    <2>. DEFINE m == [rec |-> r, id |-> ids + 1, link |-> l, dos |-> n.dos]
    <2>2. m \in Name /\ m.id = ids + 1
      BY <1>3 DEF Name
    <2>3. Same(m)
      BY <1>4, <2>2
    <2>4. /\ (disk.names \ {n}) \cup {m} \subseteq Name
          /\ \A x \in (disk.names \ {n}) \cup {m} : Same(x)
      BY <1>3, <2>2, <2>3
    <2>. QED BY <1>3, <1>5, <2>1, <2>4
  <1>9. CASE TakeOver \/ Delete
    <2>1. PICK live : disk' = [disk EXCEPT !.names = disk.names, !.list = disk.list, !.live = live]
      <3>1. CASE TakeOver
        <4>1. disk' = disk
          BY <3>1 DEF TakeOver
        <4>2. disk = [disk EXCEPT !.names = disk.names, !.list = disk.list, !.live = disk.live]
          BY <1>3
        <4>. QED BY <4>1, <4>2
      <3>2. CASE Delete
        BY <1>3, <3>2 DEF Delete
      <3>. QED BY <1>9, <3>1, <3>2
    <2>2. ids' = ids /\ held' = held
      BY <1>9 DEF TakeOver, Delete
    <2>3. held' = held \cup SearchLinks(disk.names)
      BY <1>3, <2>2
    <2>. QED BY <1>1, <1>2, <1>3, <2>1, <2>2, <2>3, ChangeStep
  <1>. QED BY <1>6, <1>7, <1>8, <1>9 DEF FileSystem

--------------------------------------------------------------------------------
(* The theorem. *)

LEMMA InitLinks == Init => LinksInv
  <1>. SUFFICES ASSUME Init PROVE LinksInv
    OBVIOUS
  <1>1. /\ disk \in Layouts /\ base = disk /\ pc = "start" /\ ids = 9
        /\ runs = <<>> /\ passes = 0 /\ target = 0 /\ buf = <<>>
        /\ cache = {} /\ links = {} /\ answer = [kind |-> "none", links |-> {}]
    BY DEF Init
  <1>2. NamesInv
    BY <1>1, LayoutIs DEF NamesInv, Same
  <1>3. ReadInv
    <2>1. Size \in Nat
      BY <1>1, LayoutIs DEF Size
    <2>2. runs \in Seq(StreamRun) /\ buf \in Seq(ToSet(buf)) /\ Len(buf) = 0
      BY <1>1
    <2>. QED BY <1>1, <2>1, <2>2, LinksAssumption DEF ReadInv
  <1>4. CacheInv /\ FollowInv /\ AnswerInv
    BY <1>1 DEF CacheInv, FollowInv, AnswerInv, AnswerOfOneMoment, NothingInvented
  <1>. QED BY <1>2, <1>3, <1>4 DEF LinksInv

LEMMA NextLinks == LinksInv /\ [Next]_vars => LinksInv'
  <1>. SUFFICES ASSUME LinksInv, [Next]_vars PROVE LinksInv'
    OBVIOUS
  <1>1. CASE UNCHANGED vars
    BY <1>1 DEF LinksInv, NamesInv, CacheInv, ReadInv, FollowInv, AnswerInv, Same, Size, SearchLinks,
         AnswerOfOneMoment, NothingInvented, vars, fsVars, closeVars, streamVars
  <1>2. CASE Reader
    BY <1>2, ReadBaseStep, CloseStep, ReadSectorStep, DiscoveredStep, ExtendStep, ExtendedStep,
       StreamedStep, CheckBaseStep, ResolveNameStep, ResolvedStep DEF Reader
  <1>3. CASE FileSystem
    BY <1>3, FileSystemStep
  <1>4. CASE Interrupted
    <2>1. pc \notin {"start", "done"} /\ Fail /\ UNCHANGED <<disk, ids, held>>
      BY <1>4 DEF Interrupted
    <2>. QED BY <2>1, FailStep
  <1>. QED BY <1>1, <1>2, <1>3, <1>4 DEF Next, Done

\* What the invariant says of an answer.
LEMMA LinksSuffice == LinksInv => AnswerIsFaithful
  <1>. SUFFICES ASSUME LinksInv PROVE AnswerIsFaithful
    OBVIOUS
  <1>1. Size \in Nat
    BY LayoutIs DEF Size, LinksInv, NamesInv
  <1>2. TypeOK
    BY <1>1, LinksAssumption DEF LinksInv, CacheInv, ReadInv, AnswerInv, TypeOK
  <1>. QED BY <1>2 DEF LinksInv, AnswerInv, AnswerIsFaithful

\* Whatever NTFS does to the file, its list or its records while they are read,
\* and wherever the read is interrupted: a file whose list is in its base
\* record is answered with the links of the moment that record was read or not
\* at all, and no answer holds a link that the file did not have meanwhile.
THEOREM AnswersAreFaithful == Spec => []AnswerIsFaithful
  <1>1. LinksInv /\ [Next]_vars => LinksInv'
    BY NextLinks
  <1>. QED BY InitLinks, LinksSuffice, <1>1, PTL DEF Spec
==============================================================================
