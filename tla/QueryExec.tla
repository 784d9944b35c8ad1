------------------------------ MODULE QueryExec ------------------------------
(***************************************************************************)
(* Running a compiled query on one volume's rows (fmf-core, query/):       *)
(* matchers.rs, sweep.rs, exec.rs, subsume.rs and the lazily derived       *)
(* caches of memo.rs.                                                      *)
(*                                                                         *)
(* An index is a record [rows, perm, content, structural, stat, topo]: the *)
(* rows, the name permutation and the four generation counters.  A row is  *)
(* [name, parent, dir, live, excl, size, mtime] and its EntryId is its     *)
(* position; row Root is the volume root.  The dictionary holds one folded *)
(* name per row: rows sharing an entry change nothing here.                *)
(***************************************************************************)
EXTENDS QueryLang


Root == 1
Lower(row) == FoldStr(row.name)
FoldIdentical(row) == Lower(row) = row.name

----------------------------------------------------------------------------
(***************************************************************************)
(* memo.rs: the sanitized parent forest of path queries.                   *)
(***************************************************************************)
ValidParent(idx, id) ==
  LET p == idx.rows[id].parent
  IN  IF id = Root THEN Root
      ELSE IF p \in DOMAIN idx.rows /\ idx.rows[p].dir THEN p ELSE 0

\* The directories the parent walk from id meets, and whether it returns.
WalkUp(idx, id) ==
  LET up[k \in 0..Len(idx.rows)] ==
        IF k = 0 THEN id
        ELSE IF up[k - 1] \in {0, Root} THEN up[k - 1] ELSE ValidParent(idx, up[k - 1])
  IN  up
OnCycle(idx, id) ==
  id # Root /\ \E k \in 1..Len(idx.rows) : WalkUp(idx, id)[k] = id

\* Members of a cycle, and rows without a directory above them, hang off the
\* root; every other row keeps its parent.
BuildTopology(idx) ==
  [parents |-> [id \in DOMAIN idx.rows |->
                  IF ValidParent(idx, id) = 0 \/ OnCycle(idx, id) THEN Root
                  ELSE ValidParent(idx, id)],
   covers |-> Len(idx.rows), gen |-> idx.topo]

\* Appended rows take their parent as it is; older ones are kept.
ExtendTopology(idx, t) ==
  IF t.gen # idx.topo \/ t.covers > Len(idx.rows) THEN BuildTopology(idx)
  ELSE [parents |-> [id \in DOMAIN idx.rows |->
                       IF id <= t.covers THEN t.parents[id]
                       ELSE IF ValidParent(idx, id) = 0 THEN Root ELSE ValidParent(idx, id)],
        covers |-> Len(idx.rows), gen |-> t.gen]

TopologyIsCurrent(idx, t) == t.gen = idx.topo /\ t.covers = Len(idx.rows)

\* The path of a row through a topology, original spelling.
PathThrough(idx, parents, id) ==
  LET n == Len(idx.rows)
      up[k \in 0..n] == IF k = 0 THEN parents[id]
                        ELSE IF up[k - 1] = Root THEN Root ELSE parents[up[k - 1]]
      top == Min({k \in 0..n : up[k] = Root \/ k = n})
      dirs == [k \in 1..(top + 1) |-> idx.rows[up[top + 1 - k]].name \o <<"\\">>]
  IN  IF id = Root THEN idx.rows[id].name
      ELSE FlattenSeq(dirs) \o idx.rows[id].name

----------------------------------------------------------------------------
(***************************************************************************)
(* memo.rs: the size and mtime permutations.                               *)
(***************************************************************************)
Before(a, b) ==   \* byte order of folded names, by character rank
  \/ IsStrictPrefix(a, b)
  \/ \E i \in DOMAIN a \cap DOMAIN b :
       /\ SubSeq(a, 1, i - 1) = SubSeq(b, 1, i - 1)
       /\ Rank[a[i]] < Rank[b[i]]

\* One row sorts before another by the key alone.
KeyBefore(key, x, y) ==
  CASE key = "name" -> Before(Lower(x), Lower(y))
    [] key = "size" -> x.size < y.size
    [] key = "mtime" -> x.mtime < y.mtime

\* cmp_by: a strict total order, the id breaking ties.
Less(idx, key, a, b) ==
  LET ra == idx.rows[a]
      rb == idx.rows[b]
  IN  KeyBefore(key, ra, rb) \/ (~KeyBefore(key, rb, ra) /\ a < b)

SortIds(idx, key, ids) ==
  LET before == [a \in ids |-> Cardinality({b \in ids : Less(idx, key, b, a)})]
  IN  [k \in 1..Cardinality(ids) |-> CHOOSE a \in ids : before[a] = k - 1]

BuildPerm(idx, key) ==
  [ids |-> SortIds(idx, key, DOMAIN idx.rows), covers |-> Len(idx.rows), stat |-> idx.stat]

PermIsCurrent(idx, p) == p.stat = idx.stat /\ p.covers = Len(idx.rows)

\* Two sorted runs merged by the current order; equal heads take the left.
MergeStep(idx, key, left, right, m) ==
  IF /\ m.r <= Len(right)
     /\ m.l > Len(left) \/ Less(idx, key, right[m.r], left[m.l])
  THEN [ids |-> Append(m.ids, right[m.r]), l |-> m.l, r |-> m.r + 1]
  ELSE [ids |-> Append(m.ids, left[m.l]), l |-> m.l + 1, r |-> m.r]

MergeRuns(idx, key, left, right) ==
  LET merged[n \in 0..(Len(left) + Len(right))] ==
        IF n = 0 THEN [ids |-> <<>>, l |-> 1, r |-> 1]
        ELSE MergeStep(idx, key, left, right, merged[n - 1])
  IN  merged[Len(left) + Len(right)].ids

\* A stat change, or more rows than the index has, rebuilds; otherwise only
\* the appended tail is sorted and merged.
ExtendPerm(idx, key, p) ==
  IF p.stat # idx.stat \/ p.covers > Len(idx.rows) THEN BuildPerm(idx, key)
  ELSE [ids |-> MergeRuns(idx, key, p.ids,
                          SortIds(idx, key, (p.covers + 1)..Len(idx.rows))),
        covers |-> Len(idx.rows), stat |-> p.stat]

----------------------------------------------------------------------------
(***************************************************************************)
(* matchers.rs: one term on one row.                                       *)
(***************************************************************************)
NameView(m, row) ==
  IF m.canonical /\ ~IsAscii(row.name) THEN NormalizeStr(row.name, m.folded)
  ELSE IF m.folded THEN Lower(row) ELSE row.name

\* Case-exact literals on a fold-identical name are decided without it: an
\* unstable needle cannot occur there, a stable one reads the folded bytes.
ExactRejects(t, row) == ~t.m.canonical /\ ~t.m.folded /\ FoldIdentical(row) /\ t.unstable

\* A path is folded name by name, or normalized as a whole from the original.
PathView(m, idx, parents, id) ==
  LET path == PathThrough(idx, parents, id)
  IN  IF m.canonical /\ ~IsAscii(path) THEN NormalizeStr(path, m.folded)
      ELSE IF m.folded THEN FoldStr(path) ELSE path

\* The regex crate on the patterns used here: literals, ? (any) and * (any run).
RegexIsMatch(m, hay) ==
  LET n == Len(hay)
      same(c, d) == IF m.folded THEN CaseClass[c] = CaseClass[d] ELSE c = d
      step(ends, c) ==
        IF c = "*" THEN {j \in 0..n : \E e \in ends : e <= j}
        ELSE {e + 1 : e \in {e \in ends : e < n /\ (c = "?" \/ same(c, hay[e + 1]))}}
      reached == FoldLeft(step, IF m.anchored THEN {0} ELSE 0..n, m.bytes)
  IN  IF m.anchored THEN n \in reached ELSE reached # {}

\* The text after the last dot, or the whole name for none.
Extension(lower) ==
  LET dots == {i \in DOMAIN lower : lower[i] = "."}
  IN  SubSeq(lower, Max(dots \cup {0}) + 1, Len(lower))

Eval(idx, parents, t, id) ==
  LET row  == idx.rows[id]
      m    == t.m
      name == NameView(m, row)
  IN  CASE m.kind = "True"  -> TRUE
        [] m.kind = "Size"  -> ~row.dir /\ row.size \in m.lo..m.hi
        [] m.kind = "Mtime" -> MtimeSecsToTicks(row.mtime) >= m.lo
                                 /\ MtimeSecsToTicks(row.mtime) <= m.hi
        [] m.kind = "IsDir" -> row.dir = m.dir
        [] m.kind = "Ext"   ->
             LET lower == NameView([m EXCEPT !.folded = TRUE], row)
             IN  /\ "." \in ToSet(lower)
                 /\ ~row.dir
                 /\ Extension(lower) \in ToSet(m.exts)
        [] m.kind = "NameSub"    -> ~ExactRejects(t, row) /\ Occurs(m.bytes, name)
        [] m.kind = "NamePrefix" -> ~ExactRejects(t, row) /\ IsPrefix(m.bytes, name)
        [] m.kind = "NameSuffix" -> ~ExactRejects(t, row) /\ IsSuffix(m.bytes, name)
        [] m.kind = "NameRegex"  -> RegexIsMatch(m, NameView([m EXCEPT !.folded = FALSE], row))
        [] m.kind = "PathSub"    -> Occurs(m.bytes, PathView(m, idx, parents, id))
        [] m.kind = "PathRegex"  ->
             RegexIsMatch(m, PathView([m EXCEPT !.folded = FALSE], idx, parents, id))

TermsMatch(idx, parents, terms, id) ==
  \A i \in DOMAIN terms : Eval(idx, parents, terms[i], id) # terms[i].neg

----------------------------------------------------------------------------
(***************************************************************************)
(* sweep.rs: the names of the dictionary a driver accepts.                 *)
(***************************************************************************)
Dict(idx) == [i \in DOMAIN idx.rows |-> Lower(idx.rows[i])]

\* One pass over the concatenated pool: each hit belongs to the name it starts
\* in, is dropped when it spills into the next, and one hit per name is enough.
SweepRange(dict, needle, anchored) ==
  LET pool  == FlattenSeq(dict)
      off   == [k \in 1..(Len(dict) + 1) |-> Len(FlattenSeq(SubSeq(dict, 1, k - 1)))]
      hits  == {h \in 0..(Len(pool) - Len(needle)) :
                  SubSeq(pool, h + 1, h + Len(needle)) = needle}
      found[pos \in 0..Len(pool)] ==
        LET next == {h \in hits : h >= pos}
            hit  == Min(next)
            k    == Max({j \in DOMAIN dict : off[j] <= hit})
        IN  IF next = {} THEN {}
            ELSE IF /\ hit + Len(needle) <= off[k + 1]
                    /\ anchored => hit = off[k]
            THEN {k} \cup found[off[k + 1]]
            ELSE found[hit + 1]
  IN  found[0]

CanonicalDriverMatches(d, name) ==
  CASE d.kind = "Sub"      -> Occurs(d.needles[1], name)
    [] d.kind = "Prefix"   -> IsPrefix(d.needles[1], name)
    [] d.kind = "Suffixes" -> \E i \in DOMAIN d.needles : IsSuffix(d.needles[i], name)

\* The raw sweep; a canonical driver adds the folded names, and the original
\* spellings of live rows, whose NFC view matches.
DriverCandidates(idx, d) ==
  LET dict == Dict(idx)
      raw  == CASE d.kind = "Sub"      -> SweepRange(dict, d.needles[1], FALSE)
                [] d.kind = "Prefix"   -> SweepRange(dict, d.needles[1], TRUE)
                [] d.kind = "Suffixes" ->
                     {k \in DOMAIN dict : \E i \in DOMAIN d.needles : IsSuffix(d.needles[i], dict[k])}
      folded == {k \in DOMAIN dict :
                   /\ ~IsAscii(dict[k])
                   /\ CanonicalDriverMatches(d, NormalizeStr(dict[k], TRUE))}
      spelled == {k \in DOMAIN dict :
                    /\ idx.rows[k].live
                    /\ ~FoldIdentical(idx.rows[k])
                    /\ ~IsAscii(idx.rows[k].name)
                    /\ CanonicalDriverMatches(d, NormalizeStr(idx.rows[k].name, TRUE))}
  IN  IF d.canonical THEN raw \cup folded \cup spelled ELSE raw

----------------------------------------------------------------------------
(***************************************************************************)
(* exec.rs: a full search, and the refinement of an earlier result.        *)
(***************************************************************************)
Swept(g) == g.driver.kind \notin {"MatchAll", "FullScan"}
Shown(idx, hidden, id) == idx.rows[id].live /\ (hidden \/ ~idx.rows[id].excl)

GroupMatches(idx, parents, g, id) ==
  IF Swept(g)
  THEN /\ id \in DriverCandidates(idx, g.driver)
       /\ ~(g.driver.filesOnly /\ idx.rows[id].dir)
       /\ TermsMatch(idx, parents, ResidualTerms(g), id)
  ELSE TermsMatch(idx, parents, g.terms, id)

\* The permutation of the sort key, filtered; descending reverses it.
Materialize(perm, desc, keep) ==
  LET ids == Filter(perm, keep) IN IF desc THEN Reverse(ids) ELSE ids

Search(idx, perm, parents, groups, q) ==
  Materialize(perm, q.desc,
              {id \in Range(perm) :
                 /\ Shown(idx, q.hidden, id)
                 /\ \E i \in DOMAIN groups : GroupMatches(idx, parents, groups[i], id)})

Refine(idx, parents, groups, q, prev) ==
  Filter(prev, {id \in Range(prev) :
                  /\ Shown(idx, q.hidden, id)
                  /\ \E i \in DOMAIN groups : TermsMatch(idx, parents, AllTerms(groups[i]), id)})

----------------------------------------------------------------------------
(***************************************************************************)
(* subsume.rs: is every row of next among the rows of prev?                *)
(***************************************************************************)
\* The needle n as seen from p's domain; original spellings fold, folded ones
\* say nothing of the original.
Bridged(n, p) ==
  IF ~n.folded /\ p.folded THEN FoldExactNeedle(n.bytes, n.canonical) ELSE n.bytes
SameDomain(n, p) == n.canonical = p.canonical /\ (n.folded => p.folded)

Implies(n, p) ==
  \/ p.kind = "True"
  \/ /\ n.kind \in {"NameSub", "NamePrefix", "NameSuffix"} /\ p.kind = "NameSub"
     /\ SameDomain(n, p) /\ Occurs(p.bytes, Bridged(n, p))
  \/ /\ n.kind = "NamePrefix" /\ p.kind = "NamePrefix"
     /\ SameDomain(n, p) /\ IsPrefix(p.bytes, Bridged(n, p))
  \/ /\ n.kind = "NameSuffix" /\ p.kind = "NameSuffix"
     /\ SameDomain(n, p) /\ IsSuffix(p.bytes, Bridged(n, p))
  \/ /\ n.kind = "Ext" /\ p.kind = "Ext"
     /\ n.canonical = p.canonical /\ ToSet(n.exts) \subseteq ToSet(p.exts)
  \/ /\ n.kind = p.kind /\ n.kind \in {"Size", "Mtime"}
     /\ n.lo >= p.lo /\ n.hi <= p.hi
  \/ n = p

TermImplied(p, next) ==
  \/ \E i \in DOMAIN next :
       /\ next[i].neg = p.neg
       /\ IF p.neg THEN next[i].m = p.m ELSE Implies(next[i].m, p.m)
  \/ ~p.neg /\ p.m.kind = "True"

\* Mutant: a cached result without hidden rows answers a query with them.
SubsumesIgnoringHidden(prevGroups, prevQ, nextGroups, nextQ) ==
  /\ prevQ.sort = nextQ.sort /\ prevQ.desc = nextQ.desc
  /\ Len(prevGroups) = 1
  /\ LET p == AllTerms(prevGroups[1])
     IN  \A i \in DOMAIN p : TermImplied(p[i], AllTerms(nextGroups[1]))

Subsumes(prevGroups, prevQ, nextGroups, nextQ) ==
  /\ prevQ.sort = nextQ.sort /\ prevQ.desc = nextQ.desc
  /\ nextQ.hidden => prevQ.hidden
  /\ \/ Len(prevGroups) = 1 /\ AllTerms(prevGroups[1]) = <<>>
     \/ /\ Len(prevGroups) = 1 /\ Len(nextGroups) = 1
        /\ LET p == AllTerms(prevGroups[1])
           IN  \A i \in DOMAIN p : TermImplied(p[i], AllTerms(nextGroups[1]))
==============================================================================
