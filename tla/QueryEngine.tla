----------------------------- MODULE QueryEngine -----------------------------
(***************************************************************************)
(* Queries against the live indexes of several volumes (fmf-core,          *)
(* engine/search.rs and engine/results.rs over query/).  A query compiles  *)
(* its text (or takes the last compilation), captures the matching ids of  *)
(* one ready volume after another under that volume's read lock, and       *)
(* merges them under all the read locks together.  Between these steps the *)
(* volume workers apply batches and replace whole indexes.                 *)
(*                                                                         *)
(* Four caches make this fast and must not make it wrong: the compile      *)
(* cache, each volume's last result (refined when the next query provably  *)
(* narrows it), and the lazily derived permutations and topology.          *)
(*                                                                         *)
(* A row's uid names the directory link it stands for; the code has no     *)
(* such field, the properties use it to tell what an EntryId denotes.      *)
(***************************************************************************)
EXTENDS QueryExec


CONSTANTS
  Volumes,       \* the registry's volumes, in order
  InitialRows,   \* volume -> the rows its first index is built from
  Clients,
  Settings,      \* what the engine is tried in, see setting
  NewRows,       \* rows a batch may append
  NewNames,      \* names a directory may be renamed to
  NewSizes,      \* sizes a stat update may set
  MaxQueries,    \* bound on the queries issued
  MaxPageRows

Vols == Range(Volumes)

\* A row; what its uid is made of differs.
RowOf(uids) ==
  [uid : uids, name : Seq(DOMAIN Rank), parent : Nat, dir : BOOLEAN, live : BOOLEAN,
   excl : BOOLEAN, size : Int, at : Int, mtime : Int]
RowType == RowOf(STRING \X Nat)

\* Every live row is under a live directory.
Rooted(rows) ==
  \A id \in DOMAIN rows : rows[id].live =>
    /\ rows[id].parent \in DOMAIN rows
    /\ rows[rows[id].parent].live /\ rows[rows[id].parent].dir

\* Characters are told apart by their bytes, the registry holds a volume once, and an
\* index is built from a forest (FinishStrict of the index builder).
ASSUME QueryAssumption ==
  /\ Fold \in [DOMAIN Rank -> DOMAIN Rank]
  /\ Rank \in [DOMAIN Rank -> Int]
  /\ \A a, b \in DOMAIN Rank : Rank[a] = Rank[b] => a = b
  /\ Volumes \in Seq(Vols)
  /\ \A i, j \in DOMAIN Volumes : Volumes[i] = Volumes[j] => i = j
  /\ InitialRows \in [Vols -> Seq(RowType)]
  /\ \A v \in Vols : Rooted(InitialRows[v])
  /\ NewRows \subseteq RowOf(STRING)
  /\ NewNames \subseteq Seq(DOMAIN Rank)
  /\ NewSizes \subseteq Int
  /\ MaxPageRows \in Nat
  /\ \A s \in Settings :
       /\ s.volumes \subseteq Vols
       /\ \A q \in s.queries : q.sort \in {"name", "size", "mtime"} /\ q.desc \in BOOLEAN

VARIABLES
  setting,    \* the volumes that are there, the queries clients issue, and
              \* bounds: maxBatches on batches and index replacements, maxClients
              \* on the clients at work.  Nothing changes it.
  idx,        \* volume -> its index
  ready,      \* volume -> phase is Ready
  derived,    \* volume -> derived_cache
  last,       \* volume -> last_query, <<>> or <<cache>>
  compiled,   \* compile_cache, <<>> or <<[q, groups]>>
  running,    \* client -> the query_cancellable call in progress
  result,     \* client -> its result handle, <<>> or <<ResultSet>>
  batches, asked

queryVars == <<setting, idx, ready, derived, last, compiled, running, result, batches, asked>>

----------------------------------------------------------------------------
(***************************************************************************)
(* Indexes and their changes.  Every batch bumps the content generation; a *)
(* stat change and a directory rename bump their own generation too; a     *)
(* replacement starts over with the next structural generation.            *)
(***************************************************************************)
NewIndex(rows, structural) ==
  LET i == [rows |-> rows, perm |-> <<>>, content |-> 0, structural |-> structural,
            stat |-> 0, topo |-> 0]
  IN  [i EXCEPT !.perm = SortIds(i, "name", DOMAIN rows)]

NoDerived == [size |-> <<>>, mtime |-> <<>>, topo |-> <<>>]
EmptyCache == [gen |-> 0, cur |-> NoDerived, prev |-> NoDerived]

Idle == [phase |-> "idle", q |-> <<>>, groups |-> <<>>, todo |-> <<>>, got |-> <<>>]

\* merge_new_into_permutations: the appended tail joins the name order.
MergeTail(i) ==
  [i EXCEPT !.perm = MergeRuns(i, "name", i.perm,
                               SortIds(i, "name", (Len(i.perm) + 1)..Len(i.rows))),
            !.content = @ + 1]

Batch(v, i) ==
  /\ batches < setting.maxBatches
  /\ batches' = batches + 1
  /\ idx' = [idx EXCEPT ![v] = MergeTail(i)]
  /\ UNCHANGED <<setting, ready, derived, last, compiled, running, result, asked>>

AppendRow(v, row) ==
  /\ row.parent \in DOMAIN idx[v].rows
  /\ idx[v].rows[row.parent].dir /\ idx[v].rows[row.parent].live
  /\ Batch(v, [idx[v] EXCEPT !.rows =
                 Append(@, [row EXCEPT !.uid = <<row.uid, batches>>])])

DeleteRow(v, id) ==
  /\ id # Root /\ idx[v].rows[id].live /\ ~idx[v].rows[id].dir
  /\ Batch(v, [idx[v] EXCEPT !.rows[id].live = FALSE])

UpdateStat(v, id, size) ==
  /\ idx[v].rows[id].live /\ idx[v].rows[id].size # size
  /\ Batch(v, [idx[v] EXCEPT !.rows[id].size = size, !.stat = @ + 1])

\* A directory keeps its EntryId: its name is swapped, its place in the name
\* order found anew, and the paths below it change.
RenameDir(v, id, name) ==
  /\ id # Root /\ idx[v].rows[id].live /\ idx[v].rows[id].dir
  /\ LET i    == [idx[v] EXCEPT !.rows[id].name = name, !.topo = @ + 1]
         rest == Filter(i.perm, DOMAIN i.rows \ {id})
         at   == Cardinality({x \in Range(rest) : Less(i, "name", x, id)}) + 1
     IN  Batch(v, [i EXCEPT !.perm = InsertAt(rest, at, id)])

\* Compaction or a rescan: the live rows, renumbered, in a fresh index.
Survivors(i) ==
  LET ids == Filter([k \in DOMAIN i.rows |-> k], {k \in DOMAIN i.rows : i.rows[k].live})
      new == [k \in Range(ids) |-> Cardinality({j \in Range(ids) : j <= k})]
  IN  [k \in DOMAIN ids |-> [i.rows[ids[k]] EXCEPT !.parent = new[@]]]

InstallIndex(v) ==
  /\ batches < setting.maxBatches
  /\ batches' = batches + 1
  /\ idx' = [idx EXCEPT ![v] = NewIndex(Survivors(@), @.structural + 1)]
  /\ derived' = [derived EXCEPT ![v] = EmptyCache]
  /\ last' = [last EXCEPT ![v] = <<>>]
  /\ UNCHANGED <<setting, ready, compiled, running, result, asked>>

\* A worker leaves Ready for a rescan and comes back.
SetPhase(v) ==
  /\ batches < setting.maxBatches
  /\ batches' = batches + 1
  /\ ready' = [ready EXCEPT ![v] = ~@]
  /\ UNCHANGED <<setting, idx, derived, last, compiled, running, result, asked>>

----------------------------------------------------------------------------
(***************************************************************************)
(* cached_derived_or_try_update: the value of one kind, extended from the  *)
(* value of this generation or the one before when that is not current.    *)
(***************************************************************************)
Rotate(v) ==
  LET c == derived[v]
  IN  IF c.gen = idx[v].content THEN c
      ELSE [gen |-> idx[v].content, cur |-> NoDerived, prev |-> c.cur]

IsCurrent(v, key, value) ==
  IF key = "topo" THEN TopologyIsCurrent(idx[v], value) ELSE PermIsCurrent(idx[v], value)

Derive(v, key, from) ==
  CASE key = "topo" /\ from = <<>> -> BuildTopology(idx[v])
    [] key = "topo" /\ from # <<>> -> ExtendTopology(idx[v], from[1])
    [] key # "topo" /\ from = <<>> -> BuildPerm(idx[v], key)
    [] key # "topo" /\ from # <<>> -> ExtendPerm(idx[v], key, from[1])

CachedDerived(v, c, key) ==
  LET from == IF c.cur[key] # <<>> THEN c.cur[key] ELSE c.prev[key]
  IN  IF c.cur[key] # <<>> /\ IsCurrent(v, key, c.cur[key][1]) THEN c
      ELSE [c EXCEPT !.cur[key] = <<Derive(v, key, from)>>, !.prev[key] = <<>>]

----------------------------------------------------------------------------
(***************************************************************************)
(* query_cancellable.                                                      *)
(***************************************************************************)
QueryInit ==
  /\ setting \in Settings
  /\ idx = [v \in Vols |-> NewIndex(InitialRows[v], 0)]
  /\ ready = [v \in Vols |-> v \in setting.volumes]
  /\ derived = [v \in Vols |-> EmptyCache]
  /\ last = [v \in Vols |-> <<>>]
  /\ compiled = <<>>
  /\ running = [c \in Clients |-> Idle]
  /\ result = [c \in Clients |-> <<>>]
  /\ batches = 0 /\ asked = 0

\* The last compilation is reused for the same text and options.
CompileCached(q) ==
  IF compiled # <<>> /\ compiled[1].q = q THEN [ok |-> TRUE, groups |-> compiled[1].groups]
  ELSE Compile(q)

\* Bound: the clients with a call or a result.
Busy == {c \in Clients : running[c] # Idle \/ result[c] # <<>>}

StartCompiled(c, q, plan) ==
  /\ running[c].phase = "idle" /\ asked < MaxQueries
  /\ Cardinality(Busy \cup {c}) <= setting.maxClients
  /\ asked' = asked + 1
  /\ compiled' = IF plan.ok THEN <<[q |-> q, groups |-> plan.groups]>> ELSE compiled
  /\ running' = IF plan.ok
                THEN [running EXCEPT ![c] =
                        [phase |-> "capture", q |-> q, groups |-> plan.groups, got |-> <<>>,
                         todo |-> Filter(Volumes, {v \in Vols : ready[v]})]]
                ELSE running
  /\ UNCHANGED <<setting, idx, ready, derived, last, result, batches>>
Start(c, q) == StartCompiled(c, q, CompileCached(q))

\* Mutant: cached ids are trusted until the index is replaced.
ReusableAcrossBatches(v, q, groups) ==
  /\ last[v] # <<>>
  /\ last[v][1].structural = idx[v].structural
  /\ Subsumes(last[v][1].groups, last[v][1].q, groups, q)

\* The cached ids of the volume's last query, when both generations hold and
\* it provably contains the new one.
Reusable(v, q, groups) ==
  /\ last[v] # <<>>
  /\ last[v][1].content = idx[v].content
  /\ last[v][1].structural = idx[v].structural
  /\ Subsumes(last[v][1].groups, last[v][1].q, groups, q)

Capture(c) ==
  LET k      == running[c]
      v      == Head(k.todo)
      reuse  == Reusable(v, k.q, k.groups)
      paths  == NeedsPaths(k.groups)
      sorted == ~reuse /\ k.q.sort # "name"
      d0     == IF paths \/ sorted THEN Rotate(v) ELSE derived[v]
      d1     == IF paths THEN CachedDerived(v, d0, "topo") ELSE d0
      d2     == IF sorted THEN CachedDerived(v, d1, k.q.sort) ELSE d1
      topo   == IF paths THEN d2.cur.topo[1].parents ELSE <<>>
      perm   == IF sorted THEN d2.cur[k.q.sort][1].ids ELSE idx[v].perm
      ids    == IF reuse THEN Refine(idx[v], topo, k.groups, k.q, last[v][1].ids)
                ELSE Search(idx[v], perm, topo, k.groups, k.q)
  IN  /\ k.phase = "capture" /\ k.todo # <<>>
      /\ derived' = [derived EXCEPT ![v] = d2]
      /\ running' = [running EXCEPT ![c].todo = Tail(@),
                    ![c].got = Append(@, [v |-> v, q |-> k.q, groups |-> k.groups, ids |-> ids,
                                          uids |-> [i \in DOMAIN ids |-> idx[v].rows[ids[i]].uid],
                                          content |-> idx[v].content,
                                          structural |-> idx[v].structural])]
      /\ UNCHANGED <<setting, idx, ready, last, compiled, result, batches, asked>>

\* cmp_entries: across volumes the key alone decides.
EntryBefore(a, b, q) ==
  LET ra == idx[a.v].rows[a.id]
      rb == idx[b.v].rows[b.id]
  IN  IF q.desc THEN KeyBefore(q.sort, rb, ra) ELSE KeyBefore(q.sort, ra, rb)

\* Mutant: volumes are listed one after another.
ConcatVolumes(got, q) ==
  FlattenSeq([g \in DOMAIN got |->
                [k \in DOMAIN got[g].ids |-> [v |-> got[g].v, id |-> got[g].ids[k]]]])

\* The k-way merge: the least head, the earlier volume among equals.
EntryAt(got, g, k) == [v |-> got[g].v, id |-> got[g].ids[k]]
LeastHead(got, q, cur) ==
  LET open    == {g \in DOMAIN got : cur[g] <= Len(got[g].ids)}
      head(g) == EntryAt(got, g, cur[g])
  IN  CHOOSE g \in open : \A h \in open \ {g} :
        IF h < g THEN EntryBefore(head(g), head(h), q) ELSE ~EntryBefore(head(h), head(g), q)

MergeVolumes(got, q) ==
  LET total == Cardinality(UNION {{g} \X DOMAIN got[g].ids : g \in DOMAIN got})
      take(m, g) == [rows |-> Append(m.rows, EntryAt(got, g, m.cur[g])),
                     cur  |-> [m.cur EXCEPT ![g] = @ + 1]]
      merged[n \in 0..total] ==
        IF n = 0 THEN [rows |-> <<>>, cur |-> [g \in DOMAIN got |-> 1]]
        ELSE LET m == merged[n - 1] IN take(m, LeastHead(got, q, m.cur))
  IN  merged[total].rows

\* is_current and same_ordered_ids: the presentation identity of two results.
ResultIsCurrent(r) ==
  \A k \in DOMAIN r.vols : idx[r.vols[k]].structural = r.structural[k]
\* Mutant: as many rows as before.
SameCount(r, basis) ==
  ResultIsCurrent(r) /\ ResultIsCurrent(basis) /\ Len(r.rows) = Len(basis.rows)
SameOrderedIds(r, basis) ==
  /\ ResultIsCurrent(r) /\ ResultIsCurrent(basis)
  /\ r.vols = basis.vols
  /\ r.rows = basis.rows

\* One volume is copied; several are merged, unless an index was replaced.
MergeIsStale(got) ==
  Len(got) # 1 /\ \E k \in DOMAIN got : idx[got[k].v].structural # got[k].structural

Fail(c) == running' = [running EXCEPT ![c] = Idle]

Finish(c) ==
  LET k    == running[c]
      rows == IF Len(k.got) = 1 THEN [i \in DOMAIN k.got[1].ids |->
                                        [v |-> k.got[1].v, id |-> k.got[1].ids[i]]]
              ELSE MergeVolumes(k.got, k.q)
      res  == [vols |-> [i \in DOMAIN k.got |-> k.got[i].v],
               structural |-> [i \in DOMAIN k.got |-> k.got[i].structural],
               rows |-> rows]
  IN  /\ k.phase = "capture" /\ k.todo = <<>> /\ ~MergeIsStale(k.got)
      /\ result' = [result EXCEPT ![c] =
                      <<[r |-> res, unchanged |-> /\ result[c] # <<>>
                                                  /\ SameOrderedIds(res, result[c][1].r),
                         got |-> k.got, q |-> k.q]>>]
      /\ last' = [v \in Vols |->
                    IF \E i \in DOMAIN k.got : k.got[i].v = v
                    THEN <<k.got[CHOOSE i \in DOMAIN k.got : k.got[i].v = v]>>
                    ELSE last[v]]
      /\ Fail(c)
      /\ UNCHANGED <<setting, idx, ready, derived, compiled, batches, asked>>

FinishStale(c) ==
  /\ running[c].phase = "capture" /\ running[c].todo = <<>> /\ MergeIsStale(running[c].got)
  /\ Fail(c)
  /\ UNCHANGED <<setting, idx, ready, derived, last, compiled, result, batches, asked>>

\* The cancellation token is polled throughout; nothing captured is published.
Cancel(c) ==
  /\ running[c].phase = "capture"
  /\ Fail(c)
  /\ UNCHANGED <<setting, idx, ready, derived, last, compiled, result, batches, asked>>

\* The client releases its handle.
Free(c) ==
  /\ result[c] # <<>>
  /\ result' = [result EXCEPT ![c] = <<>>]
  /\ UNCHANGED <<setting, idx, ready, derived, last, compiled, running, batches, asked>>

\* Mutant: ids are looked up without comparing structural generations.
FillPageUnchecked(r, offset, count) ==
  LET end  == Min({offset + count, Len(r.rows)})
      page == SubSeq(r.rows, Min({offset, end}) + 1, end)
  IN  IF \/ count > MaxPageRows
         \/ \E i \in DOMAIN page :
              \/ page[i].id \notin DOMAIN idx[page[i].v].rows
              \/ ~idx[page[i].v].rows[page[i].id].live
      THEN [ok |-> FALSE, rows |-> <<>>]
      ELSE [ok |-> TRUE, rows |-> page]

\* fill_page: rows [offset, offset + count), or an error and no row.
FillPage(r, offset, count) ==
  LET end  == Min({offset + count, Len(r.rows)})
      page == SubSeq(r.rows, Min({offset, end}) + 1, end)
  IN  IF \/ count > MaxPageRows
         \/ ~ResultIsCurrent(r)
         \/ \E i \in DOMAIN page : ~idx[page[i].v].rows[page[i].id].live
      THEN [ok |-> FALSE, rows |-> <<>>]
      ELSE [ok |-> TRUE, rows |-> page]

QueryNext ==
  \/ \E v \in setting.volumes :
       \/ \E row \in NewRows : AppendRow(v, row)
       \/ \E id \in DOMAIN idx[v].rows :
            \/ DeleteRow(v, id)
            \/ \E size \in NewSizes : UpdateStat(v, id, size)
            \/ \E name \in NewNames : RenameDir(v, id, name)
       \/ InstallIndex(v)
       \/ SetPhase(v)
  \/ \E c \in Clients :
       \/ \E q \in setting.queries : Start(c, q)
       \/ Capture(c) \/ Finish(c) \/ FinishStale(c) \/ Cancel(c) \/ Free(c)

QuerySpec == QueryInit /\ [][QueryNext]_queryVars

----------------------------------------------------------------------------
(***************************************************************************)
(* What a query means, stated on the text and the rows alone: no driver,   *)
(* no plan, no cache, no day-number arithmetic of the code.                *)
(***************************************************************************)
\* Literals compare folded names when the search ignores case, and canonical
\* views when some other spelling could be the same text.
RefView(x, s, q) ==
  LET ins == q.case = "insensitive" \/ (q.case = "smart" /\ ~HasUppercase(Nfc(s)))
      targets == {Singleton[c] : c \in DOMAIN Singleton \ Ascii}
      canon == \E c \in Range(s) :
                 \/ c \notin Ascii
                 \/ c \in targets
                 \/ ins /\ \E t \in targets : Fold[t] = Fold[c]
  IN  IF canon THEN NormalizeStr(x, ins) ELSE IF ins THEN FoldStr(x) ELSE x

RefGlob(pattern, text, anchored) ==
  RegexIsMatch([Matcher("NameRegex") EXCEPT !.bytes = pattern, !.anchored = anchored], text)

RefPath(i, id) ==
  PathThrough(i, [k \in DOMAIN i.rows |-> i.rows[k].parent], id)

\* Days since 1601-01-01 by counting leap years and month lengths.
RefDay(y, m, d) ==
  LET before == <<0, 31, 59, 90, 120, 151, 181, 212, 243, 273, 304, 334>>
      leaps(n) == n \div 4 - n \div 100 + n \div 400
      leap == leaps(y) > leaps(y - 1)
  IN  365 * (y - 1601) + leaps(y - 1) - leaps(1600) + before[m] + d - 1
        + IF leap /\ m > 2 THEN 1 ELSE 0
RefPeriod(p) ==   \* <<first day, first day after>>
  CASE Len(p) = 1 -> <<RefDay(p[1], 1, 1), RefDay(p[1] + 1, 1, 1)>>
    [] Len(p) = 2 -> <<RefDay(p[1], p[2], 1),
                       IF p[2] = 12 THEN RefDay(p[1] + 1, 1, 1) ELSE RefDay(p[1], p[2] + 1, 1)>>
    [] Len(p) = 3 -> <<RefDay(p[1], p[2], p[3]), RefDay(p[1], p[2], p[3]) + 1>>
RefInRange(n, op, a, b) ==   \* a and b are <<first, past>>
  CASE op = ".." -> n >= a[1] /\ n < b[2]
    [] op = ">=" -> n >= a[1]
    [] op = "<=" -> n < a[2]
    [] op = ">"  -> n >= a[2]
    [] op = "<"  -> n < a[1]
    [] op = "="  -> n >= a[1] /\ n < a[2]

RefText(i, q, s, id) ==   \* an atom without a field
  IF "\\" \in Range(s)
  THEN RefGlob(RefView(s, s, q), RefView(RefPath(i, id), s, q), FALSE)
  ELSE RefGlob(RefView(s, s, q), RefView(i.rows[id].name, s, q), HasWildcard(s))

RefAtom(i, q, t, id) ==
  LET row == i.rows[id]
      ext == [case |-> "insensitive"]
  IN  CASE t.field = "none"   -> RefText(i, q, t.value, id)
        [] t.field = "path"   ->
             RefGlob(RefView(t.value, t.value, q), RefView(RefPath(i, id), t.value, q), FALSE)
        [] t.field \in {"file", "folder"} ->
             row.dir = (t.field = "folder") /\ RefText(i, q, t.value, id)
        [] t.field = "regex"  ->
             RegexIsMatch([Matcher("NameRegex") EXCEPT !.bytes = t.value,
                             !.folded = RegexInsensitive(t.value, q.case)], row.name)
        [] t.field = "ext"    ->
             LET all == FlattenSeq(t.value)
                 view(x) == RefView(x, all, ext)
             IN  /\ ~row.dir /\ "." \in Range(row.name)
                 /\ \E k \in DOMAIN t.value :
                      view(t.value[k]) = Extension(view(row.name))
        [] t.field = "size"   ->
             ~row.dir /\ RefInRange(row.size, t.value.op, <<t.value.a, t.value.a + 1>>,
                                    <<t.value.b, t.value.b + 1>>)
        [] t.field = "dm"     ->
             RefInRange((row.at + Zone) \div TicksPerDay, t.value.op,
                        RefPeriod(t.value.a), RefPeriod(t.value.b))

RefMatches(i, q, id) ==
  LET atoms == [k \in DOMAIN q.text |-> q.text[k].field]
      ors   == {k \in DOMAIN atoms : atoms[k] = "or"}
      ends(a) == Min({k \in ors : k > a} \cup {Len(atoms) + 1})
  IN  IF q.regex # "off"
      THEN RegexIsMatch([Matcher("NameRegex") EXCEPT !.bytes = q.text[1].value,
                           !.folded = RegexInsensitive(q.text[1].value, q.case)],
                        IF q.regex = "name" THEN i.rows[id].name ELSE RefPath(i, id))
      ELSE \E a \in ors \cup {0} : \A k \in (a + 1)..(ends(a) - 1) :
             \/ atoms[k] = "empty"
             \/ RefAtom(i, q, q.text[k], id) # (q.text[k].bangs % 2 = 1)

RefIds(i, q) ==
  LET ids == SortIds(i, q.sort, {id \in DOMAIN i.rows :
                                   Shown(i, q.hidden, id) /\ RefMatches(i, q, id)})
  IN  IF q.desc THEN Reverse(ids) ELSE ids

----------------------------------------------------------------------------
(***************************************************************************)
(* Properties.                                                             *)
(***************************************************************************)
\* Ids stamped with a volume's present generations, whether a query in
\* progress captured them or the refinement cache keeps them, are exactly the
\* rows the query text means, in the requested order: sweeping, case-exact
\* and canonical drivers, prefilters, refinement of a cached result and stale
\* permutations or topologies never lose, add or misplace a row.
ExactAnswers ==
  \A g \in UNION {Range(running[c].got) : c \in Clients}
             \cup UNION {Range(last[v]) : v \in Vols} :
    /\ g.content = idx[g.v].content
    /\ g.structural = idx[g.v].structural
    => g.ids = RefIds(idx[g.v], g.q)

\* A result is an interleaving of what its volumes contributed, and while no
\* volume has changed since, it is in the requested order across volumes.
MergedInOrder ==
  \A c \in Clients : \A h \in Range(result[c]) :
    /\ \A g \in Range(h.got) :
         Filter(h.r.rows, [v : {g.v}, id : Nat]) = [k \in DOMAIN g.ids |-> [v |-> g.v, id |-> g.ids[k]]]
    /\ (\A g \in Range(h.got) : /\ g.content = idx[g.v].content
                                /\ g.structural = idx[g.v].structural)
       => \A i, j \in DOMAIN h.r.rows : i < j => ~EntryBefore(h.r.rows[j], h.r.rows[i], h.q)

\* The link each row of a result stood for when it was captured.
Uids(h) ==
  LET of(x) == LET g == CHOOSE g \in Range(h.got) : g.v = x.v
               IN  g.uids[CHOOSE k \in DOMAIN g.ids : g.ids[k] = x.id]
  IN  [k \in DOMAIN h.r.rows |-> of(h.r.rows[k])]

\* A page that is served shows, row for row, the links the query captured:
\* compaction and rescans renumber ids, and a page over them is refused.
PagesShowCaptured ==
  \A c \in Clients : \A h \in Range(result[c]) :
    \A offset \in 0..(Len(h.r.rows) + 1), count \in 0..(MaxPageRows + 1) :
      LET p == FillPage(h.r, offset, count)
      IN  p.ok => /\ Len(p.rows) <= MaxPageRows
                  /\ \A k \in DOMAIN p.rows :
                       idx[p.rows[k].v].rows[p.rows[k].id].uid = Uids(h)[offset + k]

\* A result reported as unchanged lists the same links in the same order as
\* the result the client already shows.
UnchangedIsSame ==
  [][\A c \in Clients :
       (result'[c] # result[c] /\ result'[c] # <<>>) =>
         (result'[c][1].unchanged =>
            result[c] # <<>> /\ Uids(result'[c][1]) = Uids(result[c][1]))]_queryVars
==============================================================================
