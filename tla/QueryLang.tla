------------------------------ MODULE QueryLang ------------------------------
(***************************************************************************)
(* The query language of fmf-core (query/): from query text to an          *)
(* execution plan, and the plan's evaluation on one volume's rows.         *)
(*                                                                         *)
(* A name, a needle or a pattern is a sequence of characters.  UTF-8 and   *)
(* WTF-8 are self-synchronizing, so byte containment of valid needles is   *)
(* containment of characters.  What Unicode says of a character is given   *)
(* by constants: its storage fold, its regex case class, its canonical     *)
(* singleton, the pairs that compose, its encoded width.                   *)
(*                                                                         *)
(* Query text is a sequence of tokens [field, bangs, value]: "or" is |,    *)
(* "none" is an atom without a field, "empty" is a bare !.  Splitting text *)
(* at blanks and quotes is the only part of the parser left out.           *)
(***************************************************************************)
EXTENDS Integers, Sequences, FiniteSets, SequencesExt, FiniteSetsExt


CONSTANTS
  Ascii,          \* the characters below 0x80
  Fold,           \* character -> the lower case of the same width, or itself
  CaseClass,      \* character -> its class under the regex crate's (?i)
  Singleton,      \* character -> its canonical singleton decomposition
  Compose,        \* <<base, mark>> -> the composed character
  Width,          \* character -> its bytes
  Rank,           \* character -> its place in byte order
  MaxSize,        \* u64::MAX
  MaxGroups, MaxTerms, MaxRegexTerms,
  TicksPerDay,    \* FILETIME resolution
  MaxSecs,        \* u32::MAX seconds after 1970, in ticks
  Zone            \* ticks from a local midnight to the UTC one before it

\* The elements of s that are in keep, in their order.
Filter(s, keep) ==
  LET at     == {i \in DOMAIN s : s[i] \in keep}
      before == [i \in at |-> Cardinality({j \in at : j < i})]
  IN  [k \in 1..Cardinality(at) |-> s[CHOOSE i \in at : before[i] = k - 1]]

----------------------------------------------------------------------------
(***************************************************************************)
(* wtf8.rs: folding and canonical views.                                   *)
(***************************************************************************)
IsAscii(s) == \A i \in DOMAIN s : s[i] \in Ascii
FoldStr(s) == [i \in DOMAIN s |-> Fold[s[i]]]
HasUppercase(s) == FoldStr(s) # s
ByteLen(s) == FoldLeft(LAMBDA n, c : n + Width[c], 0, s)

\* NFC: singletons decompose, then a base and the mark after it compose.
Nfc(s) ==
  FoldLeft(LAMBDA out, c :
             IF out # <<>> /\ <<Last(out), c>> \in DOMAIN Compose
             THEN Append(Front(out), Compose[<<Last(out), c>>])
             ELSE Append(out, Singleton[c]),
           <<>>, s)

\* Case folding may leave a decomposed sequence, hence the second pass.
NormalizeStr(s, folded) == IF folded THEN Nfc(FoldStr(Nfc(s))) ELSE Nfc(s)

Occurs(needle, hay) ==
  \E i \in 0..(Len(hay) - Len(needle)) :
     SubSeq(hay, i + 1, i + Len(needle)) = needle

----------------------------------------------------------------------------
(***************************************************************************)
(* dates.rs: civil dates <<y, m, d>> and FILETIME ticks.                   *)
(***************************************************************************)
DaysInMonth(y, m) ==
  IF m \in {1, 3, 5, 7, 8, 10, 12} THEN 31
  ELSE IF m \in {4, 6, 9, 11} THEN 30
  ELSE IF m # 2 THEN 0
  ELSE IF (y % 4 = 0 /\ y % 100 # 0) \/ y % 400 = 0 THEN 29 ELSE 28

IsValid(c) ==
  /\ c[1] \in 1601..9999
  /\ c[2] \in 1..12
  /\ c[3] \in 1..DaysInMonth(c[1], c[2])

DaysFromCivil(c) ==
  LET y   == IF c[2] <= 2 THEN c[1] - 1 ELSE c[1]
      era == y \div 400
      yoe == y - era * 400
      doy == (153 * ((c[2] + 9) % 12) + 2) \div 5 + c[3] - 1
      doe == yoe * 365 + yoe \div 4 - yoe \div 100 + doy
  IN  era * 146097 + doe - 719468

CivilFromDays(days) ==
  LET z   == days + 719468
      era == z \div 146097
      doe == z - era * 146097
      yoe == (doe - doe \div 1460 + doe \div 36524 - doe \div 146096) \div 365
      doy == doe - (365 * yoe + yoe \div 4 - yoe \div 100)
      mp  == (5 * doy + 2) \div 153
      m   == IF mp < 10 THEN mp + 3 ELSE mp - 9
      y   == yoe + era * 400
  IN  <<IF m <= 2 THEN y + 1 ELSE y, m, doy - (153 * mp + 2) \div 5 + 1>>

NextDay(c) == CivilFromDays(DaysFromCivil(c) + 1)
FirstOfNextMonth(c) ==
  IF c[2] = 12 THEN <<c[1] + 1, 1, 1>> ELSE <<c[1], c[2] + 1, 1>>

\* Days from 1601-01-01 to 1970-01-01.
UnixEpoch == 134774 * TicksPerDay
FiletimeAtMidnight(c) == UnixEpoch + DaysFromCivil(c) * TicksPerDay - Zone

\* The mtime column: seconds after 1970, 0 for unknown or earlier, saturating.
MtimeTicksToSecs(t) ==
  IF t < UnixEpoch THEN 0
  ELSE IF t - UnixEpoch > MaxSecs THEN MaxSecs ELSE t - UnixEpoch
MtimeSecsToTicks(s) == IF s = 0 THEN 0 ELSE UnixEpoch + s

----------------------------------------------------------------------------
(***************************************************************************)
(* ast.rs: tokens to terms.  A term is [kind, neg, s, exts, lo, hi, dir];  *)
(* s is the text, exts the extensions, lo and hi a range, and NoBound an   *)
(* open end.  Err is every ParseError.                                     *)
(***************************************************************************)
NoBound == <<>>
Err == [ok |-> FALSE, terms |-> <<>>]
Term(kind) ==
  [kind |-> kind, neg |-> FALSE, s |-> <<>>, exts |-> <<>>,
   lo |-> NoBound, hi |-> NoBound, dir |-> FALSE]

HasWildcard(s) == \E i \in DOMAIN s : s[i] \in {"*", "?"}

NameOrPathTerm(s) ==
  LET pathy == "\\" \in Range(s)
  IN  [Term(IF pathy THEN IF HasWildcard(s) THEN "PathWildcard" ELSE "Path"
                     ELSE IF HasWildcard(s) THEN "Wildcard" ELSE "Name")
       EXCEPT !.s = s]

\* size:VALUE with v = [op, a, b]: inclusive byte ranges; >MAX and <0 are
\* errors, and so is an amount over u64.
ParseSizeRange(v) ==
  LET fits(n) == n \in 0..MaxSize
      range(lo, hi) == [ok |-> TRUE,
                        terms |-> <<[Term("Size") EXCEPT !.lo = <<lo>>, !.hi = <<hi>>]>>]
  IN  IF ~fits(v.a) THEN Err
      ELSE CASE v.op = ".." -> IF fits(v.b) THEN range(v.a, v.b) ELSE Err
             [] v.op = ">=" -> range(v.a, MaxSize)
             [] v.op = "<=" -> range(0, v.a)
             [] v.op = ">"  -> IF v.a < MaxSize THEN range(v.a + 1, MaxSize) ELSE Err
             [] v.op = "<"  -> IF v.a > 0 THEN range(0, v.a - 1) ELSE Err
             [] v.op = "="  -> range(v.a, v.a)

\* A period <<y>>, <<y, m>> or <<y, m, d>> as <<start, end>>, or <<>>.
ParseDatePeriod(p) ==
  LET start == <<p[1], IF Len(p) > 1 THEN p[2] ELSE 1, IF Len(p) > 2 THEN p[3] ELSE 1>>
      end   == CASE Len(p) = 1 -> <<p[1] + 1, 1, 1>>
                 [] Len(p) = 2 -> FirstOfNextMonth(start)
                 [] OTHER      -> NextDay(start)
  IN  IF \/ Len(p) \notin 1..3
         \/ p[1] \notin 1601..9999
         \/ ~IsValid(start)
         \/ Len(p) = 1 /\ ~IsValid(end)
      THEN <<>> ELSE <<start, end>>

\* dm:VALUE, half-open at local midnights; a and b are the periods named.
DateRange(op, a, b) ==
  LET range(lo, hi) ==
        [ok |-> TRUE, terms |-> <<[Term("Mtime") EXCEPT !.lo = lo, !.hi = hi]>>]
  IN  IF a = <<>> \/ (op = ".." /\ b = <<>>) THEN Err
      ELSE CASE op = ".." -> range(a[1], b[2])
             [] op = ">=" -> range(a[1], NoBound)
             [] op = "<=" -> range(NoBound, a[2])
             [] op = ">"  -> range(a[2], NoBound)
             [] op = "<"  -> range(NoBound, a[1])
             [] op = "="  -> range(a[1], a[2])
ParseDateRange(v) == DateRange(v.op, ParseDatePeriod(v.a), ParseDatePeriod(v.b))

\* folder:foo is two terms, and refuses a negation.
TermsFromAtom(t) ==
  LET negated == t.bangs % 2 = 1
      wrap(r) == IF r.ok /\ negated
                 THEN [r EXCEPT !.terms = [i \in DOMAIN @ |-> [@[i] EXCEPT !.neg = TRUE]]]
                 ELSE r
      one(term) == wrap([ok |-> TRUE, terms |-> <<term>>])
      isDir == [Term("IsDir") EXCEPT !.dir = t.field = "folder"]
  IN  CASE t.field = "ext"   -> one([Term("Ext") EXCEPT !.exts = t.value])
        [] t.field = "path"  -> one([Term(IF HasWildcard(t.value) THEN "PathWildcard"
                                                                  ELSE "Path")
                                     EXCEPT !.s = t.value])
        [] t.field = "size"  -> wrap(ParseSizeRange(t.value))
        [] t.field = "dm"    -> wrap(ParseDateRange(t.value))
        [] t.field = "regex" -> one([Term("Regex") EXCEPT !.s = t.value])
        [] t.field \in {"file", "folder"} ->
             IF t.value = <<>> THEN one(isDir)
             ELSE IF negated THEN Err
             ELSE [ok |-> TRUE, terms |-> <<isDir, NameOrPathTerm(t.value)>>]
        [] t.field = "none"  -> one(NameOrPathTerm(t.value))

\* The groups with what an atom parsed to, within the limits of the contract.
WithTerms(r, groups) ==
  LET terms == FlattenSeq(groups)
  IN  [ok |-> /\ r.ok /\ Len(terms) <= MaxTerms
              /\ Len(SelectSeq(terms, LAMBDA t : t.kind = "Regex")) <= MaxRegexTerms,
       groups |-> groups]
AddAtom(groups, r) == WithTerms(r, [groups EXCEPT ![Len(groups)] = @ \o r.terms])

\* OR of AND groups.
Parse(text) ==
  LET step(acc, t) ==
        IF ~acc.ok THEN acc
        ELSE IF t.field = "or"
        THEN IF Len(acc.groups) >= MaxGroups THEN [acc EXCEPT !.ok = FALSE]
             ELSE [acc EXCEPT !.groups = Append(@, <<>>)]
        ELSE IF t.field = "empty" THEN acc
        ELSE AddAtom(acc.groups, TermsFromAtom(t))
  IN  FoldLeft(step, [ok |-> TRUE, groups |-> <<<<>>>>], text)

----------------------------------------------------------------------------
(***************************************************************************)
(* compile.rs: terms to matchers.  A matcher is a record of one shape;     *)
(* bytes is the needle or the pattern, folded the folded pool (or (?i)),   *)
(* canonical the NFC view, anchored a whole-name pattern.                  *)
(***************************************************************************)
Matcher(kind) ==
  [kind |-> kind, bytes |-> <<>>, folded |-> FALSE, canonical |-> FALSE,
   anchored |-> FALSE, exts |-> <<>>, lo |-> 0, hi |-> 0, dir |-> FALSE]

RegexInsensitive(s, mode) ==
  mode = "insensitive" \/ (mode = "smart" /\ ~HasUppercase(s))

LiteralInsensitive(s, mode) ==
  \/ mode = "insensitive"
  \/ mode = "smart" /\ ~HasUppercase(IF IsAscii(s) THEN s ELSE NormalizeStr(s, FALSE))

\* The ASCII characters some non-ASCII spelling is canonically equal to.
NeedsCanonicalView(s, folded) ==
  \E i \in DOMAIN s :
     \/ s[i] \notin Ascii
     \/ s[i] \in {";", "grave", "K"}
     \/ folded /\ s[i] = "k"

Needle(kind, s, mode) ==
  LET folded    == LiteralInsensitive(s, mode)
      canonical == NeedsCanonicalView(s, folded)
  IN  [Matcher(kind) EXCEPT
         !.bytes = IF canonical THEN NormalizeStr(s, folded)
                   ELSE IF folded THEN FoldStr(s) ELSE s,
         !.folded = folded, !.canonical = canonical]

TrimStars(s) ==
  LET lit == {i \in DOMAIN s : s[i] # "*"}
  IN  IF lit = {} THEN <<>> ELSE SubSeq(s, Min(lit), Max(lit))

\* lit*, *lit and *lit* collapse to literals; the rest is a pattern.
ClassifyWildcard(s) ==
  LET inner == TrimStars(s)
      starts == Head(s) = "*"
      ends == Last(s) = "*"
  IN  IF inner = <<>> \/ HasWildcard(inner) THEN "General"
      ELSE IF starts /\ ends THEN "NameSub"
      ELSE IF starts THEN "NameSuffix"
      ELSE IF ends THEN "NamePrefix" ELSE "General"

\* The pattern of a wildcard: normalized, but never folded, for the NFC view.
Pattern(kind, s, mode, anchored) ==
  LET folded    == LiteralInsensitive(s, mode)
      canonical == NeedsCanonicalView(s, folded)
  IN  [Matcher(kind) EXCEPT
         !.bytes = IF canonical THEN NormalizeStr(s, FALSE) ELSE s,
         !.folded = folded, !.canonical = canonical, !.anchored = anchored]

CompileTerm(t, mode) ==
  LET m == CASE t.kind = "Name" /\ t.s = <<>> -> Matcher("True")
             [] t.kind = "Name" /\ t.s # <<>> -> Needle("NameSub", t.s, mode)
             [] t.kind = "Path" -> Needle("PathSub", t.s, mode)
             [] t.kind = "Wildcard" ->
                  LET shape == ClassifyWildcard(t.s)
                  IN  IF shape = "General" THEN Pattern("NameRegex", t.s, mode, TRUE)
                      ELSE Needle(shape, TrimStars(t.s), mode)
             [] t.kind = "PathWildcard" -> Pattern("PathRegex", t.s, mode, FALSE)
             [] t.kind = "Regex" ->
                  [Matcher("NameRegex") EXCEPT !.bytes = t.s,
                                               !.folded = RegexInsensitive(t.s, mode)]
             [] t.kind = "Ext" ->
                  LET canonical == \E i \in DOMAIN t.exts : NeedsCanonicalView(t.exts[i], TRUE)
                  IN  [Matcher("Ext") EXCEPT
                         !.exts = [i \in DOMAIN t.exts |->
                                     IF canonical THEN NormalizeStr(t.exts[i], TRUE)
                                     ELSE FoldStr(t.exts[i])],
                         !.canonical = canonical]
             [] t.kind = "Size" -> [Matcher("Size") EXCEPT !.lo = t.lo[1], !.hi = t.hi[1]]
             [] t.kind = "Mtime" ->
                  [Matcher("Mtime") EXCEPT
                     !.lo = IF t.lo = NoBound THEN 0 ELSE FiletimeAtMidnight(t.lo),
                     !.hi = IF t.hi = NoBound THEN UnixEpoch + MaxSecs
                            ELSE FiletimeAtMidnight(t.hi) - 1]
             [] t.kind = "IsDir" -> [Matcher("IsDir") EXCEPT !.dir = t.dir]
  IN  [neg |-> t.neg, m |-> m,
       unstable |-> /\ m.kind \in {"NameSub", "NamePrefix", "NameSuffix"}
                    /\ ~m.folded
                    /\ HasUppercase(m.bytes)]

\* The driver of a group: one sweep of the folded dictionary.
Driver(kind) ==
  [kind |-> kind, needles |-> <<>>, canonical |-> FALSE, filesOnly |-> FALSE]

\* -1 for a term that cannot drive a sweep.
DriverScore(t) ==
  IF t.neg THEN -1
  ELSE CASE t.m.kind \in {"NameSub", "NamePrefix", "NameSuffix"} -> 2 * ByteLen(t.m.bytes)
         [] t.m.kind = "Ext" /\ t.m.exts # <<>> ->
              Min({2 * (ByteLen(t.m.exts[i]) + 1) : i \in DOMAIN t.m.exts})
         [] OTHER -> -1

FoldExactNeedle(s, canonical) ==
  IF canonical THEN NormalizeStr(s, TRUE) ELSE FoldStr(s)

DriverFor(m) ==
  IF m.kind = "Ext"
  THEN [Driver("Suffixes") EXCEPT
          !.needles = [i \in DOMAIN m.exts |-> <<".">> \o m.exts[i]],
          !.canonical = m.canonical, !.filesOnly = TRUE]
  ELSE [Driver(CASE m.kind = "NameSub" -> "Sub" [] m.kind = "NamePrefix" -> "Prefix"
                 [] m.kind = "NameSuffix" -> "Suffixes") EXCEPT
          !.needles = <<IF m.folded THEN m.bytes ELSE FoldExactNeedle(m.bytes, m.canonical)>>,
          !.canonical = m.canonical]

\* Whether the sweep decides the term, or only bounds it from above.
DriverExact(m) ==
  IF m.kind = "Ext"
  THEN ~m.canonical /\ \A i \in DOMAIN m.exts : "." \notin Range(m.exts[i])
  ELSE m.folded /\ ~m.canonical

\* The literal every match of a pattern starts or ends with, when it has two
\* bytes; the longer of the two, and of equals the later tried.
RegexNamePrefilter(m) ==
  LET metas  == {i \in DOMAIN m.bytes : m.bytes[i] \in {"*", "?"}}
      prefix == IF metas = {} THEN m.bytes ELSE SubSeq(m.bytes, 1, Min(metas) - 1)
      suffix == IF metas = {} THEN m.bytes ELSE SubSeq(m.bytes, Max(metas) + 1, Len(m.bytes))
      usable(s) == ByteLen(FoldStr(s)) >= 2
      longer == IF ByteLen(suffix) >= ByteLen(prefix) THEN suffix ELSE prefix
  IN  IF usable(longer)
      THEN [Driver("Sub") EXCEPT !.needles = <<FoldStr(longer)>>]
      ELSE Driver("FullScan")

\* The first positive raw-spelling pattern that has such a literal.
RegexPrefilterDriver(terms) ==
  LET usable == {i \in DOMAIN terms :
                   /\ ~terms[i].neg
                   /\ terms[i].m.kind = "NameRegex"
                   /\ ~terms[i].m.canonical
                   /\ RegexNamePrefilter(terms[i].m).kind = "Sub"}
  IN  IF usable = {} THEN Driver("FullScan") ELSE RegexNamePrefilter(terms[Min(usable)].m)

\* The most selective literal drives, the last of equals; the residuals are
\* then ordered by cost, which changes no result.
PlanGroup(terms) ==
  LET best  == Max({DriverScore(terms[i]) : i \in DOMAIN terms})
      pick  == Max({i \in DOMAIN terms : DriverScore(terms[i]) = best})
  IN  IF terms = <<>>
      THEN [driver |-> Driver("MatchAll"), terms |-> <<>>, source |-> <<>>, exact |-> TRUE]
      ELSE IF best >= 4
      THEN [driver |-> DriverFor(terms[pick].m), terms |-> RemoveAt(terms, pick),
            source |-> <<terms[pick]>>, exact |-> DriverExact(terms[pick].m)]
      ELSE [driver |-> RegexPrefilterDriver(terms), terms |-> terms,
            source |-> <<>>, exact |-> TRUE]

CompileGroup(g, mode) == PlanGroup([i \in DOMAIN g |-> CompileTerm(g[i], mode)])

AllTerms(g) == g.source \o g.terms
ResidualTerms(g) == IF g.exact THEN g.terms ELSE AllTerms(g)

\* Whole-query regex: the text is one pattern over names or over paths.
CompileWholeRegex(text, mode, scope) ==
  LET term == [neg |-> FALSE, unstable |-> FALSE,
               m |-> [Matcher(IF scope = "name" THEN "NameRegex" ELSE "PathRegex") EXCEPT
                        !.bytes = text, !.folded = RegexInsensitive(text, mode)]]
  IN  <<[driver |-> IF scope = "name" THEN RegexPrefilterDriver(<<term>>)
                                      ELSE Driver("FullScan"),
         terms |-> <<term>>, source |-> <<>>, exact |-> TRUE]>>

CompileAst(ast, mode) ==
  [ok |-> ast.ok,
   groups |-> IF ast.ok THEN [i \in DOMAIN ast.groups |-> CompileGroup(ast.groups[i], mode)]
              ELSE <<>>]

\* A query's options and text, compiled; ok is false for a syntax error.
Compile(q) ==
  IF q.regex # "off"
  THEN [ok |-> TRUE, groups |-> CompileWholeRegex(q.text[1].value, q.case, q.regex)]
  ELSE CompileAst(Parse(q.text), q.case)

NeedsPaths(groups) ==
  \E i \in DOMAIN groups : \E j \in DOMAIN groups[i].terms :
     groups[i].terms[j].m.kind \in {"PathSub", "PathRegex"}
==============================================================================
