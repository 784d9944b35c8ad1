------------------------------- MODULE MCQuery -------------------------------
EXTENDS QueryEngine, TLC

\* An alphabet with what Unicode makes hard: upper and lower case, the Kelvin
\* sign (another spelling of K, of another width), and e with an acute accent,
\* composed and decomposed, in both cases.
MCAscii == {"a", "A", "c", "e", "E", "k", "K", ".", ":", "\\", "*", "?"}
Chars == MCAscii \cup {"kelvin", "acute", "eacute", "Eacute"}
MCFold == [x \in Chars |-> CASE x = "A" -> "a" [] x = "E" -> "e" [] x = "K" -> "k"
                             [] x = "Eacute" -> "eacute" [] OTHER -> x]
MCCaseClass == [x \in Chars |-> IF x = "kelvin" THEN "k" ELSE MCFold[x]]
MCSingleton == [x \in Chars |-> IF x = "kelvin" THEN "K" ELSE x]
MCCompose == (<<"e", "acute">> :> "eacute") @@ (<<"E", "acute">> :> "Eacute")
MCWidth == [x \in Chars |-> IF x \in MCAscii THEN 1 ELSE IF x = "kelvin" THEN 3 ELSE 2]
MCRank == [x \in Chars |-> CASE x = "*" -> 0 [] x = "." -> 1 [] x = ":" -> 2 [] x = "?" -> 3
                             [] x = "A" -> 4 [] x = "E" -> 5 [] x = "K" -> 6 [] x = "\\" -> 7
                             [] x = "a" -> 8 [] x = "c" -> 9 [] x = "e" -> 10 [] x = "k" -> 11
                             [] x = "Eacute" -> 12 [] x = "eacute" -> 13 [] x = "acute" -> 14
                             [] x = "kelvin" -> 15]

\* Two ticks a day; the mtime column ends on 2106-02-07.
Noon(y, m, d) == (RefDay(y, m, d) * 2) + 1
MCMaxSecs == (RefDay(2106, 2, 7) - RefDay(1970, 1, 1)) * 2

Row(u, name, parent, dir, size, at) ==
  [uid |-> <<u, 0>>, name |-> name, parent |-> parent, dir |-> dir, live |-> TRUE,
   excl |-> FALSE, size |-> size, at |-> at, mtime |-> MtimeTicksToSecs(at)]
RootRow == Row("root", <<"c", ":">>, Root, TRUE, 0, 0)

\* A directory AK, a file in it, names in every spelling, a hidden row and a
\* tombstone.
LangRows ==
  <<RootRow,
    Row("dir", <<"A", "k">>, Root, TRUE, 0, Noon(2000, 2, 29)),
    Row("file", <<"a", "k", ".", "e">>, 2, FALSE, 2, Noon(2000, 3, 1)),
    Row("kelvin", <<"a", "kelvin", "A">>, Root, FALSE, 1, Noon(1999, 12, 31)),
    Row("nfd", <<"e", "acute", "e">>, Root, FALSE, 4, 0),
    Row("nfc", <<"a", ".", "Eacute">>, 2, FALSE, 0, Noon(2004, 2, 29)),
    [Row("hidden", <<"e", "k">>, Root, FALSE, 3, Noon(2104, 3, 1)) EXCEPT !.excl = TRUE],
    [Row("dead", <<"k", "e">>, Root, FALSE, 3, Noon(2000, 3, 1)) EXCEPT !.live = FALSE]>>

Tok(field, value) == [field |-> field, bangs |-> 0, value |-> value]
Not(t) == [t EXCEPT !.bangs = @ + 1]
Or == Tok("or", <<>>)
Query(text) ==
  [text |-> text, case |-> "smart", sort |-> "name", desc |-> FALSE, hidden |-> FALSE,
   regex |-> "off"]
Cmp(op, a, b) == [op |-> op, a |-> a, b |-> b]

Texts == {<<>>, <<"a">>, <<"k">>, <<"K">>, <<"e", "a">>, <<"a", "k">>, <<"A", "k">>, <<"A", "K">>,
          <<"a", "kelvin">>, <<"e">>, <<"eacute">>, <<"E", "acute">>, <<"e", "acute">>,
          <<"a", "*">>, <<"a", "k", "*">>, <<"*", "k">>, <<"*", ".", "e">>, <<"*", "k", "a", "*">>,
          <<"a", "?", "a">>, <<"a", "*", "e">>, <<"a", "k", "\\">>, <<"A", "k", "\\", "a">>,
          <<"\\", "*", "e">>}
LangTexts ==
  {<<Tok("none", s)>> : s \in Texts}
    \cup {<<Not(Tok("none", s))>> : s \in {<<"a">>, <<"k">>, <<"A", "k">>}}
    \cup {<<Tok("none", <<"a", "k">>), Tok(f, <<>>)>> : f \in {"file", "folder"}}
    \cup {<<Tok("none", <<"a">>), Or, Tok("none", <<"e", "acute">>)>>,
          <<Tok("folder", <<"a">>), Or>>, <<Not(Tok("folder", <<"a">>))>>,
          <<Tok("empty", <<>>), Tok("path", <<"A", "k">>)>>,
          <<Tok("none", <<"a", "k">>), Tok("none", <<"e">>)>>,
          <<Tok("regex", <<"a", "*", "e">>)>>, <<Tok("regex", <<"a", ".">>)>>,
          <<Tok("regex", <<"c", "A">>), Tok("regex", <<"c">>)>>,
          <<Tok("ext", <<<<"e">>>>)>>, <<Tok("ext", <<<<"e">>, <<"eacute">>>>)>>,
          <<Tok("ext", <<<<"k", ".", "e">>>>)>>}
    \cup {<<Tok("size", Cmp(op, a, 2))>> : op \in {"..", ">=", "<=", ">", "<", "="}, a \in {0, 4, 5}}
    \cup {<<Tok("dm", Cmp(op, a, <<2000, 3>>))>> :
            op \in {"..", ">=", "<=", ">", "<", "="},
            a \in {<<2000>>, <<1999, 12>>, <<2000, 2, 29>>, <<2100, 2, 29>>, <<9999>>}}

MCLangQueries ==
  {Query(t) : t \in LangTexts}
    \cup {[Query(<<Tok("none", s)>>) EXCEPT !.case = mode] :
            s \in {<<"a", "k">>, <<"A", "k">>, <<"K", "a">>}, mode \in {"sensitive", "insensitive"}}
    \cup {[Query(<<Tok("none", s)>>) EXCEPT !.regex = scope] :
            s \in {<<"a", "?">>, <<"e", "?", "e">>, <<"\\", "a">>}, scope \in {"name", "path"}}
    \cup {[Query(<<Tok("none", s)>>) EXCEPT !.hidden = TRUE] : s \in {<<>>, <<"k">>}}

\* Two small volumes, whose batches and replacements interleave with the queries.
MCVolumes == <<"c", "d", "language">>
MCRows ==
  [v \in {"c", "d", "language"} |->
     CASE v = "c" ->
            <<RootRow, [Row("dead", <<"a">>, Root, FALSE, 0, 0) EXCEPT !.live = FALSE],
              Row("dir", <<"a", "k">>, Root, TRUE, 0, 0),
              Row("file", <<"e", "a">>, 3, FALSE, 1, 0)>>
       [] v = "d" -> <<RootRow, Row("other", <<"a">>, Root, FALSE, 0, 0)>>
       [] v = "language" -> LangRows]
MCNewRows == {[Row("new", <<"a", "e">>, 3, FALSE, 0, 0) EXCEPT !.uid = "new"]}
MCNewNames == {<<"c">>}
EngineQueries ==
  {Query(<<>>), [Query(<<Tok("none", <<"a">>)>>) EXCEPT !.sort = "size", !.desc = TRUE],
   Query(<<Tok("path", <<"a", "k">>)>>)}

\* Every query after every other, on a volume that stays as it is; and two clients on
\* two volumes that change.
MCSettings ==
  {[volumes |-> {"language"}, queries |-> MCLangQueries, maxBatches |-> 0, maxClients |-> 1],
   [volumes |-> {"c", "d"}, queries |-> EngineQueries, maxBatches |-> 2, maxClients |-> 2]}

ClientSymmetry == Permutations(Clients)
==============================================================================
