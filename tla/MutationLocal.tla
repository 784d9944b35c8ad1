-------------------------- MODULE MutationLocal --------------------------
(* The mutation gate as a developer runs it (xtask/src/mutation.rs): one run of *)
(* the tool over all reviewed sources, judged against the same baselines as the *)
(* shards of the controller, in code of its own.                                *)
EXTENDS MutationEvidence

\* parse_rust_run: one successful baseline, at least one mutant, each with one known
\* outcome; the list of generated mutants and the text reports say the same.
ParseRustRun(report) ==
  LET tried == [i \in DOMAIN report.outcomes |-> report.outcomes[i].mutant]
  IN IF /\ report.baseline = <<"Success">>
        /\ tried # << >> /\ IsInjective(tried)
        /\ \A o \in Range(report.outcomes) : o.summary \in Terminal
        /\ IsInjective(report.listed) /\ Range(report.listed) = Range(tried)
        /\ \A s \in Terminal : report.texts[s] = WithSummary(report, s)
     THEN [ok |-> TRUE, examined |-> {m.path : m \in Range(tried)},
           survivors |-> WithSummary(report, "MissedMutant"),
           timeouts |-> WithSummary(report, "Timeout")]
     ELSE No

\* validate_cargo_mutants_exit: the code cargo-mutants gives a run with these outcomes.
ExpectedExit(run) ==
  IF run.timeouts # {} THEN 3 ELSE IF run.survivors # {} THEN 2 ELSE 0

\* compare_exact_survivors: the accepted identities, column and all.
ExactSurvivors(baseline, survivors) ==
  survivors = {[a EXCEPT !.column = a.column[1]] :
                 a \in {x \in Range(baseline.accepted) : x.column # << >>}}
  /\ \A a \in Range(baseline.accepted) : a.column # << >>

\* run_rust.
RunRust(ctl, report) ==
  LET baseline == ctl.baselines["rust"]
      Judged(run) ==
        /\ run.ok
        /\ report.exit = ExpectedExit(run)
        /\ run.timeouts = {}
        /\ Range(baseline.files) = run.examined
        /\ ExactSurvivors(baseline, run.survivors)
  IN ReadBaseline(baseline) /\ Judged(ParseRustRun(report))

\* parse_csharp_run: every reviewed file is reported and has a mutant; identities do not
\* repeat and every status is known; outside of the scope nothing may have run.
ParseCsharpRun(report, scope) ==
  LET files == DOMAIN report.files
      all == Entries(report, files)
      at(e) == report.files[e[1]][e[2]]
      inside == {e \in all : e[1] \in scope}
      with(s) == {at(e).mutant : e \in {x \in inside : at(x).status = s}}
  IN IF /\ files # {}
        /\ \A f \in scope : f \in files /\ report.files[f] # << >>
        /\ \A e, f \in all : at(e).mutant = at(f).mutant => e = f
        /\ \A e \in all : at(e).status \in CsharpTerminal \cup {"Filtered"}
     THEN [ok |-> TRUE, examined |-> scope,
           survivors |-> with("Survived"), noCoverage |-> with("NoCoverage"),
           timeouts |-> with("Timeout"),
           ignored |-> with("Ignored") \cup with("Filtered"),
           outside |-> {e \in all \ inside : ~Unexecuted(at(e))}]
     ELSE No

\* validate_csharp_conclusive.
Conclusive(run) ==
  run.timeouts = {} /\ run.noCoverage = {} /\ run.ignored = {} /\ run.outside = {}

\* run_csharp: the unmutated tests pass before Stryker starts.
RunCsharp(ctl, report) ==
  LET baseline == ctl.baselines["csharp"]
      Judged(run) ==
        /\ run.ok
        /\ Conclusive(run)
        /\ Range(baseline.files) = run.examined
        /\ run.survivors = Range(baseline.accepted)
  IN /\ ReadBaseline(baseline) /\ StrykerScope(ctl)
     /\ report.baseline
     /\ report.exit = 0
     /\ Judged(ParseCsharpRun(report, Range(ctl.patterns)))
=============================================================================
