----------------------- MODULE MutationEvidence -----------------------
(* The mutation gate of a release (xtask/src/mutation_ci.rs): each shard runs the *)
(* mutation tool on its part of the reviewed sources of the commit and writes     *)
(* evidence with a receipt; a verifier, on a machine of its own, reads the        *)
(* evidence of all shards and recomputes everything it can from the commit and    *)
(* the controller's reviewed policy.  Operators only; ReleasePipeline runs them.  *)
(*                                                                             *)
(* A checkout is [commit, dirty, tracked], tracked a function from paths to what  *)
(* the file holds; the controller is [commit, files, baselines, patterns], with   *)
(* the two reviewed baselines and the mutate entries of its Stryker configuration.*)
(* Hashes are the values hashed.  A report of a tool is a record *)
(* of the facts it states; JSON shapes, paths within the report directory and     *)
(* tool versions are taken for granted.                                           *)
EXTENDS Integers, Sequences, FiniteSets, FiniteSetsExt, SequencesExt, Functions

CONSTANTS
  ShardCount,        \* REQUIRED_SHARD_COUNT
  RustProduction,    \* is_rust_production_source
  ForbiddenConfigs,  \* is_forbidden_auto_config
  TrustedConfigs,    \* is_trusted_auto_config
  RustControls,      \* rust_build_control_paths and the cargo configuration
  CsharpControls,    \* csharp_build_control_paths, the Stryker and baseline files
  CopiedFor          \* copy_path_for_language: language |-> the paths its work tree gets

ASSUME ShardAssumption == ShardCount \in Nat \ {0}

No == [ok |-> FALSE]

(***************************************************************************)
(* The commit under test                                                   *)
(***************************************************************************)

\* verify_checkout_identity, inspect_target_checkout: exactly the commit, nothing changed.
ExactCheckout(co, commit) ==
  co.commit = commit /\ ~co.dirty /\ DOMAIN co.tracked # {}

\* require_target_matches_controller: policy comes from the controller; the target only
\* may have the same.
MatchesController(ctl, co, path) ==
  path \in DOMAIN co.tracked /\ co.tracked[path] = ctl.files[path]

\* reject_forbidden_auto_configs: no file of the target may configure the tools.
NoForbiddenConfig(ctl, co) ==
  \A p \in DOMAIN co.tracked \cap ForbiddenConfigs :
    p \in TrustedConfigs /\ MatchesController(ctl, co, p)

\* read_baseline: files and accepted identities are strictly sorted, so none is twice, and
\* some file is reviewed.
ReadBaseline(baseline) ==
  /\ baseline.files # << >> /\ IsInjective(baseline.files)
  /\ IsInjective(baseline.accepted)

\* read_stryker_scope: the mutate entries name each reviewed file exactly once, and it exists.
StrykerScope(ctl) ==
  /\ ctl.patterns # << >> /\ IsInjective(ctl.patterns)
  /\ Range(ctl.patterns) \subseteq DOMAIN ctl.files
  /\ Range(ctl.patterns) = Range(ctl.baselines["csharp"].files)

\* read_rust_reviewed_policy, read_csharp_reviewed_policy.
ReviewedPolicy(ctl, language) ==
  LET baseline == ctl.baselines[language]
  IN /\ ReadBaseline(baseline)
     /\ language = "csharp" => StrykerScope(ctl)
     /\ \A a \in Range(baseline.accepted) : a.path \in Range(baseline.files)

Reviewed(ctl, language) == Range(ctl.baselines[language].files)

\* source_inventory: the reviewed files, all present, and no production source of Rust,
\* reviewed or not, that asks the tool to skip it.
SourceInventory(ctl, co, language) ==
  LET present == Reviewed(ctl, language) \cap DOMAIN co.tracked
  IN IF /\ language = "rust" =>
             \A p \in RustProduction \cap DOMAIN co.tracked : co.tracked[p] # "skip"
        /\ present # {}
        /\ present = Reviewed(ctl, language)
     THEN [ok |-> TRUE, files |-> [p \in present |-> co.tracked[p]]]
     ELSE No

\* rust_policies, csharp_policies: the controls a target must share with the controller.
Controls(language) == IF language = "rust" THEN RustControls ELSE CsharpControls
Policies(ctl, co, language) ==
  IF \A p \in Controls(language) : MatchesController(ctl, co, p)
  THEN [ok |-> TRUE, seals |-> [p \in Controls(language) |-> ctl.files[p]]]
  ELSE No

\* copy_target_tree: what of the commit reaches the tree the tool works in; the controls
\* the controller supplies are written over it.
WorkTree(ctl, co, language) ==
  [p \in (DOMAIN co.tracked \cap CopiedFor[language]) \cup Controls(language) |->
     IF p \in Controls(language) THEN ctl.files[p] ELSE co.tracked[p]]

\* prepare, prepare_verifier.
PrepareOk(co, bind) ==
  /\ ExactCheckout(co, bind.target)
  /\ NoForbiddenConfig(bind.controller, co)

\* The part of a sequence that falls to one shard: index % shard_count.
RoundRobin(s, shard) ==
  {s[i] : i \in {j \in DOMAIN s : (j - 1) % ShardCount = shard}}

\* validate_receipt_common: this controller, target, run, attempt and shard.
Binding(bind, shard) ==
  [controller |-> bind.controller.commit, target |-> bind.target, run |-> bind.run,
   attempt |-> bind.attempt, shard |-> shard, count |-> ShardCount]

(***************************************************************************)
(* Rust                                                                    *)
(***************************************************************************)

\* parse_rust_mutant_list: a list without duplicates, non-empty when it is the whole.
ValidMutantList(list, nonempty) == IsInjective(list) /\ (nonempty => list # << >>)

\* require_generated_sources_in_inventory.
WithinInventory(list, sources) == \A m \in Range(list) : m.path \in DOMAIN sources

\* The mutants of one summary in outcomes.json.
WithSummary(report, s) ==
  {o.mutant : o \in {x \in Range(report.outcomes) : x.summary = s}}

Terminal == {"CaughtMutant", "Unviable", "MissedMutant", "Timeout"}

\* validate_parsed_rust_partition: every generated mutant has an outcome and one only; a
\* failed baseline has none.
DisjointOutcomes(report, generated) ==   \* Mutant: a mutant without an outcome is not missed.
  LET tried == [i \in DOMAIN report.outcomes |-> report.outcomes[i].mutant]
  IN /\ IsInjective(tried)
     /\ IF report.baseline = <<"Success">> THEN Range(tried) \subseteq generated
        ELSE tried = << >>
ExhaustivePartition(report, generated) ==
  LET tried == [i \in DOMAIN report.outcomes |-> report.outcomes[i].mutant]
  IN /\ IsInjective(tried)
     /\ IF report.baseline = <<"Success">> THEN Range(tried) = generated ELSE tried = << >>

\* parse_rust_outcomes: one baseline; known summaries; each mutant once, all of them; the
\* text reports and the totals say the same.
ParseRustOutcomes(report, generated) ==
  IF /\ Len(report.baseline) = 1
     /\ \A o \in Range(report.outcomes) : o.summary \in Terminal
     /\ ExhaustivePartition(report, generated)
     /\ \A s \in Terminal :
          /\ report.texts[s] = WithSummary(report, s)
          /\ report.counts[s] = Cardinality(WithSummary(report, s))
     /\ report.total = Len(report.outcomes)
  THEN [ok |-> TRUE, baseline |-> report.baseline[1] = "Success",
        outcomes |-> [s \in Terminal |-> WithSummary(report, s)]]
  ELSE No

\* rust_identity_matches: an accepted identity without a column matches any on its line.
IdentityMatches(accepted, m) ==
  /\ accepted.path = m.path /\ accepted.line = m.line /\ accepted.mutation = m.mutation
  /\ accepted.column # << >> => accepted.column[1] = m.column

\* reviewed_rust_survivors: the accepted equivalents this shard generated.
AcceptedIn(ctl, shard) ==
  {m \in shard : \E a \in Range(ctl.baselines["rust"].accepted) : IdentityMatches(a, m)}

\* The gate of a Rust shard.
RustGate(ctl, parsed, shard, exit) ==
  /\ parsed.baseline
  /\ parsed.outcomes["MissedMutant"] = AcceptedIn(ctl, shard)
  /\ parsed.outcomes["Timeout"] = {}
  /\ exit = 0

\* The evidence a shard leaves: its raw files, each absent until written, and the receipt.
NoEvidence == [global |-> << >>, report |-> << >>, receipt |-> << >>]

\* run_rust_ci: everything is checked before the tool runs; the reports are stored before
\* they are judged; a receipt is written whenever the outcomes form a partition, passed
\* or not, and seals the files beside it.
RunRustShard(co, bind, shard, list, report) ==
  LET ctl == bind.controller
      sources == SourceInventory(ctl, co, "rust")
      policies == Policies(ctl, co, "rust")
      expected == RoundRobin(list, shard)
      parsed == ParseRustOutcomes(report, expected)
      stored == [global |-> <<list>>, report |-> <<report>>, receipt |-> << >>]
      receipt == [binding |-> Binding(bind, shard), policies |-> policies.seals,
                  sources |-> sources.files, global |-> list, shard |-> expected,
                  baseline |-> parsed.baseline, exit |-> report.exit,
                  outcomes |-> parsed.outcomes,
                  seals |-> [global |-> <<list>>, report |-> <<report>>],
                  passed |-> RustGate(ctl, parsed, expected, report.exit)]
  IN IF ~(/\ PrepareOk(co, bind) /\ ReviewedPolicy(ctl, "rust")
           /\ sources.ok /\ policies.ok)
     THEN [ok |-> FALSE, evidence |-> NoEvidence]
     ELSE IF ~(ValidMutantList(list, TRUE) /\ WithinInventory(list, sources.files))
     THEN [ok |-> FALSE, evidence |-> [NoEvidence EXCEPT !.global = <<list>>]]
     ELSE IF ~(/\ Range(report.listed) = expected /\ IsInjective(report.listed)
               /\ parsed.ok /\ parsed.baseline)
     THEN [ok |-> FALSE, evidence |-> stored]
     ELSE [ok |-> receipt.passed, evidence |-> [stored EXCEPT !.receipt = <<receipt>>]]

\* artifact_directories: the evidence of all shards and of nothing else.
AllShards(evidence) == DOMAIN evidence = 0 .. (ShardCount - 1)

\* validate_rust_receipt_header, and the same for C#.
ReceiptHeader(receipt, bind, shard, policies, sources) ==
  /\ receipt.binding = Binding(bind, shard)
  /\ receipt.policies = policies
  /\ receipt.sources = sources

\* validate_allowed_files, verify_file_seals: the files beside the receipt are those sealed.
SealedFiles(e, receipt) ==
  receipt.seals = [global |-> e.global, report |-> e.report]

\* verify_rust_evidence, one shard: the receipt is of this run; the outcomes it states are
\* those of the report; the gate is decided again from the controller's policy.
RustShardVerified(e, bind, shard, sources, policies) ==
  LET receipt == e.receipt[1]
      list == e.global[1]
      part == RoundRobin(list, shard)
      parsed == ParseRustOutcomes(e.report[1], part)
  IN /\ e.receipt # << >>
     /\ ReceiptHeader(receipt, bind, shard, policies, sources)
     /\ SealedFiles(e, receipt)
     /\ ValidMutantList(list, TRUE)
     /\ WithinInventory(list, sources)
     /\ receipt.global = list
     /\ Range(e.report[1].listed) = part /\ IsInjective(e.report[1].listed)
     /\ receipt.shard = part
     /\ parsed.ok
     /\ parsed.outcomes = receipt.outcomes
     /\ receipt.baseline
     /\ receipt.passed
     /\ RustGate(bind.controller, parsed, part, receipt.exit)

\* The sum of a number over the shards.
Total(Count(_)) == FoldSet(LAMBDA shard, sum : Count(shard) + sum, 0, 0 .. (ShardCount - 1))

\* write_verified_summary.
Summary(language, bind, sources, mutants, killed, accepted, invalid) ==
  [language |-> language, controller |-> bind.controller.commit, target |-> bind.target,
   run |-> bind.run, attempt |-> bind.attempt, sources |-> sources, mutants |-> mutants,
   killed |-> killed, accepted |-> accepted, invalid |-> invalid]

\* verify_rust_evidence: all shards, one global list, which they cover without overlap.
VerifyRustEvidence(co, bind, evidence) ==
  LET ctl == bind.controller
      sources == SourceInventory(ctl, co, "rust")
      policies == Policies(ctl, co, "rust")
      receipt(i) == evidence[i].receipt[1]
      global == evidence[0].global[1]
      count(s) == Total(LAMBDA i : Cardinality(receipt(i).outcomes[s]))
  IN IF /\ PrepareOk(co, bind)
        /\ ReviewedPolicy(ctl, "rust") /\ sources.ok /\ policies.ok
        /\ AllShards(evidence)
        /\ \A i \in DOMAIN evidence :
             RustShardVerified(evidence[i], bind, i, sources.files, policies.seals)
        /\ \A i \in DOMAIN evidence : evidence[i].global = evidence[0].global
        /\ \A i, j \in DOMAIN evidence : i # j => receipt(i).shard \cap receipt(j).shard = {}
        /\ UNION {receipt(i).shard : i \in DOMAIN evidence} = Range(global)
     THEN [ok |-> TRUE,
           summary |-> Summary("rust", bind, sources.files, Len(global),
                               count("CaughtMutant"), count("MissedMutant"),
                               count("Unviable"))]
     ELSE No

(***************************************************************************)
(* C#                                                                      *)
(***************************************************************************)

\* Stryker's statuses the code knows, and the reasons of mutants it never ran.
CsharpTerminal ==
  {"Killed", "CompileError", "Redundant", "Survived", "NoCoverage", "Timeout", "Ignored"}

\* csharp_outside_scope_is_unexecuted.
Unexecuted(m) == m.status \in {"CompileError", "Filtered"}

Entries(report, files) == UNION {{p} \X DOMAIN report.files[p] : p \in files}

\* parse_csharp_report: every file of the shard is reported; ids and identities do not
\* repeat; a mutant outside of the shard must not have run; within it every status is one
\* the code knows.
ParseCsharpReport(report, sources) ==
  LET files == DOMAIN report.files
      all == Entries(report, files)
      at(e) == report.files[e[1]][e[2]]
      inside == {e \in all : e[1] \in sources}
      kinds(s) == IF s = "Ignored" THEN {"Ignored", "Filtered"} ELSE {s}
      with(s) == {at(e).mutant : e \in {x \in inside : at(x).status \in kinds(s)}}
  IN IF /\ \A e, f \in all : (at(e).id = at(f).id \/ at(e).mutant = at(f).mutant) => e = f
        /\ \A e \in inside : at(e).status \in CsharpTerminal \cup {"Filtered"}
        /\ sources \subseteq files
     THEN [ok |-> TRUE,
           outcomes |-> [s \in CsharpTerminal |-> with(s)],
           outside |-> {at(e).mutant : e \in {x \in all \ inside : ~Unexecuted(at(x))}}]
     ELSE No

NothingRun ==
  [ok |-> TRUE, outcomes |-> [s \in CsharpTerminal |-> {}], outside |-> {}]

\* reviewed_csharp_survivors: the accepted equivalents of the sources of the shard.
CsharpAcceptedIn(ctl, sources) ==
  {m \in Range(ctl.baselines["csharp"].accepted) : m.path \in sources}

\* validate_csharp_terminal_partition.
CsharpPartition(outcomes) ==
  \A s, t \in CsharpTerminal : s # t => outcomes[s] \cap outcomes[t] = {}

\* The gate of a C# shard.
SurvivorGate(ctl, parsed, sources, baseline, exit) ==   \* Mutant: only survivors are judged.
  /\ baseline
  /\ exit = 0
  /\ parsed.outcomes["Survived"] = CsharpAcceptedIn(ctl, sources)
  /\ parsed.outside = {}
CsharpGate(ctl, parsed, sources, baseline, exit) ==
  /\ baseline
  /\ exit = 0
  /\ parsed.outcomes["Survived"] = CsharpAcceptedIn(ctl, sources)
  /\ \A s \in {"NoCoverage", "Timeout", "Ignored"} : parsed.outcomes[s] = {}
  /\ parsed.outside = {}

\* run_csharp_ci: a shard without sources runs the baseline but not the tool.
RunCsharpShard(co, bind, shard, order, report) ==
  LET ctl == bind.controller
      sources == SourceInventory(ctl, co, "csharp")
      policies == Policies(ctl, co, "csharp")
      part == RoundRobin(order, shard)
      runs == part # {}
      parsed == IF runs THEN ParseCsharpReport(report, part) ELSE NothingRun
      exit == IF runs THEN report.exit ELSE 0
      files == IF runs THEN <<report>> ELSE << >>
      receipt == [binding |-> Binding(bind, shard), policies |-> policies.seals,
                  sources |-> sources.files, part |-> part, executed |-> runs,
                  baseline |-> TRUE, exit |-> exit, outcomes |-> parsed.outcomes,
                  seals |-> [global |-> << >>, report |-> files],
                  passed |-> CsharpGate(ctl, parsed, part, TRUE, exit)]
  IN IF ~(/\ PrepareOk(co, bind) /\ ReviewedPolicy(ctl, "csharp")
           /\ sources.ok /\ policies.ok /\ report.baseline)
     THEN [ok |-> FALSE, evidence |-> NoEvidence]
     ELSE IF ~(parsed.ok /\ CsharpPartition(parsed.outcomes))
     THEN [ok |-> FALSE, evidence |-> [NoEvidence EXCEPT !.report = files]]
     ELSE [ok |-> receipt.passed,
           evidence |-> [global |-> << >>, report |-> files, receipt |-> <<receipt>>]]

\* verify_csharp_evidence, one shard.
CsharpShardVerified(e, bind, shard, order, sources, policies) ==
  LET receipt == e.receipt[1]
      part == RoundRobin(order, shard)
      parsed == IF receipt.executed THEN ParseCsharpReport(e.report[1], part) ELSE NothingRun
  IN /\ e.receipt # << >>
     /\ ReceiptHeader(receipt, bind, shard, policies, sources)
     /\ receipt.part = part
     /\ receipt.executed = (part # {})
     /\ SealedFiles(e, receipt)
     /\ parsed.ok
     /\ parsed.outcomes = receipt.outcomes
     /\ receipt.baseline
     /\ receipt.passed
     /\ CsharpGate(bind.controller, parsed, part, receipt.baseline, receipt.exit)
     /\ CsharpPartition(receipt.outcomes)

\* verify_csharp_evidence: the shards cover the reviewed sources and some mutant was made.
VerifyCsharpEvidence(co, bind, order, evidence) ==
  LET ctl == bind.controller
      sources == SourceInventory(ctl, co, "csharp")
      policies == Policies(ctl, co, "csharp")
      outcomes(i) == evidence[i].receipt[1].outcomes
      mutants(i) == UNION {outcomes(i)[s] : s \in {"Killed", "Survived", "CompileError",
                                                   "Redundant"}}
      count(s) == Total(LAMBDA i : Cardinality(outcomes(i)[s]))
      union == UNION {mutants(i) : i \in DOMAIN evidence}
  IN IF /\ PrepareOk(co, bind)
        /\ ReviewedPolicy(ctl, "csharp") /\ sources.ok /\ policies.ok
        /\ AllShards(evidence)
        /\ \A i \in DOMAIN evidence :
             CsharpShardVerified(evidence[i], bind, i, order, sources.files, policies.seals)
        /\ \A i, j \in DOMAIN evidence : i # j => mutants(i) \cap mutants(j) = {}
        /\ UNION {evidence[i].receipt[1].part : i \in DOMAIN evidence} = DOMAIN sources.files
        /\ union # {}
     THEN [ok |-> TRUE,
           summary |-> Summary("csharp", bind, sources.files, Cardinality(union),
                               count("Killed"), count("Survived"), count("CompileError"))]
     ELSE No
=============================================================================
