------------------------- MODULE ReleasePipeline -------------------------
(* One run of the release workflow (.github/workflows/release.yml): jobs on fresh *)
(* machines that hand artifacts to each other, build and test the bundle, list    *)
(* its components, run the mutation gate in shards, sign, package and publish.    *)
(* Each job is one action: it downloads what earlier jobs uploaded, makes the     *)
(* checks of xtask (Bundle, Sbom, MutationEvidence) and uploads its result or     *)
(* fails; the uploads of the publish job are steps of their own.  The run may be  *)
(* started again, as a whole or from one job on; artifacts stay and are           *)
(* overwritten by name.                                                           *)
(*                                                                                *)
(* What the repository, the caches and the tools are like is the world, chosen    *)
(* once: in a sound one nothing is wrong, in a faulty one something may go wrong   *)
(* on the way, a bounded number of times (a machine lost, a tool killed, a signer  *)
(* that returns something else, a test that touches the bundle).                   *)
EXTENDS Sbom, MutationLocal

CONSTANTS
  Worlds,        \* the worlds a run may happen in
  MaxAttempts,   \* bound: attempts of the run
  MaxFaults,     \* bound: faults on the way
  SignerName     \* SIGNER_COMMON_NAME

ASSUME BoundsAssumption == MaxAttempts \in Nat \ {0} /\ MaxFaults \in Nat

\* A run is started for a released version and a commit; what the repository and the builds
\* hold are files, the two programs and the four texts are there to be copied, and the
\* packages are finitely many.
ASSUME WorldsAssumption ==
  \A w \in Worlds :
    /\ {"Emit", "engine", "texts", "xaml"} \subseteq DOMAIN w
    /\ w.tag \in Canonical /\ w.target \in Commits
    /\ w.csproj \in Seq(STRING)
    /\ {Launcher, Service} \subseteq DOMAIN w.engine
    /\ {BuildInfo, Readme, Licence, Notices} \subseteq DOMAIN w.texts
    /\ DOMAIN w.Emit = BOOLEAN /\ IsFiniteSet(DOMAIN w.deps) /\ IsFiniteSet(DOMAIN w.caches)
    /\ \A files \in {w.engine, w.texts, w.Emit[FALSE]} :
         \A p \in DOMAIN files : IsFile(files[p])

\* cargo-mutants finds something of every mutant it lists; Stryker reports a list of mutants
\* for a file, each said to be of that file.  The sources divided between the C# shards are
\* the reviewed ones.
ASSUME MutantsAssumption ==
  \A w \in Worlds :
    /\ w.rust \in Seq(DOMAIN w.fate)
    /\ Range(w.csharp) = Range(w.ctl.baselines["csharp"].files)
    /\ \A p \in DOMAIN w.stryker :
         w.stryker[p] = [i \in DOMAIN w.stryker[p] |-> w.stryker[p][i]]
    /\ \A p \in DOMAIN w.stryker : \A i \in DOMAIN w.stryker[p] :
         /\ {"id", "mutant", "status", "ran"} \subseteq DOMAIN w.stryker[p][i]
         /\ w.stryker[p][i].mutant.path = p

VARIABLES
  W,         \* the world of this run
  attempt,   \* github.run_attempt
  st,        \* each job: waiting, ok or failed; publish also: uploading
  art,       \* the artifacts of the run, by name
  draft,     \* the draft release: its assets, and whether it is published
  faults,    \* faults so far
  tainted,   \* some artifact may hold what a fault left there
  refused,   \* the jobs of this attempt that a check of theirs failed
  tested     \* the bundles the runtime tests ran on

vars == <<W, attempt, st, art, draft, faults, tainted, refused, tested>>

Shards == 0 .. (ShardCount - 1)

Job(name) == <<name, 0>>
Single == {"preflight", "build", "sbom", "verify", "stage", "sign", "collect", "package", "publish"}
MutationJobs == {"rust", "csharp"} \X Shards
Jobs == {Job(n) : n \in Single} \cup MutationJobs

\* needs: of each job.  The mutation verifier runs after all shards, and fails unless they
\* all passed.
Needs(j) ==
  CASE j[1] = "preflight" -> {}
    [] j[1] \in {"build", "rust", "csharp"} -> {Job("preflight")}
    [] j[1] = "sbom" -> {Job("build")}
    [] j[1] = "verify" -> MutationJobs
    [] j[1] = "stage" -> {Job("build"), Job("sbom"), Job("verify")}
    [] j[1] = "sign" -> {Job("stage")}
    [] j[1] = "collect" -> {Job("build"), Job("sign")}
    [] j[1] = "package" -> {Job("build"), Job("sbom"), Job("collect")}
    [] j[1] = "publish" -> {Job("package")}

\* Sets of jobs that hold, with a job, every job that needs it.
Closed(jobs) == \A j \in Jobs : Needs(j) \cap jobs # {} => j \in jobs
ClosedSets == {s : s \in {jobs \in SUBSET Jobs : Closed(jobs)}}

\* A job and everything that needs it, directly or not.
Dependents(j) == {d \in Jobs : \A jobs \in ClosedSets : j \in jobs => d \in jobs}

Ready(j) == st[j] = "waiting" /\ \A n \in Needs(j) : st[n] = "ok"

\* The attempt is over: nothing runs and nothing can start.
Over == ~\E j \in Jobs : Ready(j) \/ st[j] = "uploading"

Ended(j, ok) ==
  /\ st' = [st EXCEPT ![j] = IF ok THEN "ok" ELSE "failed"]
  /\ refused' = IF ok THEN refused ELSE refused \cup {j}

\* A job that uploads its artifacts when its checks are good, and nothing when not.
Finish(j, good, artifacts) ==
  /\ Ready(j)
  /\ Ended(j, good)
  /\ art' = IF good THEN artifacts ELSE art

NoFault == UNCHANGED <<faults, tainted>>
Fault ==
  /\ W.faulty
  /\ faults < MaxFaults
  /\ faults' = faults + 1

(***************************************************************************)
(* The bundle                                                              *)
(***************************************************************************)

Stamp(f) == [f EXCEPT !.build = attempt]

\* What the checkout builds in this attempt; an image built again need not be the same.
Engine == [p \in DOMAIN W.engine |-> Stamp(W.engine[p])]
Bundling == [W EXCEPT !.Emit = [s \in BOOLEAN |->
               [p \in DOMAIN W.Emit[s] |->
                  IF p \in Targets THEN Stamp(W.Emit[s][p]) ELSE W.Emit[s][p]]]]

\* The preflight: the release is still the draft the run was started for.
Preflight ==
  /\ Ready(Job("preflight"))
  /\ Ended(Job("preflight"), ~draft.published)
  /\ NoFault
  /\ UNCHANGED <<W, attempt, art, draft, tested>>

\* build: the versions agree; the bundle is assembled for the target commit, sealed, then
\* run, and must afterwards still be what was sealed; the bundle for UI tests is apart.
BuildWith(Touch(_)) ==
  LET commit == SelectSourceCommit(<<W.target>>, W.head)
      good(shipping, sealed, after) ==
        /\ ~draft.published
        /\ CheckReleaseTag(W, W.tag)
        /\ shipping.ok
        /\ BuildinfoCommit(shipping.tree[BuildInfo]) = [ok |-> TRUE, of |-> W.target]
        /\ sealed.ok
        /\ VerifyAt(shipping.tree, sealed.manifest, "unsigned")
        /\ RunBundle(Bundling, Engine, W.tag, commit, TRUE).ok
        /\ VerifyAt(after, sealed.manifest, "unsigned")
  IN \E shipping \in {RunBundle(Bundling, Engine, W.tag, commit, FALSE)} :
     \E sealed \in {IF shipping.ok THEN RunSeal(shipping.tree, "unsigned", << >>) ELSE Fail} :
     \E after \in {IF shipping.ok THEN Touch(shipping.tree) ELSE << >>} :
       /\ Finish(Job("build"), good(shipping, sealed, after),
                 [art EXCEPT !.dist = <<[tree |-> after, manifest |-> sealed.manifest]>>])
       /\ tested' = IF shipping.ok THEN tested \cup {shipping.tree} ELSE tested
       /\ UNCHANGED <<W, attempt, draft>>

Build == BuildWith(LAMBDA t : t) /\ NoFault

\* A run of the bundle that leaves something behind in it.
Touched(t, p) == [t EXCEPT ![p].part = "touched"]
BuildTouched ==
  /\ Fault /\ tainted' = TRUE
  /\ \E p \in {Licence, Service} : BuildWith(LAMBDA t : Touched(t, p))

\* sbom: from the sealed bundle, which must not have changed.
MakeSbom ==
  LET dist == art.dist[1]
  IN /\ Ready(Job("sbom"))
     /\ \E made \in {RunSbom(W.tag, dist.tree, W.raw, W.deps, W.nuget, W.caches)} :
          Finish(Job("sbom"), VerifyAt(dist.tree, dist.manifest, "unsigned") /\ made.ok,
                 [art EXCEPT !.sboms = <<made.boms>>])
     /\ NoFault
     /\ UNCHANGED <<W, attempt, draft, tested>>

(***************************************************************************)
(* The mutation gate                                                       *)
(***************************************************************************)

Bind == [controller |-> W.ctl, target |-> W.target, run |-> "run", attempt |-> attempt]

\* cargo-mutants: the report of a run over mutants, each with its fate; the exit code says
\* whether some were missed or timed out.
RustReport(mutants, fate) ==
  LET with(s) == {m \in Range(mutants) : fate[m] = s}
  IN [listed |-> mutants, baseline |-> <<"Success">>,
      outcomes |-> [i \in DOMAIN mutants |->
                      [mutant |-> mutants[i], summary |-> fate[mutants[i]]]],
      texts |-> [s \in Terminal |-> with(s)],
      counts |-> [s \in Terminal |-> Cardinality(with(s))],
      total |-> Len(mutants),
      exit |-> IF with("Timeout") # {} THEN 3 ELSE IF with("MissedMutant") # {} THEN 2 ELSE 0]

\* --sharding round-robin of cargo-mutants, in the order of the list.
ShardOf(list, shard) ==
  [k \in 1 .. (Len(list) - shard + ShardCount - 1) \div ShardCount |->
     list[(k - 1) * ShardCount + shard + 1]]

\* Stryker mutates the whole project and runs what its configuration names.
CsharpReport(files) ==
  [files |-> [p \in DOMAIN W.stryker |->
                [i \in DOMAIN W.stryker[p] |->
                   IF p \in files \/ W.stryker[p][i].ran THEN W.stryker[p][i]
                   ELSE [W.stryker[p][i] EXCEPT !.status = "Filtered"]]],
   baseline |-> TRUE, exit |-> 0]

\* Without the last outcome: a tool that stopped early and still wrote its totals.
Truncated(report) ==
  LET kept == IF report.outcomes = << >> THEN << >> ELSE Front(report.outcomes)
      with(s) == {o.mutant : o \in {x \in Range(kept) : x.summary = s}}
  IN [report EXCEPT !.outcomes = kept, !.total = Len(kept),
        !.texts = [s \in Terminal |-> with(s)],
        !.counts = [s \in Terminal |-> Cardinality(with(s))]]

\* rust_ci of one shard.  Its evidence is uploaded whether it passed or not.
RustShardWith(shard, list, report) ==
  /\ Ready(<<"rust", shard>>)
  /\ \E result \in {RunRustShard(W.co, Bind, shard, list, report)} :
       /\ Ended(<<"rust", shard>>, result.ok)
       /\ art' = [art EXCEPT !.evidence["rust"][shard] = result.evidence]
  /\ UNCHANGED <<W, attempt, draft, tested>>

RustShard(shard) ==
  /\ RustShardWith(shard, W.rust, RustReport(ShardOf(W.rust, shard), W.fate))
  /\ NoFault

\* A shard that goes wrong: the tool stops early, loses its baseline, times out on a
\* slow machine, or lists the mutants in another order than on the other machines.
RustShardFault(shard) ==
  LET list == W.rust
      part == ShardOf(list, shard)
      report == RustReport(part, W.fate)
  IN /\ Fault /\ tainted' = TRUE
     /\ \/ RustShardWith(shard, list, Truncated(report))
        \/ RustShardWith(shard, list, [report EXCEPT !.baseline = <<"Failure">>,
                                                     !.outcomes = << >>, !.exit = 4])
        \/ RustShardWith(shard, list,
             RustReport(part, [m \in DOMAIN W.fate |-> "Timeout"]))
        \/ RustShardWith(shard, Reverse(list), RustReport(ShardOf(Reverse(list), shard), W.fate))

\* csharp_ci of one shard.
CsharpShard(shard) ==
  LET report == CsharpReport(RoundRobin(W.csharp, shard))
  IN /\ Ready(<<"csharp", shard>>)
     /\ \E result \in {RunCsharpShard(W.co, Bind, shard, W.csharp, report)} :
          /\ Ended(<<"csharp", shard>>, result.ok)
          /\ art' = [art EXCEPT !.evidence["csharp"][shard] = result.evidence]
     /\ NoFault
     /\ UNCHANGED <<W, attempt, draft, tested>>

\* verify: both languages again, from the evidence of all shards.
VerifyMutation ==
  /\ Ready(Job("verify"))
  /\ \E rust \in {VerifyRustEvidence(W.co, Bind, art.evidence["rust"])},
        csharp \in {VerifyCsharpEvidence(W.co, Bind, W.csharp, art.evidence["csharp"])} :
       Finish(Job("verify"), rust.ok /\ csharp.ok,
              [art EXCEPT !.verified = <<rust.summary, csharp.summary>>])
  /\ NoFault
  /\ UNCHANGED <<W, attempt, draft, tested>>

(***************************************************************************)
(* Signing                                                                 *)
(***************************************************************************)

\* sign-stage: byte copies of our images, none of them signed yet.
StageSigning ==
  /\ Ready(Job("stage"))
  /\ \E staged \in {Stage(art.dist[1].tree)} :
       Finish(Job("stage"),
              /\ ~draft.published
              /\ staged.ok
              /\ \A n \in DOMAIN staged.files : staged.files[n].table.at = 0,
              [art EXCEPT !.input = <<staged.files>>])
  /\ NoFault
  /\ UNCHANGED <<W, attempt, draft, tested>>

\* What a signer does to an image: a certificate table at its end, stamped with the time.
Certificate(signer) == [length |-> 2, pkcs7 |-> TRUE, signer |-> signer, at |-> attempt]
SignedBy(f, signer) ==
  [f EXCEPT !.length = f.length + 2, !.table = [at |-> f.length, size |-> 2],
            !.certs = <<Certificate(signer)>>]

SignWith(Result(_)) ==
  /\ Ready(Job("sign"))
  /\ Ended(Job("sign"), TRUE)
  /\ art' = [art EXCEPT !.result = <<Result([n \in DOMAIN art.input[1] |->
                                       SignedBy(art.input[1][n], SignerName)])>>]
  /\ UNCHANGED <<W, attempt, draft, tested>>

Sign == SignWith(LAMBDA s : s) /\ NoFault

\* What may come back instead: a file left out or not signed, two exchanged, another
\* payload, another signer, a second certificate.
SignWrongly ==
  /\ Fault /\ tainted' = TRUE
  /\ \E n \in Range(FirstParty) :
       \/ SignWith(LAMBDA s : [m \in DOMAIN s \ {n} |-> s[m]])
       \/ SignWith(LAMBDA s : [s EXCEPT ![n] = art.input[1][n]])
       \/ \E m \in Range(FirstParty) \ {n} :
            SignWith(LAMBDA s : [s EXCEPT ![n] = s[m], ![m] = s[n]])
       \/ SignWith(LAMBDA s : [s EXCEPT ![n].part = "other"])
       \/ SignWith(LAMBDA s : [s EXCEPT ![n] = SignedBy(art.input[1][n], "someone")])
       \/ SignWith(LAMBDA s : [s EXCEPT ![n].length = @ + 2, ![n].table.size = 4,
                                        ![n].certs = @ \o <<Certificate("someone")>>])

\* verify-signatures: every image of ours carries a certificate of the expected signer.
SignaturesOk(tree) ==
  \A p \in Targets : tree[p].certs # << >> /\ tree[p].certs[1].signer = SignerName

\* sign-collect: exactly the files that were sent; from the unsigned bundle and the result
\* to the signed bundle and its seal.
CollectSigned ==
  LET dist == art.dist[1]
      good(collected, sealed) ==
        /\ DOMAIN art.result[1] = Range(FirstParty)
        /\ VerifyAt(dist.tree, dist.manifest, "unsigned")
        /\ collected.ok
        /\ VerifySignedTransition(collected.tree, dist.manifest)
        /\ SignaturesOk(collected.tree)
        /\ sealed.ok
        /\ VerifyAt(collected.tree, sealed.manifest, "signed")
  IN /\ Ready(Job("collect"))
     /\ \E collected \in {CollectPreservingImages(dist.tree, art.result[1])} :
        \E sealed \in {IF collected.ok THEN RunSeal(collected.tree, "signed", dist.manifest)
                       ELSE Fail} :
          Finish(Job("collect"), good(collected, sealed),
                 [art EXCEPT !.candidate = <<[tree |-> collected.tree,
                                              manifest |-> sealed.manifest]>>])
     /\ NoFault
     /\ UNCHANGED <<W, attempt, draft, tested>>

(***************************************************************************)
(* Packaging and publication                                               *)
(***************************************************************************)

AssetNames == {"zip", "SHA256SUMS", "app", "engine"}
Uploaded(content) == [state |-> "uploaded", content |-> <<content>>]

\* package: the zip of the signed bundle with its checksum, and the SBOMs beside it.
PackageRelease ==
  LET candidate == art.candidate[1]
      boms == art.sboms[1]
      Assets(zip) == [n \in AssetNames |->
                        CASE n = "zip" -> Uploaded(zip)
                          [] n = "SHA256SUMS" -> Uploaded([of |-> zip])
                          [] OTHER -> Uploaded(boms[n])]
  IN /\ Ready(Job("package"))
     /\ \E packed \in {Package(candidate.tree, <<W.tag>>)} :
          Finish(Job("package"),
                 /\ VerifyAt(candidate.tree, candidate.manifest, "signed")
                 /\ SignaturesOk(candidate.tree)
                 /\ VerifyFinalPair(boms, W.tag)
                 /\ packed.ok
                 /\ ~draft.published,
                 [art EXCEPT !.assets = <<Assets([label |-> packed.label,
                                                  entries |-> packed.zip])>>])
     /\ NoFault
     /\ UNCHANGED <<W, attempt, draft, tested>>

\* publish, before the first upload: the draft is still one, and what it has already is
\* byte for byte what would be uploaded.
ExistingUploaded ==   \* Mutant: an asset that is there is taken to be the right one.
  \A n \in DOMAIN draft.assets : draft.assets[n].state = "uploaded"
ExistingIdentical ==
  \A n \in DOMAIN draft.assets : draft.assets[n] = art.assets[1][n]

PublishBegin ==
  LET good == ~draft.published /\ ExistingIdentical
  IN /\ Ready(Job("publish"))
     /\ IF good
        THEN st' = [st EXCEPT ![Job("publish")] = "uploading"] /\ UNCHANGED refused
        ELSE Ended(Job("publish"), FALSE)
     /\ NoFault
     /\ UNCHANGED <<W, attempt, art, draft, tested>>

\* Mutant: an asset goes up under the path it has on the machine.
AssetUnderItsPath(n, asset) ==
  [draft EXCEPT !.assets = [m \in DOMAIN @ \cup {"build/package/" \o n} |->
                              IF m \in DOMAIN @ THEN @[m] ELSE asset]]

\* The draft with one asset more.
WithAsset(n, asset) ==
  [draft EXCEPT !.assets = [m \in DOMAIN @ \cup {n} |-> IF m = n THEN asset ELSE @[m]]]

\* One missing asset is uploaded.
UploadAsset(n) ==
  /\ st[Job("publish")] = "uploading"
  /\ n \notin DOMAIN draft.assets
  /\ draft' = WithAsset(n, art.assets[1][n])
  /\ NoFault
  /\ UNCHANGED <<W, attempt, st, art, refused, tested>>

\* All are there: they are compared once more, and the draft becomes the release.
PublishDraft ==
  /\ st[Job("publish")] = "uploading"
  /\ DOMAIN draft.assets = AssetNames
  /\ Ended(Job("publish"), ~draft.published /\ ExistingIdentical)
  /\ draft' = IF ~draft.published /\ ExistingIdentical
              THEN [draft EXCEPT !.published = TRUE] ELSE draft
  /\ NoFault
  /\ UNCHANGED <<W, attempt, art, tested>>

\* An upload that breaks off leaves an asset that never became uploaded.
UploadInterrupted(n) ==
  /\ Fault /\ UNCHANGED tainted
  /\ st[Job("publish")] = "uploading"
  /\ n \notin DOMAIN draft.assets
  /\ draft' = WithAsset(n, [state |-> "starter", content |-> << >>])
  /\ st' = [st EXCEPT ![Job("publish")] = "failed"]
  /\ UNCHANGED <<W, attempt, art, refused, tested>>

(***************************************************************************)
(* Lost machines and further attempts                                      *)
(***************************************************************************)

\* The machine of a job is lost, or its time is over: nothing is uploaded.
Lost(j) ==
  /\ Fault /\ UNCHANGED tainted
  /\ Ready(j) \/ st[j] = "uploading"
  /\ st' = [st EXCEPT ![j] = "failed"]
  /\ UNCHANGED <<W, attempt, art, draft, refused, tested>>

Again(jobs) ==
  /\ Over
  /\ attempt < MaxAttempts
  /\ attempt' = attempt + 1
  /\ st' = [j \in Jobs |-> IF j \in jobs THEN "waiting" ELSE st[j]]
  /\ refused' = {}
  /\ UNCHANGED <<W, art, draft, faults, tested>>

\* "Re-run all jobs", "re-run failed jobs", and one job again with what needs it.
RerunAll == Again(Jobs) /\ tainted' = FALSE
RerunFailed ==
  /\ \E j \in Jobs : st[j] = "failed"
  /\ Again(UNION {Dependents(j) : j \in {x \in Jobs : st[x] = "failed"}})
  /\ UNCHANGED tainted
RerunJob(j) == st[j] # "waiting" /\ Again(Dependents(j)) /\ UNCHANGED tainted

Init ==
  /\ W \in Worlds
  /\ attempt = 1
  /\ st = [j \in Jobs |-> "waiting"]
  /\ art = [dist |-> << >>, sboms |-> << >>, verified |-> << >>, input |-> << >>,
            result |-> << >>, candidate |-> << >>, assets |-> << >>,
            evidence |-> [l \in {"rust", "csharp"} |-> [s \in Shards |-> NoEvidence]]]
  /\ draft = [assets |-> << >>, published |-> FALSE]
  /\ faults = 0 /\ tainted = FALSE
  /\ refused = {} /\ tested = {}

Next ==
  \/ Preflight \/ Build \/ BuildTouched \/ MakeSbom
  \/ \E shard \in Shards : RustShard(shard) \/ RustShardFault(shard) \/ CsharpShard(shard)
  \/ VerifyMutation
  \/ StageSigning \/ Sign \/ SignWrongly \/ CollectSigned \/ PackageRelease
  \/ PublishBegin \/ PublishDraft
  \/ \E n \in AssetNames : UploadAsset(n) \/ UploadInterrupted(n)
  \/ RerunAll \/ RerunFailed
  \/ \E j \in Jobs : Lost(j) \/ RerunJob(j)

Spec == Init /\ [][Next]_vars

(***************************************************************************)
(* Properties                                                              *)
(***************************************************************************)

\* Every variable has its type.
TypeOK ==
  /\ W.tag \in Canonical /\ W.target \in Commits
  /\ attempt \in 1 .. MaxAttempts
  /\ st \in [Jobs -> {"waiting", "ok", "failed", "uploading"}]
  /\ \A j \in Jobs : st[j] = "uploading" => j = Job("publish")
  /\ DOMAIN draft.assets \subseteq AssetNames
  /\ draft.published \in BOOLEAN
  /\ faults \in 0 .. MaxFaults
  /\ tainted \in BOOLEAN
  /\ refused \subseteq {j \in Jobs : st[j] = "failed"}

Zipped == draft.assets["zip"].content[1]
Shipped == Zipped.entries

\* PublishedIsTested: the files of a published zip are those of one bundle the runtime
\* tests ran on, byte for byte, except that each image of ours has one signature of ours
\* around the payload that was tested (bundle_seal.rs, signing.rs, package.rs).
PublishedIsTested ==
  draft.published =>
    \E tree \in tested :
      /\ DOMAIN tree = DOMAIN Shipped
      /\ \A p \in DOMAIN tree \ Targets : Shipped[p] = tree[p]
      /\ \A p \in Targets :
           /\ NormalizedPayload(Shipped[p]) = tree[p]
           /\ Len(Shipped[p].certs) = 1
           /\ Shipped[p].certs[1].signer = SignerName

\* PublishedIsConsistent: the published bundle says one version and one commit everywhere,
\* which are those of the release; the app's pin of its service is the digest of the
\* service that ships, signed though it now is; and the bundle starts: what the app needs
\* is there, nothing for tests or developers is (version.rs, publish.rs, package.rs).
PublishedIsConsistent ==
  draft.published =>
    /\ Zipped.label = W.tag
    /\ {W.manifest, W.workspace} \cup Range(W.csproj) = {W.tag}
    /\ Shipped[Launcher].version = W.tag /\ Shipped[BuildInfo].version = W.tag
    /\ Shipped[BuildInfo].commits = <<W.target>>
    /\ Shipped[Managed].pin = <<ImageDigest(Shipped[Service]).of>>
    /\ Required \cup W.xaml \subseteq DOMAIN Shipped
    /\ (Pruned \cup TestOnly \cup Developer) \cap DOMAIN Shipped = {}
    /\ Shipped[Service].loads = "system32"

\* The files a BOM speaks for.
EvidenceOf(bom) ==
  bom.root.files \cup (IF bom.root.ref = AppRoot
                       THEN UNION {c.files : c \in Range(bom.components)} ELSE {})

\* The packages of the app, and the runtime files in the archive of one.
Packages == {id \in DOMAIN W.deps : W.deps[id].type \in {"package", "runtimepack"}}
ArchiveFiles(id) ==
  LET cache == CHOOSE c \in DOMAIN W.caches : id \in DOMAIN W.caches[c]
      held == W.caches[cache][id].archives[1]
  IN {held[p] : p \in {q \in DOMAIN held : IsRuntimeSource(q)}}

\* SbomMatchesShipped: each published file is spoken for exactly once by the two published
\* BOMs, by its bytes or, for an image of ours, by the payload inside its signature; a file
\* said to be a package's is in the archive of that package and of no other, or is compiled
\* from the assembly in it (sbom.rs; the BOMs are made before the images are signed).
SbomMatchesShipped ==
  draft.published =>
    LET app == draft.assets["app"].content[1]
        engine == draft.assets["engine"].content[1]
        evidence == EvidenceOf(app) \cup EvidenceOf(engine)
    IN /\ {e.path : e \in evidence} = DOMAIN Shipped
       /\ \A e, f \in evidence : e.path = f.path => e = f
       /\ \A e \in evidence :
            IF e.path \in Targets THEN e.payload = <<NormalizedPayload(Shipped[e.path])>>
            ELSE e.sha256 = <<Shipped[e.path]>>
       /\ EvidenceOf(app) \cap EvidenceOf(engine) = {}
       /\ \A id \in DOMAIN app.components : \A e \in app.components[id].files :
            IF e.source = "exact"
            THEN {x \in Packages : Shipped[e.path] \in ArchiveFiles(x)} = {id}
            ELSE \E f \in ArchiveFiles(id) : f.il # "" /\ f.il = Shipped[e.path].il

\* The reviewed mutants, as the tools find them.
RustGood(m) ==
  \/ W.fate[m] \in {"CaughtMutant", "Unviable"}
  \/ \E a \in Range(W.ctl.baselines["rust"].accepted) : IdentityMatches(a, m)
CsharpGood(m) ==
  \/ m.status \in {"Killed", "CompileError", "Redundant"}
  \/ m.mutant \in Range(W.ctl.baselines["csharp"].accepted)

\* VerifiedIsTested: when the gate is passed, every mutant of the reviewed sources was run
\* to its end in this one attempt, by the shard that had it, and was caught, could not be
\* built or is an accepted equivalent (mutation_ci.rs).
VerifiedIsTested ==
  st[Job("verify")] = "ok" =>
    LET rust == art.evidence["rust"]
        csharp == art.evidence["csharp"]
        tried(s) == {o.mutant : o \in Range(rust[s].report[1].outcomes)}
    IN /\ \A m \in Range(W.rust) : RustGood(m) /\ \E s \in Shards : m \in tried(s)
       /\ \A p \in Reviewed(W.ctl, "csharp") :
            \E s \in Shards :
              /\ csharp[s].report # << >>
              /\ csharp[s].report[1].files[p] = W.stryker[p]
              /\ \A i \in DOMAIN W.stryker[p] : CsharpGood(W.stryker[p][i])
       /\ \A s, t \in Shards :
            rust[s].receipt[1].binding.attempt = csharp[t].receipt[1].binding.attempt

\* The report of one run of Stryker or cargo-mutants over everything reviewed.
LocalRust == RunRust(W.ctl, RustReport(W.rust, W.fate))
LocalCsharp == RunCsharp(W.ctl, CsharpReport(Range(W.csharp)))

\* What the lanes are known to judge differently: an accepted Rust identity that is
\* generated fails the shards, one that is not, or has no column, the local lane, as does
\* a reviewed file without a mutant.  An id that Stryker uses twice, and a mutant of a
\* reviewed file that it runs unasked, fail the shards only.
LanesDiffer ==
  \/ W.ctl.baselines["rust"].accepted # << >>
  \/ \E p \in Reviewed(W.ctl, "rust") : \A m \in Range(W.rust) : m.path # p
  \/ \E p \in Reviewed(W.ctl, "csharp") :
       W.stryker[p] = << >> \/ \E i \in DOMAIN W.stryker[p] : W.stryker[p][i].ran
  \/ \E p, q \in DOMAIN W.stryker : \E i \in DOMAIN W.stryker[p], j \in DOMAIN W.stryker[q] :
       <<p, i>> # <<q, j>> /\ W.stryker[p][i].id = W.stryker[q][j].id

\* The commit is one the controller runs its tools on at all.
Admitted ==
  /\ PrepareOk(W.co, Bind)
  /\ \A l \in {"rust", "csharp"} :
       /\ ReviewedPolicy(W.ctl, l)
       /\ SourceInventory(W.ctl, W.co, l).ok
       /\ Policies(W.ctl, W.co, l).ok

\* LanesAgree: except where they are known to differ, the shards and their verifier pass a
\* commit exactly when the developer's own lanes do ("a lane that decides it for itself is
\* a lane running a different program", mutation.rs).
LanesAgree ==
  LET passed == st[Job("verify")] = "ok"
      failed == refused \cap MutationJobs # {} /\ ~tainted /\ Admitted
  IN (passed \/ failed) /\ ~LanesDiffer => (passed <=> LocalRust /\ LocalCsharp)

\* GateIsRight: what passes the gate was tested as it is, and the two implementations of
\* the gate judge alike.
GateIsRight == VerifiedIsTested /\ LanesAgree

\* DraftOfOneCandidate: what is on the draft belongs together: the checksum is the zip's
\* and the BOMs speak of its files, whatever was started again in between (release.yml:
\* the draft is never clobbered).
DraftOfOneCandidate ==
  LET there(n) == n \in DOMAIN draft.assets /\ draft.assets[n].state = "uploaded"
      content(n) == draft.assets[n].content[1]
  IN /\ there("zip") /\ there("SHA256SUMS") => content("SHA256SUMS").of = content("zip")
     /\ \A n \in {"app", "engine"} : there("zip") /\ there(n) =>
          \A e \in EvidenceOf(content(n)) :
            e.path \in Targets => e.payload = <<NormalizedPayload(content("zip").entries[e.path])>>

\* HealthyJobsPass: where nothing is wrong with the repository and no artifact is spoiled, a
\* check fails only for what an earlier attempt left: shards of another attempt, and a draft
\* with other bytes, a broken upload, or already published.
HealthyJobsPass ==
  W.sound /\ ~tainted =>
    \A j \in refused :
      \/ j = Job("verify") /\ \E l \in {"rust", "csharp"}, s \in Shards :
           art.evidence[l][s].receipt[1].binding.attempt # attempt
      \/ j = Job("publish") /\ (draft.published \/ ~ExistingIdentical)
      \/ j = Job("preflight") /\ draft.published
      \/ draft.published

\* PublishedIsSound: what is on the draft belongs together, and what is published was
\* tested as it is and says one thing about itself everywhere.
PublishedIsSound ==
  TypeOK /\ PublishedIsTested /\ PublishedIsConsistent /\ DraftOfOneCandidate
=============================================================================
