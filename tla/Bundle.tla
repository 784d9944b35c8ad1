---------------------------- MODULE Bundle ----------------------------
(* The distributable bundle of a release and the checks every release command *)
(* makes on it: assembling it (xtask/src/publish.rs), naming its version and *)
(* commit (version.rs), sealing and verifying it (bundle_seal.rs), handing its *)
(* own images to the signer and taking them back (signing.rs), and zipping it *)
(* (package.rs).  The module has operators only; ReleasePipeline runs them.   *)
(*                                                                         *)
(* A file is a record: what its bytes say (part, commit, build, version,       *)
(* commits, pin, loads) and how they are laid out as an executable (magic,     *)
(* length, headers, raw, table, certs), in units of 8 bytes.  Its SHA-256 is  *)
(* the whole record: equal digests are equal files.  A tree is a function from *)
(* the paths it holds to their files; manifests are functions from paths too,  *)
(* so the sorted order both have in the code is not repeated here.             *)
EXTENDS Integers, Sequences, FiniteSets, FiniteSetsExt, Functions

CONSTANTS
  FirstParty,     \* FIRST_PARTY_PES: the path of each image of ours |-> its flat stage name
  Required,       \* REQUIRED and ENGINE_BINS: paths without which the app does not start
  Pruned,         \* paths the pruner removes and that must not ship
  TestOnly,       \* paths only a UI-test bundle has: the seam marker, the fixture directories
  Developer,      \* paths for developers only: fmf.exe, completions
  Folded,         \* path |-> its lower-case form
  Canonical,      \* versions that are canonical X.Y.Z triples
  Commits         \* well-formed object names of 40 lower-case hexadecimal digits

\* validate_first_party_pe_map: the table is a constant of the program, non-empty and
\* without two images on one path or under one stage name.
ASSUME FirstPartyAssumption ==
  FirstParty # << >> /\ IsInjective(FirstParty)

Service == "app/fmf-service.exe"
Managed == "app/FindMyFiles.dll"
Launcher == "FindMyFiles.exe"
BuildInfo == "BUILDINFO.txt"
Readme == "README.txt"
Licence == "LICENSE.txt"
Notices == "THIRD-PARTY-NOTICES.txt"

Targets == DOMAIN FirstParty

\* The app's assembly is one of the files the app does not start without, and what is
\* pruned lies below the app, apart from the files at the root.
ASSUME PathsAssumption ==
  /\ Managed \in Required
  /\ Pruned \cap {Launcher, Readme, BuildInfo, Licence, Notices} = {}

\* What is told of a file; an image without a certificate table has no certificates.
FileFields == {"kind", "part", "build", "version", "commits", "pin", "loads", "magic",
               "length", "headers", "raw", "table", "certs", "il"}
IsFile(f) ==
  /\ f = [x \in FileFields |-> f[x]]
  /\ f.table \in [at : Nat, size : Nat]
  /\ f.table.at = 0 => f.certs = << >>

Fail == [ok |-> FALSE]

(***************************************************************************)
(* Executables                                                             *)
(***************************************************************************)

\* Mutant: nothing looks behind the first entry.
FirstCertificate(f) == f.certs # << >> /\ f.certs[1].pkcs7

\* validate_certificate_table: the table holds exactly one PKCS#7 entry and nothing else.
OneCertificate(f) ==
  /\ Len(f.certs) = 1
  /\ f.certs[1].pkcs7
  /\ f.certs[1].length = f.table.size

\* parse_pe: the sections lie behind the headers and inside the file; a certificate
\* table, when there is one, starts behind the last section and ends the file.
WellFormedImage(f) ==
  LET sections == {s \in f.raw : s.size > 0}
      imageEnd == Max({f.headers} \cup {s.at + s.size : s \in sections})
  IN /\ f.magic
     /\ f.headers <= f.length
     /\ \A s \in sections : s.at >= f.headers /\ s.at + s.size <= f.length
     /\ (f.table.at = 0) <=> (f.table.size = 0)
     /\ f.table.at # 0 =>
          /\ f.table.at >= imageEnd
          /\ f.table.at + f.table.size = f.length
          /\ OneCertificate(f)

\* Mutant: the certificates themselves stay in.
WithoutTableEntry(f) == [f EXCEPT !.table = [at |-> 0, size |-> 0]]

\* normalized_pe_payload_sha256: everything up to the certificate table, without the
\* checksum and the entry of the directory that points at the table; the image must
\* have a certificate exactly when the bundle is in the Signed state.
NormalizedPayload(f) ==
  [f EXCEPT !.length = IF f.table.at = 0 THEN f.length ELSE f.table.at,
            !.table = [at |-> 0, size |-> 0], !.certs = << >>]

AsState(f, state) == WellFormedImage(f) /\ (f.table.at # 0 <=> state = "signed")

\* pe_digest::sha256_file: the Authenticode digest of an image, signed or not.
ImageDigest(f) ==
  IF f.magic /\ f.headers <= f.length THEN [ok |-> TRUE, of |-> NormalizedPayload(f)] ELSE Fail

(***************************************************************************)
(* The version and the commit a bundle says it is                          *)
(***************************************************************************)

\* workspace_member_names and parse_local_lock_versions: each member of the workspace,
\* named once, has exactly one entry without a source in the lock file.
LocalLockVersions(w) ==
  LET local(m) == {p \in w.lock : p.name = m /\ p.source = "local"}
  IN IF w.members = {} \/ \E m \in w.members : Cardinality(local(m)) # 1
     THEN Fail
     ELSE [ok |-> TRUE,
           of |-> [m \in w.members |-> (CHOOSE p \in local(m) : TRUE).version]]

\* validate_release_versions: every authority is canonical and says what the tag says.
ValidReleaseVersions(tag, authorities, lockVersions) ==
  /\ \A v \in {tag} \cup Range(authorities) \cup Range(lockVersions) : v \in Canonical
  /\ DOMAIN lockVersions # {}
  /\ \A v \in Range(authorities) \cup Range(lockVersions) : v = tag

\* check_release_tag: the tag, the manifest of release-please, the workspace, the project
\* file with its one Version element and every local package of the lock file agree.
CheckReleaseTag(w, tag) ==
  /\ Len(w.csproj) = 1
  /\ LocalLockVersions(w).ok
  /\ ValidReleaseVersions(tag, <<w.manifest, w.workspace, w.csproj[1]>>,
                          LocalLockVersions(w).of)

\* select_source_commit: a commit the build was told of must be well formed, and comes
\* before the commit of the checkout.
SelectSourceCommit(forced, head) ==
  LET candidates == forced \o head
  IN IF candidates = << >> THEN [ok |-> TRUE, of |-> << >>]
     ELSE IF candidates[1] \in Commits THEN [ok |-> TRUE, of |-> <<candidates[1]>>] ELSE Fail

\* render_buildinfo: the version, and the commit when there is one.
RenderBuildinfo(template, version, commit) ==
  [template EXCEPT !.version = version, !.commits = commit]

\* parse_buildinfo_source_commit: exactly one well-formed commit field.
BuildinfoCommit(f) ==
  IF Len(f.commits) = 1 /\ f.commits[1] \in Commits
  THEN [ok |-> TRUE, of |-> f.commits[1]] ELSE Fail

\* Mutant: the version inside the launcher is not looked at.
BuildinfoIdentity(tree, version, commit) ==
  /\ version \in Canonical
  /\ tree[BuildInfo].version = version
  /\ commit # << >> => BuildinfoCommit(tree[BuildInfo]) = [ok |-> TRUE, of |-> commit[1]]

\* validate_bundle_identity: the product version of the launcher and the version in
\* BUILDINFO are the one the build was stamped with.
ValidBundleIdentity(tree, version, commit) ==
  /\ version \in Canonical
  /\ tree[Launcher].version = version
  /\ tree[BuildInfo].version = version
  /\ commit # << >> => BuildinfoCommit(tree[BuildInfo]) = [ok |-> TRUE, of |-> commit[1]]

(***************************************************************************)
(* Sealing                                                                 *)
(***************************************************************************)

\* The identity of one file: BundleFileIdentity.
Identity(p, f) ==
  [sha256 |-> f, payload |-> IF p \in Targets THEN <<NormalizedPayload(f)>> ELSE << >>]

\* walk_bundle: every entry is a plain file, no two differ by case only, and each image of
\* ours is in the state asked for.
WalkOk(tree, state) ==
  /\ \A p \in DOMAIN tree : tree[p].kind = "file"
  /\ \A p, q \in DOMAIN tree : Folded[p] = Folded[q] => p = q
  /\ \A p \in DOMAIN tree \cap Targets : AsState(tree[p], state)

\* collect_bundle_files: the identities of a whole tree, which has all our images.
CollectBundleFiles(tree, state) ==
  IF DOMAIN tree # {} /\ WalkOk(tree, state) /\ Targets \subseteq DOMAIN tree
  THEN [ok |-> TRUE, files |-> [p \in DOMAIN tree |-> Identity(p, tree[p])]]
  ELSE Fail

\* validate_manifest: the checks a manifest passes when it is written and when it is read.
ValidManifest(m) ==
  /\ m.commit \in Commits
  /\ DOMAIN m.files # {}
  /\ \A p, q \in DOMAIN m.files : Folded[p] = Folded[q] => p = q
  /\ {p \in DOMAIN m.files : m.files[p].payload # << >>} = Targets

\* read_bundle_source_commit.
TreeCommit(tree) ==
  IF BuildInfo \in DOMAIN tree THEN BuildinfoCommit(tree[BuildInfo]) ELSE Fail

\* seal_to: the manifest of a tree.
SealTo(tree, state) ==
  LET Valid(m) == IF ValidManifest(m) THEN [ok |-> TRUE, manifest |-> m] ELSE Fail
      Sealed(commit, files) ==
        IF commit.ok /\ files.ok
        THEN Valid([commit |-> commit.of, state |-> state, files |-> files.files])
        ELSE Fail
  IN Sealed(TreeCommit(tree), CollectBundleFiles(tree, state))

\* compare_exact: the same paths, and for each the same bytes and the same payload.
CompareExact(expected, actual) ==
  /\ DOMAIN expected = DOMAIN actual
  /\ \A p \in DOMAIN expected :
       /\ expected[p].sha256 = actual[p].sha256
       /\ expected[p].payload = actual[p].payload

\* verify_at: a tree is byte for byte the one its manifest describes.
VerifyAt(tree, m, state) ==
  LET Same(actual) == actual.ok /\ CompareExact(m.files, actual.files)
  IN /\ ValidManifest(m)
     /\ m.state = state
     /\ TreeCommit(tree) = [ok |-> TRUE, of |-> m.commit]
     /\ Same(CollectBundleFiles(tree, state))

\* verify_signed_transition_at: against the unsigned manifest, our images changed and kept
\* their payload; every other file is the same.
VerifySignedTransition(tree, unsigned) ==
  LET Kept(p, before, after) ==
        IF p \in Targets
        THEN before.sha256 # after.sha256 /\ before.payload = after.payload
        ELSE before.sha256 = after.sha256
      Transition(signed) ==
        /\ signed.ok
        /\ DOMAIN signed.files = DOMAIN unsigned.files
        /\ \A p \in DOMAIN unsigned.files : Kept(p, unsigned.files[p], signed.files[p])
  IN /\ ValidManifest(unsigned)
     /\ unsigned.state = "unsigned"
     /\ TreeCommit(tree) = [ok |-> TRUE, of |-> unsigned.commit]
     /\ Transition(CollectBundleFiles(tree, "signed"))

\* run_seal: a signed tree is sealed only when it is the signing of the unsigned one.
RunSeal(tree, state, unsigned) ==
  IF state = "signed" /\ ~VerifySignedTransition(tree, unsigned) THEN Fail
  ELSE SealTo(tree, state)

(***************************************************************************)
(* Signing                                                                 *)
(***************************************************************************)

\* stage, run_stage: one copy of each image of ours, under its stage name.
Stage(tree) ==
  IF Targets \subseteq DOMAIN tree
  THEN [ok |-> TRUE,
        files |-> [n \in Range(FirstParty) |->
                     tree[CHOOSE p \in Targets : FirstParty[p] = n]]]
  ELSE Fail

\* collect: each result back over the image it was staged from.
Collect(tree, signed) ==
  [p \in DOMAIN tree \cup Targets |->
     IF p \in Targets THEN signed[FirstParty[p]] ELSE tree[p]]

\* collect_preserving_images_with, run_collect: every result is there and has the digest
\* of the image it replaces before the first one is copied; the copies are digested again.
CollectPreservingImages(tree, signed) ==
  LET same(p, f) == ImageDigest(f).ok /\ ImageDigest(f) = ImageDigest(tree[p])
  IN IF /\ Targets \subseteq DOMAIN tree
        /\ Range(FirstParty) \subseteq DOMAIN signed
        /\ \A p \in Targets : same(p, signed[FirstParty[p]])
        /\ \A p \in Targets : same(p, Collect(tree, signed)[p])
     THEN [ok |-> TRUE, tree |-> Collect(tree, signed)]
     ELSE Fail

(***************************************************************************)
(* Assembling                                                              *)
(***************************************************************************)

\* pe_load::require_system32_only: the service loads its libraries from System32 only.
System32Only(f) == f.magic /\ f.loads = "system32"

\* verify_test_artifacts: a bundle that ships has no test seam and no fixture directory, a
\* UI-test bundle has them.
VerifyTestArtifacts(tree, expected) ==
  IF expected THEN TestOnly \subseteq DOMAIN tree ELSE TestOnly \cap DOMAIN tree = {}

\* prune_locales, prune_publish_artifacts and copy_engine_bins after dotnet publish: the
\* output for this service, without what the app does not ship, with the engine's files.
PrunedWithEngine(emitted, engine) ==
  [p \in (DOMAIN emitted \ Pruned) \cup {Service} |->
     IF p = Service THEN engine[Service] ELSE emitted[p]]

\* verify_bundle with expected_xbf_paths: what the app needs to start is there, one
\* compiled form of every page of the source (at least one), and nothing pruned.
VerifyBundle(tree, xaml) ==
  /\ \A p \in Required : p \in DOMAIN tree /\ tree[p].length > 0
  /\ xaml # {}
  /\ \A p \in xaml : p \in DOMAIN tree /\ tree[p].length > 0
  /\ Pruned \cap DOMAIN tree = {}

\* place_launcher_and_readme, place_buildinfo and place_legal_notices.
PlaceRootFiles(tree, engine, texts, version, commit) ==
  [p \in DOMAIN tree \cup {Launcher, Readme, BuildInfo, Licence, Notices} |->
     CASE p = Launcher -> engine[Launcher]
       [] p = BuildInfo -> RenderBuildinfo(texts[BuildInfo], version, commit)
       [] p \in {Readme, Licence, Notices} -> texts[p]
       [] OTHER -> tree[p]]

\* run_bundle: the commit is settled first; the digest of the service is derived, embedded
\* in the managed assembly (emitted) and checked again on the copy; the result is verified.
RunBundle(w, engine, version, commit, seams) ==
  LET digest == ImageDigest(engine[Service])
      Pinned(emitted) == [p \in DOMAIN emitted |->
                            IF p = Managed THEN [emitted[p] EXCEPT !.pin = <<digest.of>>]
                            ELSE emitted[p]]
      Verified(app, tree) ==
        IF /\ ImageDigest(app[Service]) = digest
           /\ System32Only(app[Service])
           /\ VerifyBundle(app, w.xaml)
           /\ ValidBundleIdentity(tree, version, commit.of)
        THEN [ok |-> TRUE, tree |-> tree] ELSE Fail
      Placed(app) ==
        Verified(app, PlaceRootFiles(app, engine, w.texts, version, commit.of))
  IN IF /\ commit.ok
        /\ System32Only(engine[Service])
        /\ digest.ok
        /\ VerifyTestArtifacts(w.Emit[seams], seams)
     THEN Placed(PrunedWithEngine(Pinned(w.Emit[seams]), engine))
     ELSE Fail

(***************************************************************************)
(* Packaging                                                               *)
(***************************************************************************)

\* verify_release_boundary: the checks of publish that matter most, made again.
VerifyReleaseBoundary(tree) ==
  /\ System32Only(tree[Service])
  /\ VerifyTestArtifacts(tree, FALSE)
  /\ Developer \cap DOMAIN tree = {}

\* package_label: a tag names the version the bundle carries.
PackageLabel(tag, version) ==
  IF tag = << >> THEN [ok |-> TRUE, of |-> version]
  ELSE IF tag[1] \in Canonical /\ tag[1] = version THEN [ok |-> TRUE, of |-> tag[1]] ELSE Fail

\* write_zip: the files of the seal, each read again and still the one sealed.
WriteZip(tree, files) ==
  IF \A p \in DOMAIN files : p \in DOMAIN tree /\ tree[p] = files[p].sha256
  THEN [ok |-> TRUE, entries |-> [p \in DOMAIN files |-> tree[p]]]
  ELSE Fail

\* run: the bundle is signed exactly when it is packaged for a tag.
Package(tree, tag) ==
  LET Zipped(label, zip) ==
        IF label.ok /\ zip.ok THEN [ok |-> TRUE, label |-> label.of, zip |-> zip.entries] ELSE Fail
      Sealed(sealed) ==
        IF /\ sealed.ok
           /\ VerifyReleaseBoundary(tree)
           /\ {BuildInfo, Readme} \subseteq DOMAIN tree
           /\ tree[Readme].part = "readme"
        THEN Zipped(PackageLabel(tag, tree[BuildInfo].version), WriteZip(tree, sealed.files))
        ELSE Fail
  IN Sealed(CollectBundleFiles(tree, IF tag = << >> THEN "unsigned" ELSE "signed"))
=============================================================================
