------------------------ MODULE ReleasePipelineProofs ------------------------
(***************************************************************************)
(* Proofs about ReleasePipeline for any bundle, world, attempts and faults. *)
(***************************************************************************)
EXTENDS ReleasePipeline, FiniteSetTheorems, TLAPS

IsTree(t) == t = [p \in DOMAIN t |-> t[p]]

\* An unsigned image is its own payload.
LEMMA UnsignedIsPayload ==
  ASSUME NEW f, IsFile(f), AsState(f, "unsigned")
  PROVE  NormalizedPayload(f) = f
<1>1. f.table.at = 0 /\ f.table.size = 0
  BY DEF AsState, WellFormedImage, IsFile
<1>2. f.table = [at |-> 0, size |-> 0] /\ f.certs = << >>
  BY <1>1 DEF IsFile
<1>3. f = [x \in FileFields |-> f[x]]
  BY DEF IsFile
<1>4. NormalizedPayload(f) = [f EXCEPT !.length = f.length, !.table = f.table, !.certs = f.certs]
  BY <1>1, <1>2 DEF NormalizedPayload
<1> QED
  BY <1>3, <1>4 DEF FileFields

\* A tree that is as its manifest says is the tree the manifest was made of.
LEMMA VerifiedIsSealed ==
  ASSUME NEW sealed, NEW tree, NEW s, NEW t, IsTree(sealed), IsTree(tree),
         SealTo(sealed, s).ok, VerifyAt(tree, SealTo(sealed, s).manifest, t)
  PROVE  tree = sealed
<1> DEFINE m == SealTo(sealed, s).manifest
           c == CollectBundleFiles(sealed, s)
           d == CollectBundleFiles(tree, t)
<1>1. c.ok /\ m.files = c.files
  BY DEF SealTo, Fail
<1>2. m.files = [p \in DOMAIN sealed |-> Identity(p, sealed[p])]
  BY <1>1 DEF CollectBundleFiles, Fail
<1>3. d.ok /\ CompareExact(m.files, d.files)
  BY DEF VerifyAt
<1>4. d.files = [p \in DOMAIN tree |-> Identity(p, tree[p])]
  BY <1>3 DEF CollectBundleFiles, Fail
<1>5. DOMAIN tree = DOMAIN sealed
  BY <1>2, <1>3, <1>4 DEF CompareExact
<1>6. \A p \in DOMAIN sealed : sealed[p] = tree[p]
  BY <1>2, <1>3, <1>4, <1>5 DEF CompareExact, Identity
<1> QED
  BY <1>5, <1>6 DEF IsTree

\* The files of the app and the whole bundle that RunBundle makes.
AppOf(w, engine, seams) ==
  PrunedWithEngine([p \in DOMAIN w.Emit[seams] |->
                      IF p = Managed
                      THEN [w.Emit[seams][p] EXCEPT !.pin = <<ImageDigest(engine[Service]).of>>]
                      ELSE w.Emit[seams][p]], engine)
BundleOf(w, engine, version, commit, seams) ==
  PlaceRootFiles(AppOf(w, engine, seams), engine, w.texts, version, commit)

\* What a bundle that was made has been checked for.
LEMMA BundleIsChecked ==
  ASSUME NEW w, NEW engine, NEW version, NEW commit, NEW seams,
         RunBundle(w, engine, version, commit, seams).ok
  PROVE  /\ commit.ok /\ ImageDigest(engine[Service]).ok
         /\ VerifyBundle(AppOf(w, engine, seams), w.xaml)
         /\ RunBundle(w, engine, version, commit, seams).tree
              = BundleOf(w, engine, version, commit.of, seams)
         /\ ValidBundleIdentity(BundleOf(w, engine, version, commit.of, seams), version, commit.of)
<1> DEFINE app == AppOf(w, engine, seams)
           tree == BundleOf(w, engine, version, commit.of, seams)
<1>1. commit.ok /\ ImageDigest(engine[Service]).ok
  BY DEF RunBundle, Fail
<1>2. RunBundle(w, engine, version, commit, seams) =
        IF /\ ImageDigest(app[Service]) = ImageDigest(engine[Service])
           /\ System32Only(app[Service])
           /\ VerifyBundle(app, w.xaml)
           /\ ValidBundleIdentity(tree, version, commit.of)
        THEN [ok |-> TRUE, tree |-> tree] ELSE Fail
  BY Zenon DEF RunBundle, Fail, AppOf, BundleOf
<1> QED
  BY <1>1, <1>2 DEF Fail

RootFiles == {Launcher, Readme, BuildInfo, Licence, Notices}
Commit == SelectSourceCommit(<<W.target>>, W.head)
Made == RunBundle(Bundling, Engine, W.tag, Commit, FALSE)

\* A bundle that may be released as this version, once its images are signed.
Releasable(tree) ==
  /\ IsTree(tree)
  /\ RootFiles \cup {Service, Managed} \cup Required \cup W.xaml \subseteq DOMAIN tree
  /\ Pruned \cap DOMAIN tree = {}
  /\ {W.manifest, W.workspace} \cup Range(W.csproj) = {W.tag}
  /\ tree[Launcher].version = W.tag /\ tree[BuildInfo].version = W.tag
  /\ tree[BuildInfo].commits = <<W.target>>
  /\ ImageDigest(tree[Service]).ok
  /\ tree[Managed].pin = <<ImageDigest(tree[Service]).of>>
  /\ Targets \subseteq DOMAIN tree
  /\ \A p \in Targets : IsFile(tree[p]) /\ NormalizedPayload(tree[p]) = tree[p]

\* The authorities of the version all say what the tag says.
LEMMA TagIsTheVersion ==
  ASSUME W \in Worlds, CheckReleaseTag(W, W.tag)
  PROVE  {W.manifest, W.workspace} \cup Range(W.csproj) = {W.tag}
<1> DEFINE authorities == <<W.manifest, W.workspace, W.csproj[1]>>
<1>1. W.csproj \in Seq(STRING) /\ Len(W.csproj) = 1
  BY WorldsAssumption DEF CheckReleaseTag
<1>2. Range(W.csproj) = {W.csproj[1]}
  BY <1>1 DEF Range
<1>3. ValidReleaseVersions(W.tag, authorities, LocalLockVersions(W).of)
  BY DEF CheckReleaseTag
<1>4. \A v \in Range(authorities) : v = W.tag
  BY <1>3 DEF ValidReleaseVersions
<1>5. Range(authorities) = {W.manifest, W.workspace, W.csproj[1]}
  BY DEF Range
<1> QED
  BY <1>2, <1>4, <1>5

\* What the checkout builds for the bundle.
LEMMA BundlingIs ==
  ASSUME W \in Worlds
  PROVE  /\ Bundling.xaml = W.xaml /\ Bundling.texts = W.texts
         /\ DOMAIN Bundling.Emit[FALSE] = DOMAIN W.Emit[FALSE]
         /\ \A p \in DOMAIN W.Emit[FALSE] : IsFile(Bundling.Emit[FALSE][p])
         /\ \A p \in {Launcher, Service} : IsFile(Engine[p])
         /\ \A p \in RootFiles \ {Launcher} : IsFile(W.texts[p])
<1> DEFINE emit == [s \in BOOLEAN |-> [p \in DOMAIN W.Emit[s] |->
                      IF p \in Targets THEN Stamp(W.Emit[s][p]) ELSE W.Emit[s][p]]]
<1>1. {"Emit", "texts", "xaml"} \subseteq DOMAIN W /\ DOMAIN W.Emit = BOOLEAN
  BY WorldsAssumption
<1>2. Bundling = [W EXCEPT !.Emit = emit]
  BY DEF Bundling
<1>3. Bundling.xaml = W.xaml /\ Bundling.texts = W.texts /\ Bundling.Emit = emit
  BY <1>1, <1>2
<1>4. ASSUME NEW f, IsFile(f) PROVE IsFile(Stamp(f))
  BY <1>4 DEF IsFile, Stamp, FileFields
<1>5. \A p \in DOMAIN W.Emit[FALSE] : IsFile(W.Emit[FALSE][p])
  BY WorldsAssumption
<1>6. \A p \in DOMAIN W.Emit[FALSE] : IsFile(emit[FALSE][p])
  BY <1>4, <1>5
<1>7. \A p \in {Launcher, Service} : p \in DOMAIN W.engine /\ IsFile(W.engine[p])
  BY WorldsAssumption
<1>8. \A p \in {Launcher, Service} : IsFile(Engine[p])
  BY <1>4, <1>7 DEF Engine
<1>9. \A p \in RootFiles \ {Launcher} : IsFile(W.texts[p])
  BY WorldsAssumption DEF RootFiles
<1>10. DOMAIN emit[FALSE] = DOMAIN W.Emit[FALSE]
  OBVIOUS
<1> HIDE DEF emit
<1> QED
  BY <1>3, <1>6, <1>8, <1>9, <1>10

\* The files of a made bundle, and that its app pins the service that is in it.
LEMMA MadeFiles ==
  ASSUME W \in Worlds, NEW commit, VerifyBundle(AppOf(Bundling, Engine, FALSE), W.xaml)
  PROVE  LET app == AppOf(Bundling, Engine, FALSE)
             tree == BundleOf(Bundling, Engine, W.tag, commit, FALSE)
         IN /\ IsTree(tree) /\ DOMAIN tree = DOMAIN app \cup RootFiles
            /\ \A p \in DOMAIN tree : IsFile(tree[p])
            /\ tree[Service] = Engine[Service] /\ Service \in DOMAIN tree
            /\ tree[Managed].pin = <<ImageDigest(Engine[Service]).of>>
            /\ tree[BuildInfo].commits = commit
<1> DEFINE app == AppOf(Bundling, Engine, FALSE)
           tree == BundleOf(Bundling, Engine, W.tag, commit, FALSE)
           emit == Bundling.Emit[FALSE]
           digest == ImageDigest(Engine[Service])
           pinned == [p \in DOMAIN emit |->
                        IF p = Managed THEN [emit[p] EXCEPT !.pin = <<digest.of>>] ELSE emit[p]]
<1>1. /\ \A p \in DOMAIN emit : IsFile(emit[p])
      /\ \A p \in {Launcher, Service} : IsFile(Engine[p])
      /\ \A p \in RootFiles \ {Launcher} : IsFile(W.texts[p])
      /\ Bundling.texts = W.texts
  BY BundlingIs, Zenon
<1>2. app = PrunedWithEngine(pinned, Engine)
  BY Zenon DEF AppOf
<1>3. tree = PlaceRootFiles(app, Engine, W.texts, W.tag, commit)
  BY <1>1, Zenon DEF BundleOf
<1>4. ASSUME NEW p \in DOMAIN pinned PROVE IsFile(pinned[p])
  <2>1. IsFile(emit[p])
    BY <1>1
  <2>2. ASSUME NEW f, NEW v, IsFile(f) PROVE IsFile([f EXCEPT !.pin = v])
    BY <2>2 DEF IsFile, FileFields
  <2> QED
    BY <2>1, <2>2
<1> HIDE DEF digest
<1>5. /\ DOMAIN pinned = DOMAIN emit
      /\ Managed \in DOMAIN emit =>
           /\ IsFile(emit[Managed]) /\ pinned[Managed] = [emit[Managed] EXCEPT !.pin = <<digest.of>>]
  BY <1>1
<1> HIDE DEF pinned, emit
<1>6. /\ app = [p \in (DOMAIN pinned \ Pruned) \cup {Service} |->
                  IF p = Service THEN Engine[Service] ELSE pinned[p]]
  BY <1>2 DEF PrunedWithEngine
<1> HIDE DEF app
<1>7. \A p \in DOMAIN app : IsFile(app[p])
  BY <1>1, <1>4, <1>6
<1>8. tree = [p \in DOMAIN app \cup RootFiles |->
                CASE p = Launcher -> Engine[Launcher]
                  [] p = BuildInfo -> RenderBuildinfo(W.texts[BuildInfo], W.tag, commit)
                  [] p \in {Readme, Licence, Notices} -> W.texts[p]
                  [] OTHER -> app[p]]
  BY <1>3 DEF PlaceRootFiles, RootFiles
<1> HIDE DEF tree
<1>9. /\ IsTree(tree) /\ DOMAIN tree = DOMAIN app \cup RootFiles
  BY <1>8 DEF IsTree
<1>10. /\ tree[Launcher] = Engine[Launcher]
       /\ tree[BuildInfo] = RenderBuildinfo(W.texts[BuildInfo], W.tag, commit)
       /\ \A p \in {Readme, Licence, Notices} : tree[p] = W.texts[p]
       /\ \A p \in DOMAIN app \ RootFiles : tree[p] = app[p]
  BY <1>8 DEF RootFiles, Launcher, BuildInfo, Readme, Licence, Notices
<1>11. IsFile(tree[BuildInfo]) /\ tree[BuildInfo].commits = commit
  <2>1. IsFile(W.texts[BuildInfo])
    BY <1>1 DEF RootFiles, Launcher, BuildInfo
  <2> QED
    BY <2>1, <1>10 DEF RenderBuildinfo, IsFile, FileFields
<1>12. \A p \in DOMAIN tree : IsFile(tree[p])
  BY <1>1, <1>7, <1>9, <1>10, <1>11 DEF RootFiles
<1>13. Service \notin RootFiles /\ Managed \notin RootFiles /\ Managed # Service
  BY DEF RootFiles, Launcher, BuildInfo, Readme, Licence, Notices, Service, Managed
<1>14. Managed \in DOMAIN app
  BY PathsAssumption DEF VerifyBundle, app
<1>15. app[Service] = Engine[Service] /\ Service \in DOMAIN app
  BY <1>6
<1>16. app[Managed].pin = <<digest.of>>
  BY <1>5, <1>6, <1>13, <1>14 DEF IsFile, FileFields
<1> QED
  BY <1>9, <1>10, <1>11, <1>12, <1>13, <1>14, <1>15, <1>16 DEF tree, app, digest

\* A bundle that the build job made, checked and sealed may be released.
LEMMA BuiltIsReleasable ==
  ASSUME W \in Worlds, CheckReleaseTag(W, W.tag), Made.ok,
         BuildinfoCommit(Made.tree[BuildInfo]) = [ok |-> TRUE, of |-> W.target],
         Targets \subseteq DOMAIN Made.tree,
         \A p \in Targets : AsState(Made.tree[p], "unsigned")
  PROVE  Releasable(Made.tree)
<1> DEFINE app == AppOf(Bundling, Engine, FALSE)
           tree == BundleOf(Bundling, Engine, W.tag, Commit.of, FALSE)
<1>1. /\ Commit.ok /\ ImageDigest(Engine[Service]).ok
      /\ VerifyBundle(app, W.xaml)
      /\ Made.tree = tree
      /\ ValidBundleIdentity(tree, W.tag, Commit.of)
  <2>1. RunBundle(Bundling, Engine, W.tag, Commit, FALSE).ok
    BY DEF Made
  <2>2. /\ Commit.ok /\ ImageDigest(Engine[Service]).ok
        /\ VerifyBundle(app, Bundling.xaml)
        /\ Made.tree = tree
        /\ ValidBundleIdentity(tree, W.tag, Commit.of)
    BY <2>1, BundleIsChecked, Zenon DEF Made
  <2> QED
    BY <2>2, BundlingIs, Zenon
<1>2. /\ IsTree(tree) /\ DOMAIN tree = DOMAIN app \cup RootFiles
      /\ \A p \in DOMAIN tree : IsFile(tree[p])
      /\ tree[Service] = Engine[Service] /\ Service \in DOMAIN tree
      /\ tree[Managed].pin = <<ImageDigest(Engine[Service]).of>>
      /\ tree[BuildInfo].commits = Commit.of
  BY <1>1, MadeFiles
<1> HIDE DEF app, tree
<1>3. Required \cup W.xaml \subseteq DOMAIN app /\ Pruned \cap DOMAIN app = {}
  BY <1>1 DEF VerifyBundle
<1>4. Pruned \cap DOMAIN tree = {}
  BY <1>2, <1>3, PathsAssumption DEF RootFiles
<1>5. tree[Launcher].version = W.tag /\ tree[BuildInfo].version = W.tag
  BY <1>1 DEF ValidBundleIdentity
<1>6. tree[BuildInfo].commits = <<W.target>>
  <2>1. Len(Commit.of) = 1 /\ Commit.of[1] = W.target
    BY <1>1, <1>2, Zenon DEF BuildinfoCommit, Fail
  <2>2. Commit.of = << >> \/ Commit.of = <<(<<W.target>> \o W.head)[1]>>
    BY <1>1 DEF Commit, SelectSourceCommit, Fail
  <2> QED
    BY <2>1, <2>2, <1>2
<1>7. \A p \in Targets : IsFile(tree[p]) /\ NormalizedPayload(tree[p]) = tree[p]
  BY <1>1, <1>2, UnsignedIsPayload
<1>8. {W.manifest, W.workspace} \cup Range(W.csproj) = {W.tag}
  BY TagIsTheVersion
<1>9. Managed \in DOMAIN tree
  BY <1>2, <1>3, PathsAssumption
<1> QED
  BY <1>1, <1>2, <1>3, <1>4, <1>5, <1>6, <1>7, <1>8, <1>9 DEF Releasable

\* A tree that is another one with every image of ours signed, once and by us.
SignedFrom(signed, tree) ==
  /\ IsTree(signed) /\ DOMAIN signed = DOMAIN tree
  /\ \A p \in DOMAIN tree \ Targets : signed[p] = tree[p]
  /\ \A p \in Targets :
       /\ NormalizedPayload(signed[p]) = tree[p]
       /\ Len(signed[p].certs) = 1 /\ signed[p].certs[1].signer = SignerName
  /\ ImageDigest(signed[Service]) = ImageDigest(tree[Service])

\* A tree that is verified in a state has all our images, in that state.
LEMMA VerifiedImages ==
  ASSUME NEW tree, NEW m, NEW s, VerifyAt(tree, m, s)
  PROVE  Targets \subseteq DOMAIN tree /\ \A p \in Targets : AsState(tree[p], s)
<1>1. CollectBundleFiles(tree, s).ok
  BY DEF VerifyAt
<1> QED
  BY <1>1 DEF CollectBundleFiles, WalkOk, Fail

\* What is collected, verified and found signed is the signing of the bundle it came from.
LEMMA CollectedIsSigned ==
  ASSUME NEW tree, NEW signed, NEW m, Releasable(tree),
         CollectPreservingImages(tree, signed).ok,
         VerifyAt(CollectPreservingImages(tree, signed).tree, m, "signed"),
         SignaturesOk(CollectPreservingImages(tree, signed).tree)
  PROVE  SignedFrom(CollectPreservingImages(tree, signed).tree, tree)
<1> DEFINE c == CollectPreservingImages(tree, signed).tree
<1>1. /\ c = Collect(tree, signed)
      /\ Targets \subseteq DOMAIN tree
      /\ \A p \in Targets : /\ ImageDigest(c[p]).ok
                            /\ ImageDigest(c[p]) = ImageDigest(tree[p])
  BY Zenon DEF CollectPreservingImages, Fail
<1>2. IsTree(c) /\ DOMAIN c = DOMAIN tree
      /\ \A p \in DOMAIN tree \ Targets : c[p] = tree[p]
  BY <1>1 DEF Collect, IsTree
<1>3. ASSUME NEW p \in Targets
      PROVE  /\ NormalizedPayload(c[p]) = tree[p]
             /\ Len(c[p].certs) = 1 /\ c[p].certs[1].signer = SignerName
  <2>1. AsState(c[p], "signed")
    BY VerifiedImages
  <2>2. Len(c[p].certs) = 1
    BY <2>1 DEF AsState, WellFormedImage, OneCertificate
  <2>3. c[p].certs[1].signer = SignerName
    BY DEF SignaturesOk
  <2>4. ImageDigest(c[p]).of = NormalizedPayload(c[p])
    BY <1>1 DEF ImageDigest, Fail
  <2>5. ImageDigest(tree[p]).of = NormalizedPayload(tree[p])
    BY <1>1 DEF ImageDigest, Fail
  <2>6. NormalizedPayload(tree[p]) = tree[p]
    BY DEF Releasable
  <2> QED
    BY <1>1, <2>2, <2>3, <2>4, <2>5, <2>6
<1>4. ImageDigest(c[Service]) = ImageDigest(tree[Service])
  <2>1. Service \in DOMAIN tree
    BY DEF Releasable
  <2> QED
    BY <1>1, <1>2, <2>1
<1> QED
  BY <1>2, <1>3, <1>4 DEF SignedFrom

\* The engine's BOM speaks for the programs built from Rust.
LEMMA EngineBom ==
  ASSUME NEW version, NEW raw, NEW files, MergeCargoBoms(version, raw, files).ok
  PROVE  /\ EvidenceOf(MergeCargoBoms(version, raw, files).bom)
              = {FileEvidence(p, files) : p \in RustFiles}
         /\ RustFiles \subseteq DOMAIN files
<1> DEFINE bom == MergeCargoBoms(version, raw, files).bom
           evidence == {FileEvidence(p, files) : p \in RustFiles}
<1>1. \A p \in RustFiles : p \in DOMAIN files
  BY Zenon DEF MergeCargoBoms, Fail
<1>2. \E components, edges :
        bom = FinalBom([ref |-> EngineRoot, name |-> EngineRoot, version |-> version,
                        files |-> evidence], components, edges)
  <2>1. MergeCargoBoms(version, raw, files) # Fail
    BY DEF Fail
  <2> HIDE DEF evidence
  <2>2. \E components, edges :
          MergeCargoBoms(version, raw, files) =
            [ok |-> TRUE,
             bom |-> FinalBom([ref |-> EngineRoot, name |-> EngineRoot, version |-> version,
                               files |-> evidence], components, edges)]
    BY <2>1, Zenon DEF MergeCargoBoms, evidence
  <2> QED
    BY <2>2
<1> HIDE DEF bom, evidence
<1>3. bom.root.ref = EngineRoot /\ bom.root.files = evidence
  BY <1>2 DEF FinalBom
<1> QED
  BY <1>1, <1>3, RootsAssumption DEF EvidenceOf, bom, evidence

\* A file is compiled from an assembly in an archive.
CompiledFrom(file, inventory) ==
  \E s \in DOMAIN inventory.files :
    /\ IsRuntimeSource(s)
    /\ inventory.files[s].il # "" /\ inventory.files[s].il = file.il

\* A file is a package's: of its bytes, or compiled from an assembly of its.
Attributed(files, inventories, p, id, transformed) ==
  IF transformed THEN CompiledFrom(files[p].sha256, inventories[id])
  ELSE HoldersOf(files[p].sha256, inventories) = {id}

\* Assignments so far: our images to ourselves, every other to one package.
Taken(taken, files, inventories) ==
  /\ Targets \subseteq DOMAIN taken /\ DOMAIN taken \subseteq DOMAIN files
  /\ \A p \in Targets : /\ taken[p].owner = IF p \in RustFiles THEN "rust" ELSE "app"
                        /\ taken[p].id = << >>
  /\ \A p \in DOMAIN taken \ Targets :
       /\ taken[p].owner = "package"
       /\ \E id \in DOMAIN inventories :
            /\ taken[p].id = <<id>>
            /\ Attributed(files, inventories, p, id, taken[p].transformed)

\* Our images are taken first, each by us.
LEMMA FirstPartyTaken ==
  ASSUME NEW files, NEW inventories, FirstPartyAssignments(files).ok
  PROVE  /\ Taken(FirstPartyAssignments(files).of, files, inventories)
         /\ RustFiles \subseteq Targets
  BY DEF FirstPartyAssignments, Taken, Fail

\* A set with one element has exactly the one that is chosen.
LEMMA OneElement ==
  ASSUME NEW S, IsFiniteSet(S), Cardinality(S) = 1
  PROVE  S = {CHOOSE x \in S : TRUE}
<1>1. PICK x : S = {x}
  BY FS_Singleton
<1> QED
  BY <1>1

\* A file that packages hold byte for byte is taken only when one of them does.
LEMMA HashTaken ==
  ASSUME NEW files, NEW inventories, NEW taken, IsFiniteSet(DOMAIN inventories),
         Taken(taken, files, inventories), HashAssignments(files, taken, inventories).ok
  PROVE  Taken(HashAssignments(files, taken, inventories).of, files, inventories)
<1> DEFINE holders(p) == HoldersOf(files[p].sha256, inventories)
           held == {p \in DOMAIN files \ DOMAIN taken : holders(p) # {}}
           owner(p) == CHOOSE id \in holders(p) : TRUE
           of == HashAssignments(files, taken, inventories).of
<1>1. /\ \A p \in held : Cardinality(holders(p)) = 1
      /\ DOMAIN of = DOMAIN taken \cup held
      /\ \A p \in DOMAIN taken : of[p] = taken[p]
      /\ \A p \in held : /\ of[p].owner = "package" /\ of[p].id = <<owner(p)>>
                         /\ of[p].transformed = FALSE
  BY DEF HashAssignments, Fail
<1> HIDE DEF of
<1>2. ASSUME NEW p \in held PROVE holders(p) = {owner(p)} /\ owner(p) \in DOMAIN inventories
  <2>1. holders(p) \subseteq DOMAIN inventories
    BY DEF HoldersOf
  <2>2. IsFiniteSet(holders(p))
    BY <2>1, FS_Subset
  <2>3. holders(p) = {owner(p)}
    BY <1>1, <2>2, OneElement
  <2> QED
    BY <2>1, <2>3
<1>3. ASSUME NEW p \in held
      PROVE  Attributed(files, inventories, p, owner(p), of[p].transformed)
  BY <1>1, <1>2 DEF Attributed
<1> HIDE DEF owner
<1>4. held \cap Targets = {} /\ held \subseteq DOMAIN files
  BY DEF Taken
<1> HIDE DEF held
<1> QED
  BY <1>1, <1>2, <1>3, <1>4 DEF Taken, of

\* The inventories are those of the packages of the graph.
Inventoried(graph, inventories) ==
  DOMAIN inventories = {id \in DOMAIN graph.nodes : graph.nodes[id].kind # "reference"}

\* An asset that was compiled ahead of time comes from an assembly of its package.
LEMMA TransformedIsPackaged ==
  ASSUME NEW asset, NEW node, NEW file, NEW inventory, Transformed(asset, node, file, inventory)
  PROVE  CompiledFrom(file, inventory)
<1> DEFINE path == FindDeclaredSource(inventory, asset).path
<1>1. /\ FindDeclaredSource(inventory, asset).ok
      /\ inventory.files[path].il # "" /\ inventory.files[path].il = file.il
  BY Zenon DEF Transformed
<1>2. path \in DOMAIN inventory.files /\ IsRuntimeSource(path)
  <2> DEFINE paths == DOMAIN inventory.files
             named == {p \in paths : FileName[p] = FileName[asset.source]}
             found == IF asset.source \in paths THEN {asset.source} ELSE named
  <2>1. Cardinality(found) = 1 /\ \A p \in found : IsRuntimeSource(p)
    BY <1>1 DEF FindDeclaredSource, Fail
  <2>2. path = CHOOSE p \in found : TRUE
    BY <1>1 DEF FindDeclaredSource, Fail
  <2>3. found # {}
    BY <2>1, FS_EmptySet
  <2>4. found \subseteq paths
    OBVIOUS
  <2> HIDE DEF found
  <2> QED
    BY <2>1, <2>2, <2>3, <2>4
<1> QED
  BY <1>1, <1>2 DEF CompiledFrom

\* A declared file that is left goes to the package that declares it, whose archive must hold
\* the assembly it is compiled from.
LEMMA ReconcileTaken ==
  ASSUME NEW graph, NEW files, NEW inventories, NEW taken,
         Inventoried(graph, inventories), Taken(taken, files, inventories),
         ReconcileDeclaredAssets(graph, inventories, files, taken).ok
  PROVE  Taken(ReconcileDeclaredAssets(graph, inventories, files, taken).of, files, inventories)
<1> DEFINE open == {c \in Claims(graph) : c[2].output \in DOMAIN files \ DOMAIN taken}
           claim(p) == ClaimOn(p, open)
           more == {c[2].output : c \in open}
           of == ReconcileDeclaredAssets(graph, inventories, files, taken).of
<1>1. \A c \in open : Transformed(c[2], graph.nodes[c[1]], files[c[2].output].sha256,
                                  inventories[c[1]])
  BY DEF ReconcileDeclaredAssets, Fail
<1>2. /\ DOMAIN of = DOMAIN taken \cup more
      /\ \A p \in DOMAIN taken : of[p] = taken[p]
      /\ \A p \in more \ DOMAIN taken :
           of[p].owner = "package" /\ of[p].id = <<claim(p)[1]>> /\ of[p].transformed = TRUE
  BY DEF ReconcileDeclaredAssets, Fail
<1>3. \A c \in open : c[1] \in DOMAIN graph.nodes
  <2>1. \A c \in Claims(graph) : c[1] \in DOMAIN graph.nodes
    BY DEF Claims
  <2> QED
    BY <2>1
<1>4. more \subseteq DOMAIN files \ DOMAIN taken
  OBVIOUS
<1>5. \A p \in more : claim(p) \in open /\ claim(p)[2].output = p
  <2> HIDE DEF open
  <2>1. ASSUME NEW p \in more PROVE \E c \in open : c[2].output = p
    BY <2>1
  <2> QED
    BY <2>1, Zenon DEF ClaimOn
<1> HIDE DEF of, more, claim, open
<1>6. ASSUME NEW p \in more
      PROVE  \E id \in DOMAIN inventories :
               of[p].id = <<id>> /\ Attributed(files, inventories, p, id, of[p].transformed)
  <2>1. PICK c : c = claim(p)
    OBVIOUS
  <2>2. c \in open /\ c[2].output = p
    BY <2>1, <1>5
  <2>3. Transformed(c[2], graph.nodes[c[1]], files[p].sha256, inventories[c[1]])
    BY <1>1, <2>2
  <2>4. graph.nodes[c[1]].kind # "reference" /\ CompiledFrom(files[p].sha256, inventories[c[1]])
    BY <2>3, TransformedIsPackaged, Zenon DEF Transformed
  <2>5. c[1] \in DOMAIN inventories
    BY <1>3, <2>2, <2>4 DEF Inventoried
  <2>6. of[p].id = <<c[1]>> /\ of[p].transformed = TRUE
    BY <1>2, <1>4, <2>1
  <2>7. Attributed(files, inventories, p, c[1], of[p].transformed)
    BY <2>4, <2>6 DEF Attributed
  <2> QED
    BY <2>5, <2>6, <2>7
<1>7. more \cap Targets = {}
  BY <1>4 DEF Taken
<1>8. Taken(of, files, inventories)
  BY <1>2, <1>4, <1>6, <1>7 DEF Taken
<1> QED
  BY <1>8 DEF of

\* Every file has one owner: us, or one package.
Assigned(of, files, inventories) ==
  /\ DOMAIN of = DOMAIN files /\ Targets \subseteq DOMAIN files
  /\ \A p \in Targets : /\ of[p].owner = IF p \in RustFiles THEN "rust" ELSE "app"
                        /\ of[p].id = << >>
  /\ \A p \in DOMAIN files \ Targets :
       \/ of[p].owner = "app" /\ of[p].id = << >>
       \/ /\ of[p].owner = "package"
          /\ \E id \in DOMAIN inventories :
               /\ of[p].id = <<id>>
               /\ Attributed(files, inventories, p, id, of[p].transformed)

\* In the end every file has its one owner.
LEMMA EveryFileAssigned ==
  ASSUME NEW graph, NEW files, NEW inventories, IsFiniteSet(DOMAIN inventories),
         Inventoried(graph, inventories), Assignments(graph, inventories, files).ok
  PROVE  /\ Assigned(Assignments(graph, inventories, files).of, files, inventories)
         /\ RustFiles \subseteq Targets
<1> DEFINE own == FirstPartyAssignments(files)
           hashed == HashAssignments(files, own.of, inventories)
           declared == ReconcileDeclaredAssets(graph, inventories, files, hashed.of)
           rest == AssignTheRest(files, declared.of)
<1>1. /\ own.ok /\ hashed.ok /\ declared.ok /\ rest.ok
      /\ Assignments(graph, inventories, files) = rest
  BY Zenon DEF Assignments, Fail
<1>2. Taken(own.of, files, inventories) /\ RustFiles \subseteq Targets
  BY <1>1, FirstPartyTaken
<1>3. Taken(hashed.of, files, inventories)
  BY <1>1, <1>2, HashTaken
<1>4. Taken(declared.of, files, inventories)
  BY <1>1, <1>3, ReconcileTaken
<1> HIDE DEF own, hashed, declared
<1>5. /\ DOMAIN rest.of = DOMAIN files
      /\ \A p \in DOMAIN files \cap DOMAIN declared.of : rest.of[p] = declared.of[p]
      /\ \A p \in DOMAIN files \ DOMAIN declared.of :
           rest.of[p].owner = "app" /\ rest.of[p].id = << >>
  BY <1>1 DEF AssignTheRest, Fail
<1> HIDE DEF rest
<1> QED
  BY <1>1, <1>2, <1>4, <1>5 DEF Taken, Assigned

\* The app's BOM says of each file of the app or of a package whose it is.
PackageEvidence(p, files, of) ==
  [path |-> p, sha256 |-> <<files[p].sha256>>, payload |-> << >>,
   source |-> IF of[p].transformed THEN "ready-to-run" ELSE "exact"]
OwnedBy(id, files, of) == {p \in DOMAIN files : of[p].id = <<id>>}
OursOf(files, of) == {p \in DOMAIN files : of[p].owner = "app"}
SaysWhose(bom, nodes, files, of) ==
  /\ bom.root.ref = AppRoot
  /\ bom.root.files = {FileEvidence(p, files) : p \in OursOf(files, of)}
  /\ bom.components = [id \in DOMAIN bom.components |-> bom.components[id]]
  /\ DOMAIN bom.components = {id \in nodes : OwnedBy(id, files, of) # {}}
  /\ \A id \in DOMAIN bom.components :
       bom.components[id].files = {PackageEvidence(p, files, of) : p \in OwnedBy(id, files, of)}

\* The app's BOM is written from the assignments.
LEMMA AppBomSaysWhose ==
  ASSUME NEW version, NEW graph, NEW inventories, NEW files, NEW of
  PROVE  SaysWhose(AppBom(version, graph, inventories, files, of), DOMAIN graph.nodes, files, of)
<1> DEFINE included == {id \in DOMAIN graph.nodes : OwnedBy(id, files, of) # {}}
           root == [ref |-> AppRoot, name |-> AppRoot, version |-> version,
                    files |-> {FileEvidence(p, files) : p \in OursOf(files, of)}]
           components ==
             [id \in included |->
                [ref |-> id, name |-> graph.nodes[id].name, version |-> graph.nodes[id].version,
                 hash |-> inventories[id].hash,
                 files |-> {PackageEvidence(p, files, of) : p \in OwnedBy(id, files, of)}]]
           bom == AppBom(version, graph, inventories, files, of)
<1>1. \E edges : bom = FinalBom(root, components, edges)
  BY Zenon DEF AppBom, OwnedBy, OursOf, PackageEvidence
<1> HIDE DEF bom
<1>2. bom.root = root /\ bom.components = components
  BY <1>1 DEF FinalBom
<1>3. /\ DOMAIN components = included /\ components = [id \in included |-> components[id]]
      /\ \A id \in included :
           components[id].files = {PackageEvidence(p, files, of) : p \in OwnedBy(id, files, of)}
  OBVIOUS
<1>4. root.ref = AppRoot /\ root.files = {FileEvidence(p, files) : p \in OursOf(files, of)}
  OBVIOUS
<1> HIDE DEF root, components, included
<1>5. DOMAIN bom.components = {id \in DOMAIN graph.nodes : OwnedBy(id, files, of) # {}}
  BY <1>2, <1>3 DEF included
<1>6. SaysWhose(bom, DOMAIN graph.nodes, files, of)
  BY <1>2, <1>3, <1>4, <1>5 DEF SaysWhose
<1> QED
  BY <1>6 DEF bom

\* A BOM that was built was written from assignments that could be made.
LEMMA BuiltAppBom ==
  ASSUME NEW version, NEW graph, NEW inventories, NEW files,
         BuildAppBom(version, graph, inventories, files).ok
  PROVE  LET of == Assignments(graph, inventories, files).of
         IN /\ Assignments(graph, inventories, files).ok
            /\ SaysWhose(BuildAppBom(version, graph, inventories, files).bom,
                         DOMAIN graph.nodes, files, of)
<1> DEFINE assigned == Assignments(graph, inventories, files)
<1>1. /\ assigned.ok
      /\ BuildAppBom(version, graph, inventories, files).bom
           = AppBom(version, graph, inventories, files, assigned.of)
  BY DEF BuildAppBom, Fail
<1> QED
  BY <1>1, AppBomSaysWhose

\* What two BOMs say of a bundle before it is signed: each file is spoken for once, by its
\* bytes or its payload, and a package's file is of that package only.
SpeakFor(app, engine, tree) ==
  LET evidence == EvidenceOf(app) \cup EvidenceOf(engine)
  IN /\ {e.path : e \in evidence} = DOMAIN tree
     /\ \A e, f \in evidence : e.path = f.path => e = f
     /\ \A e \in evidence :
          IF e.path \in Targets THEN e.payload = <<tree[e.path]>> ELSE e.sha256 = <<tree[e.path]>>
     /\ EvidenceOf(app) \cap EvidenceOf(engine) = {}
     /\ \A id \in DOMAIN app.components : \A e \in app.components[id].files :
          /\ e.path \in DOMAIN tree \ Targets
          /\ IF e.source = "exact"
             THEN {x \in Packages : tree[e.path] \in ArchiveFiles(x)} = {id}
             ELSE \E f \in ArchiveFiles(id) : f.il # "" /\ f.il = tree[e.path].il

\* What a BOM says of one file.
EvidenceFor(p, files, of) ==
  IF of[p].owner = "package" THEN PackageEvidence(p, files, of) ELSE FileEvidence(p, files)

\* The evidence of the two BOMs is one piece per file, by owner.
LEMMA EvidenceByOwner ==
  ASSUME NEW app, NEW nodes, NEW files, NEW inventories, NEW of,
         SaysWhose(app, nodes, files, of), Assigned(of, files, inventories),
         DOMAIN inventories \subseteq nodes, RustFiles \subseteq Targets
  PROVE  /\ EvidenceOf(app) = {EvidenceFor(p, files, of) :
                                 p \in {q \in DOMAIN files : of[q].owner \in {"app", "package"}}}
         /\ {FileEvidence(p, files) : p \in RustFiles}
              = {EvidenceFor(p, files, of) : p \in {q \in DOMAIN files : of[q].owner = "rust"}}
         /\ \A p \in DOMAIN files : of[p].owner \in {"app", "package", "rust"}
<1>1. \A p \in DOMAIN files : of[p].owner \in {"app", "package", "rust"}
  BY DEF Assigned
<1>2. \A p \in DOMAIN files : of[p].owner = "rust" <=> p \in RustFiles
  BY DEF Assigned
<1>3. RustFiles \subseteq DOMAIN files
  BY DEF Assigned
<1>4. \A p \in DOMAIN files :
        of[p].owner = "package" <=> \E id \in DOMAIN app.components : p \in OwnedBy(id, files, of)
  <2>1. ASSUME NEW p \in DOMAIN files, of[p].owner = "package"
        PROVE  \E id \in DOMAIN app.components : p \in OwnedBy(id, files, of)
    <3>1. PICK id \in DOMAIN inventories : of[p].id = <<id>>
      BY <2>1 DEF Assigned
    <3> QED
      BY <3>1 DEF SaysWhose, OwnedBy
  <2>2. ASSUME NEW p \in DOMAIN files, NEW id, of[p].id = <<id>> PROVE of[p].owner = "package"
    BY <2>2 DEF Assigned
  <2> QED
    BY <2>1, <2>2 DEF OwnedBy
<1>5. {FileEvidence(p, files) : p \in RustFiles}
        = {EvidenceFor(p, files, of) : p \in {q \in DOMAIN files : of[q].owner = "rust"}}
  BY <1>2, <1>3 DEF EvidenceFor
<1>6. UNION {c.files : c \in Range(app.components)}
        = {EvidenceFor(p, files, of) : p \in {q \in DOMAIN files : of[q].owner = "package"}}
  <2>1. UNION {c.files : c \in Range(app.components)}
          = UNION {app.components[id].files : id \in DOMAIN app.components}
    BY DEF Range
  <2>2. \A id \in DOMAIN app.components :
          app.components[id].files = {PackageEvidence(p, files, of) : p \in OwnedBy(id, files, of)}
    BY DEF SaysWhose
  <2>3. \A id \in DOMAIN app.components : OwnedBy(id, files, of) \subseteq DOMAIN files
    BY DEF OwnedBy
  <2> QED
    BY <1>4, <2>1, <2>2, <2>3 DEF EvidenceFor
<1>7. app.root.files
        = {EvidenceFor(p, files, of) : p \in {q \in DOMAIN files : of[q].owner = "app"}}
  BY DEF SaysWhose, OursOf, EvidenceFor
<1>8. EvidenceOf(app) = app.root.files \cup UNION {c.files : c \in Range(app.components)}
  BY DEF EvidenceOf, SaysWhose
<1>9. EvidenceOf(app) = {EvidenceFor(p, files, of) :
                           p \in {q \in DOMAIN files : of[q].owner \in {"app", "package"}}}
  BY <1>6, <1>7, <1>8
<1> QED
  BY <1>1, <1>5, <1>9

\* What is known of the files of an archive.
ArchivesAre(inventories) ==
  /\ DOMAIN inventories = Packages
  /\ \A id \in Packages :
       ArchiveFiles(id) = {inventories[id].files[p] :
                             p \in {q \in DOMAIN inventories[id].files : IsRuntimeSource(q)}}

\* Such evidence speaks for the files it was made of, and for each once.
LEMMA EvidenceSpeaks ==
  ASSUME NEW tree, NEW app, NEW engine, NEW nodes, NEW files, NEW inventories, NEW of,
         DOMAIN files = DOMAIN tree, \A p \in DOMAIN tree : files[p] = Identity(p, tree[p]),
         \A p \in Targets : NormalizedPayload(tree[p]) = tree[p],
         SaysWhose(app, nodes, files, of), Assigned(of, files, inventories),
         DOMAIN inventories \subseteq nodes, RustFiles \subseteq Targets,
         EvidenceOf(engine) = {FileEvidence(p, files) : p \in RustFiles},
         ArchivesAre(inventories)
  PROVE  SpeakFor(app, engine, tree)
<1> DEFINE ev(p) == EvidenceFor(p, files, of)
           evidence == EvidenceOf(app) \cup EvidenceOf(engine)
<1>1. /\ EvidenceOf(app) = {ev(p) : p \in {q \in DOMAIN files : of[q].owner \in {"app", "package"}}}
      /\ EvidenceOf(engine) = {ev(p) : p \in {q \in DOMAIN files : of[q].owner = "rust"}}
      /\ \A p \in DOMAIN files : of[p].owner \in {"app", "package", "rust"}
  <2>1. /\ EvidenceOf(app) = {EvidenceFor(p, files, of) :
                                p \in {q \in DOMAIN files : of[q].owner \in {"app", "package"}}}
        /\ {FileEvidence(p, files) : p \in RustFiles}
             = {EvidenceFor(p, files, of) : p \in {q \in DOMAIN files : of[q].owner = "rust"}}
        /\ \A p \in DOMAIN files : of[p].owner \in {"app", "package", "rust"}
    BY EvidenceByOwner, Zenon
  <2> QED
    BY <2>1, Zenon
<1>2. DOMAIN files = DOMAIN tree /\ \A p \in DOMAIN tree : files[p] = Identity(p, tree[p])
  OBVIOUS
<1>3. \A p \in DOMAIN tree : files[p].sha256 = tree[p]
  BY <1>2 DEF Identity
<1>4. \A p \in DOMAIN tree \cap Targets : files[p].payload = <<tree[p]>>
  BY <1>2 DEF Identity
<1>5. \A p \in DOMAIN tree \ Targets : files[p].payload = << >>
  BY <1>2 DEF Identity
<1>6. \A p \in Targets : of[p].owner # "package"
  BY DEF Assigned
<1>7. \A p \in DOMAIN tree : ev(p).path = p
  BY DEF EvidenceFor, FileEvidence, PackageEvidence
<1>8. ASSUME NEW p \in DOMAIN tree
      PROVE  IF p \in Targets THEN ev(p).payload = <<tree[p]>> ELSE ev(p).sha256 = <<tree[p]>>
  BY <1>3, <1>4, <1>5, <1>6 DEF EvidenceFor, FileEvidence, PackageEvidence
<1> HIDE DEF ev
<1>9. evidence = {ev(p) : p \in DOMAIN tree}
  <2> DEFINE some == {q \in DOMAIN files : of[q].owner \in {"app", "package"}}
             other == {q \in DOMAIN files : of[q].owner = "rust"}
  <2>1. EvidenceOf(app) = {ev(p) : p \in some} /\ EvidenceOf(engine) = {ev(p) : p \in other}
    BY <1>1
  <2>2. some \cup other = DOMAIN tree
    BY <1>1, <1>2
  <2> HIDE DEF some, other
  <2> QED
    BY <2>1, <2>2
<1>10. {e.path : e \in evidence} = DOMAIN tree
  <2> HIDE DEF evidence
  <2>1. \A e \in evidence : e.path \in DOMAIN tree
    BY <1>7, <1>9
  <2>2. \A p \in DOMAIN tree : ev(p) \in evidence /\ ev(p).path = p
    BY <1>7, <1>9
  <2> QED
    BY <2>1, <2>2
<1>11. \A e, f \in evidence : e.path = f.path => e = f
  BY <1>7, <1>9
<1>12. \A e \in evidence :
         IF e.path \in Targets THEN e.payload = <<tree[e.path]>> ELSE e.sha256 = <<tree[e.path]>>
  BY <1>7, <1>8, <1>9
<1>13. EvidenceOf(app) \cap EvidenceOf(engine) = {}
  BY <1>1, <1>2, <1>7
<1>14. ASSUME NEW id \in DOMAIN app.components, NEW e \in app.components[id].files
       PROVE  /\ e.path \in DOMAIN tree \ Targets
              /\ IF e.source = "exact"
                 THEN {x \in Packages : tree[e.path] \in ArchiveFiles(x)} = {id}
                 ELSE \E f \in ArchiveFiles(id) : f.il # "" /\ f.il = tree[e.path].il
  <2>1. PICK p \in OwnedBy(id, files, of) : e = PackageEvidence(p, files, of)
    BY DEF SaysWhose
  <2>2. /\ e.path = p
        /\ e.source = IF of[p].transformed THEN "ready-to-run" ELSE "exact"
    BY <2>1 DEF PackageEvidence
  <2>3. p \in DOMAIN files /\ of[p].id = <<id>>
    BY DEF OwnedBy
  <2>4. p \notin Targets
    BY <2>3 DEF Assigned
  <2>5. id \in Packages /\ Attributed(files, inventories, p, id, of[p].transformed)
    <3>1. PICK i \in DOMAIN inventories :
            of[p].id = <<i>> /\ Attributed(files, inventories, p, i, of[p].transformed)
      BY <2>3, <2>4 DEF Assigned
    <3>2. i = id
      BY <2>3, <3>1
    <3> QED
      BY <3>1, <3>2 DEF ArchivesAre
  <2>6. CASE of[p].transformed
    <3>1. CompiledFrom(files[p].sha256, inventories[id])
      BY <2>5, <2>6, Zenon DEF Attributed
    <3>2. PICK s \in DOMAIN inventories[id].files :
            /\ IsRuntimeSource(s)
            /\ inventories[id].files[s].il # "" /\ inventories[id].files[s].il = files[p].sha256.il
      BY <3>1 DEF CompiledFrom
    <3>3. inventories[id].files[s] \in ArchiveFiles(id)
      BY <2>5, <3>2 DEF ArchivesAre
    <3> QED
      BY <1>2, <1>3, <2>2, <2>3, <2>4, <2>6, <3>2, <3>3
  <2>7. CASE ~of[p].transformed
    <3>1. HoldersOf(tree[p], inventories) = {id}
      BY <1>2, <1>3, <2>3, <2>5, <2>7, Zenon DEF Attributed
    <3>2. \A x \in Packages : tree[p] \in ArchiveFiles(x) <=> x \in HoldersOf(tree[p], inventories)
      BY DEF ArchivesAre, HoldersOf
    <3>3. HoldersOf(tree[p], inventories) \subseteq Packages
      BY DEF ArchivesAre, HoldersOf
    <3> QED
      BY <1>2, <2>2, <2>3, <2>4, <2>7, <3>1, <3>2, <3>3
  <2> QED
    BY <2>6, <2>7
<1> QED
  BY <1>10, <1>11, <1>12, <1>13, <1>14, Zenon DEF SpeakFor

\* The nodes of the graph are what is not the project, each of a kind that is supported.
LEMMA GraphNodes ==
  ASSUME NEW deps, NEW lock, ParseDotnetGraph(deps, lock).ok
  PROVE  LET graph == ParseDotnetGraph(deps, lock)
         IN /\ DOMAIN graph.nodes = {id \in DOMAIN deps : deps[id].type # "project"}
            /\ \A id \in DOMAIN graph.nodes :
                 /\ graph.nodes[id].kind = deps[id].type
                 /\ deps[id].type \in {"reference", "package", "runtimepack"}
                 /\ deps[id].type # "reference" => graph.nodes[id].cache = <<id>>
<1> DEFINE graph == ParseDotnetGraph(deps, lock)
           nodes == DOMAIN deps \ {id \in DOMAIN deps : deps[id].type = "project"}
<1>1. \A id \in nodes : PackageMetadata(id, deps[id], lock).ok
  BY DEF ParseDotnetGraph, Fail
<1>2. /\ DOMAIN graph.nodes = nodes
      /\ \A id \in nodes : /\ graph.nodes[id].kind = deps[id].type
                           /\ graph.nodes[id].cache = PackageMetadata(id, deps[id], lock).cache
  BY DEF ParseDotnetGraph, Fail
<1> HIDE DEF graph
<1>3. ASSUME NEW id \in nodes
      PROVE  /\ deps[id].type \in {"reference", "package", "runtimepack"}
             /\ deps[id].type # "reference" => PackageMetadata(id, deps[id], lock).cache = <<id>>
  BY <1>1 DEF PackageMetadata, Fail
<1> QED
  BY <1>2, <1>3 DEF graph

\* An inventory is of the archive in the one cache that holds the package.
LEMMA InventoryIs ==
  ASSUME W \in Worlds, NEW id, NEW node, node.cache = <<id>>,
         LoadPackageInventory(node, W.caches).ok
  PROVE  LET files == LoadPackageInventory(node, W.caches).files
         IN ArchiveFiles(id) = {files[p] : p \in {q \in DOMAIN files : IsRuntimeSource(q)}}
<1> DEFINE holding == {c \in DOMAIN W.caches : id \in DOMAIN W.caches[c]}
           found == CHOOSE c \in holding : TRUE
           cache == CHOOSE c \in DOMAIN W.caches : id \in DOMAIN W.caches[c]
<1>1. /\ Cardinality(holding) = 1
      /\ LoadPackageInventory(node, W.caches).files = W.caches[found][id].archives[1]
  <2> DEFINE held == {c \in DOMAIN W.caches : node.cache[1] \in DOMAIN W.caches[c]}
             dir == W.caches[CHOOSE c \in held : TRUE][node.cache[1]]
  <2>1. LoadPackageInventory(node, W.caches) # Fail
    BY DEF Fail
  <2>2. /\ Cardinality(held) = 1
        /\ LoadPackageInventory(node, W.caches) =
             [ok |-> TRUE, hash |-> dir.contentHash, files |-> dir.archives[1],
              versioned |-> DOMAIN dir.extracted]
    BY <2>1, Zenon DEF LoadPackageInventory
  <2>3. node.cache[1] = id
    OBVIOUS
  <2>4. held = holding /\ dir = W.caches[found][id]
    BY <2>3, Zenon
  <2> HIDE DEF dir, held
  <2> QED
    BY <2>2, <2>4
<1>2. IsFiniteSet(holding)
  <2>1. IsFiniteSet(DOMAIN W.caches)
    BY WorldsAssumption
  <2> QED
    BY <2>1, FS_Subset
<1>3. PICK c : holding = {c}
  BY <1>1, <1>2, FS_Singleton
<1>4. found = c
  <2> HIDE DEF holding
  <2> QED
    BY <1>3
<1>5. cache = c
  <2>1. \A x : x \in DOMAIN W.caches /\ id \in DOMAIN W.caches[x] <=> x = c
    BY <1>3
  <2> QED
    BY <2>1, Zenon
<1> QED
  BY <1>1, <1>4, <1>5 DEF ArchiveFiles

\* The inventories are of the packages of the app, as their archives have them.
LEMMA InventoriesAre ==
  ASSUME W \in Worlds, NEW graph, graph = ParseDotnetGraph(W.deps, W.nuget), graph.ok,
         LoadPackageInventories(graph, W.caches).ok
  PROVE  LET inventories == LoadPackageInventories(graph, W.caches).of
         IN /\ Inventoried(graph, inventories) /\ ArchivesAre(inventories)
            /\ IsFiniteSet(DOMAIN inventories)
<1> DEFINE owners == {id \in DOMAIN graph.nodes : graph.nodes[id].kind # "reference"}
           load(id) == LoadPackageInventory(graph.nodes[id], W.caches)
           inventories == LoadPackageInventories(graph, W.caches).of
<1>1. /\ \A id \in owners : load(id).ok
      /\ inventories = [id \in owners |-> load(id)]
  BY DEF LoadPackageInventories, Fail
<1>2. \A id \in DOMAIN graph.nodes :
        /\ id \in DOMAIN W.deps /\ W.deps[id].type # "project"
        /\ graph.nodes[id].kind = W.deps[id].type
        /\ W.deps[id].type \in {"reference", "package", "runtimepack"}
        /\ W.deps[id].type # "reference" => graph.nodes[id].cache = <<id>>
  BY GraphNodes
<1>3. DOMAIN graph.nodes = {id \in DOMAIN W.deps : W.deps[id].type # "project"}
  BY GraphNodes
<1>4. owners = Packages
  BY <1>2, <1>3 DEF Packages
<1>5. ASSUME NEW id \in owners PROVE graph.nodes[id].cache = <<id>> /\ load(id).ok
  BY <1>1, <1>2
<1> HIDE DEF inventories, owners
<1>6. ASSUME NEW id \in owners
      PROVE  ArchiveFiles(id) = {load(id).files[p] :
                                   p \in {q \in DOMAIN load(id).files : IsRuntimeSource(q)}}
  BY <1>5, InventoryIs
<1> HIDE DEF load
<1>7. ArchivesAre(inventories)
  BY <1>1, <1>4, <1>6 DEF ArchivesAre
<1>8. Inventoried(graph, inventories)
  BY <1>1 DEF Inventoried, owners
<1>9. IsFiniteSet(DOMAIN inventories)
  <2>1. IsFiniteSet(DOMAIN W.deps)
    BY WorldsAssumption
  <2>2. owners \subseteq DOMAIN W.deps
    BY <1>3 DEF owners
  <2>3. IsFiniteSet(owners)
    BY <2>1, <2>2, FS_Subset
  <2> QED
    BY <1>1, <2>3
<1> QED
  BY <1>7, <1>8, <1>9 DEF inventories

\* The BOMs of a bundle that may be released speak for exactly its files.
LEMMA SbomSpeaks ==
  ASSUME W \in Worlds, NEW tree, Releasable(tree),
         RunSbom(W.tag, tree, W.raw, W.deps, W.nuget, W.caches).ok
  PROVE  LET boms == RunSbom(W.tag, tree, W.raw, W.deps, W.nuget, W.caches).boms
         IN SpeakFor(boms["app"], boms["engine"], tree)
<1> DEFINE found == CollectDistFiles(tree)
           files == found.files
           graph == ParseDotnetGraph(W.deps, W.nuget)
           inventories == LoadPackageInventories(graph, W.caches)
           engine == MergeCargoBoms(W.tag, W.raw, files)
           app == BuildAppBom(W.tag, graph, inventories.of, files)
           boms == [d \in {"engine", "app"} |-> IF d = "engine" THEN engine.bom ELSE app.bom]
           of == Assignments(graph, inventories.of, files).of
<1>1. /\ found.ok /\ graph.ok /\ inventories.ok /\ engine.ok /\ app.ok
      /\ RunSbom(W.tag, tree, W.raw, W.deps, W.nuget, W.caches).boms = boms
  BY DEF RunSbom, Fail
<1>2. boms["app"] = app.bom /\ boms["engine"] = engine.bom
  OBVIOUS
<1>3. /\ DOMAIN files = DOMAIN tree
      /\ \A p \in DOMAIN tree : files[p] = Identity(p, tree[p])
  BY <1>1 DEF CollectDistFiles, CollectBundleFiles, Fail
<1> HIDE DEF found, files, graph, inventories, boms
<1>4. /\ EvidenceOf(engine.bom) = {FileEvidence(p, files) : p \in RustFiles}
  BY <1>1, EngineBom
<1>5. /\ Inventoried(graph, inventories.of) /\ ArchivesAre(inventories.of)
      /\ IsFiniteSet(DOMAIN inventories.of)
  BY <1>1, InventoriesAre DEF graph, inventories
<1>6. /\ Assignments(graph, inventories.of, files).ok
      /\ SaysWhose(app.bom, DOMAIN graph.nodes, files, of)
  BY <1>1, BuiltAppBom
<1>7. Assigned(of, files, inventories.of) /\ RustFiles \subseteq Targets
  BY <1>5, <1>6, EveryFileAssigned
<1>8. DOMAIN inventories.of \subseteq DOMAIN graph.nodes
  BY <1>5 DEF Inventoried
<1>9. \A p \in Targets : NormalizedPayload(tree[p]) = tree[p]
  BY DEF Releasable
<1> HIDE DEF engine, app, of
<1>10. SpeakFor(app.bom, engine.bom, tree)
  BY <1>3, <1>4, <1>5, <1>6, <1>7, <1>8, <1>9, EvidenceSpeaks
<1> QED
  BY <1>1, <1>2, <1>10

(***************************************************************************)
(* The invariant                                                           *)
(***************************************************************************)

Artifacts ==
  {"dist", "sboms", "verified", "input", "result", "candidate", "assets", "evidence"}

\* The run stays in its world; its artifacts and the draft are records.
ShapeInv ==
  /\ W \in Worlds
  /\ DOMAIN art = Artifacts /\ DOMAIN draft = {"assets", "published"}

\* A job that is no longer waiting found everything it needs, and still has it.
NeedsInv == \A j \in Jobs : st[j] # "waiting" => \A n \in Needs(j) : st[n] = "ok"

\* The bundle of a build that passed was tested as it is.
BuiltInv ==
  st[Job("build")] = "ok" => art.dist[1].tree \in tested /\ Releasable(art.dist[1].tree)

\* The BOMs of a passed sbom job are those of the bundle.
ListedInv ==
  st[Job("sbom")] = "ok" =>
    SpeakFor(art.sboms[1]["app"], art.sboms[1]["engine"], art.dist[1].tree)

\* What was collected is the bundle, signed.
SignedInv ==
  st[Job("collect")] = "ok" => SignedFrom(art.candidate[1].tree, art.dist[1].tree)

\* A zip that may go out with these two BOMs.
Shippable(zip, app, engine) ==
  /\ zip.label = W.tag
  /\ (TestOnly \cup Developer) \cap DOMAIN zip.entries = {}
  /\ zip.entries[Service].loads = "system32"
  /\ \E tree \in tested :
       Releasable(tree) /\ SignedFrom(zip.entries, tree) /\ SpeakFor(app, engine, tree)

\* Assets that may go out together.
AssetsOk(assets) ==
  /\ DOMAIN assets = AssetNames
  /\ \A n \in AssetNames : assets[n] = Uploaded(assets[n].content[1])
  /\ assets["SHA256SUMS"].content[1].of = assets["zip"].content[1]
  /\ Shippable(assets["zip"].content[1], assets["app"].content[1], assets["engine"].content[1])

\* What was packaged, and what was published, may go out.
PackedInv == st[Job("package")] = "ok" => AssetsOk(art.assets[1])
PublishedInv == draft.published => AssetsOk(draft.assets)

\* While the publish job uploads, the draft holds nothing but its assets.
UploadingInv == st[Job("publish")] = "uploading" => ExistingIdentical

IInv ==
  /\ TypeOK /\ ShapeInv /\ NeedsInv
  /\ BuiltInv /\ ListedInv /\ SignedInv /\ PackedInv
  /\ UploadingInv /\ DraftOfOneCandidate /\ PublishedInv

(***************************************************************************)
(* The jobs                                                                *)
(***************************************************************************)

\* The jobs of the chain are jobs, and no two are the same.
LEMMA ChainJobs ==
  /\ \A n \in Single : Job(n) \in Jobs
  /\ \A m, n \in Single : Job(m) = Job(n) => m = n
  /\ \A n \in Single : Job(n) \notin MutationJobs
BY DEF Jobs, Job, Single, MutationJobs

\* Jobs need jobs, and none needs the publication.
LEMMA NeedsAreJobs ==
  ASSUME NEW j \in Jobs
  PROVE  Needs(j) \subseteq Jobs \ {Job("publish")}
<1>1. j[1] \in Single \cup {"rust", "csharp"}
  BY DEF Jobs, Job, Single, MutationJobs
<1>2. \A n \in Single : Job(n) \in Jobs
  BY ChainJobs
<1>3. MutationJobs \subseteq Jobs
  BY DEF Jobs
<1>4. \A n \in Single \ {"publish"} : Job(n) # Job("publish")
  BY ChainJobs DEF Single
<1>5. Job("publish") \notin MutationJobs
  BY ChainJobs DEF Single
<1>6. Needs(j) \subseteq {Job(n) : n \in Single \ {"publish"}} \cup MutationJobs
  BY <1>1 DEF Needs, Single
<1> QED
  BY <1>2, <1>3, <1>4, <1>5, <1>6

\* What the jobs that carry the bundle wait for.
LEMMA NeedsOfChain ==
  /\ Job("build") \in Needs(Job("sbom"))
  /\ {Job("build"), Job("sign")} \subseteq Needs(Job("collect"))
  /\ {Job("build"), Job("sbom"), Job("collect")} \subseteq Needs(Job("package"))
  /\ Job("package") \in Needs(Job("publish"))
BY DEF Needs, Job

\* With a job all that needs it is started again.
LEMMA AgainIsClosed ==
  /\ Closed(Jobs)
  /\ \A j \in Jobs : Closed(Dependents(j))
  /\ \A S \in SUBSET Jobs : Closed(UNION {Dependents(j) : j \in S})
<1>1. Closed(Jobs)
  BY DEF Closed
<1>2. ASSUME NEW j \in Jobs, NEW d \in Jobs, Needs(d) \cap Dependents(j) # {}
      PROVE  d \in Dependents(j)
  <2>1. PICK n \in Dependents(j) : n \in Needs(d)
    BY <1>2
  <2>2. ASSUME NEW jobs \in ClosedSets, j \in jobs PROVE d \in jobs
    <3>1. n \in jobs
      BY <2>1, <2>2 DEF Dependents
    <3>2. Closed(jobs)
      BY DEF ClosedSets
    <3> QED
      BY <2>1, <3>1, <3>2 DEF Closed
  <2> QED
    BY <2>2 DEF Dependents
<1>3. \A j \in Jobs : Closed(Dependents(j))
  BY <1>2 DEF Closed
<1>4. ASSUME NEW S \in SUBSET Jobs PROVE Closed(UNION {Dependents(j) : j \in S})
  BY <1>3 DEF Closed
<1> QED
  BY <1>1, <1>3, <1>4

\* A step of one job that may run.
JobStep(j, v) ==
  /\ j \in Jobs /\ (Ready(j) \/ st[j] = "uploading")
  /\ v \in {"ok", "failed", "uploading"} /\ (v = "uploading" => j = Job("publish"))
  /\ st' = [st EXCEPT ![j] = v]

StTypes ==
  /\ st \in [Jobs -> {"waiting", "ok", "failed", "uploading"}]
  /\ \A j \in Jobs : st[j] = "uploading" => j = Job("publish")

\* It leaves the others as they are, and nobody who went on needs it.
LEMMA JobStepKeeps ==
  ASSUME NEW j, NEW v, StTypes, NeedsInv, JobStep(j, v)
  PROVE  /\ StTypes' /\ NeedsInv'
         /\ st'[j] = v /\ \A k \in Jobs \ {j} : st'[k] = st[k]
<1>1. StTypes' /\ st'[j] = v /\ \A k \in Jobs \ {j} : st'[k] = st[k]
  BY DEF StTypes, JobStep
<1>2. ASSUME NEW d \in Jobs, st'[d] # "waiting", NEW n \in Needs(d)
      PROVE  st'[n] = "ok"
  <2>1. n \in Jobs /\ n # Job("publish")
    BY <1>2, NeedsAreJobs
  <2>2. st[n] = "ok"
    <3>1. CASE d = j
      BY <3>1, <1>2 DEF JobStep, Ready, NeedsInv
    <3>2. CASE d # j
      BY <3>2, <1>1, <1>2 DEF NeedsInv
    <3> QED
      BY <3>1, <3>2
  <2>3. n # j
    BY <2>1, <2>2 DEF JobStep, Ready, StTypes
  <2> QED
    BY <1>1, <2>1, <2>2, <2>3
<1> QED
  BY <1>1, <1>2 DEF NeedsInv

(***************************************************************************)
(* What a step leaves as it was                                            *)
(***************************************************************************)

\* In one world, with the bundles tested so far and more, what held of given files, BOMs
\* and assets still does.
LEMMA WorldFixed ==
  ASSUME W' = W, tested \subseteq tested'
  PROVE  /\ \A tree : Releasable(tree) => Releasable(tree)'
         /\ \A app, engine, tree : SpeakFor(app, engine, tree) => SpeakFor(app, engine, tree)'
         /\ \A zip, app, engine : Shippable(zip, app, engine) => Shippable(zip, app, engine)'
         /\ \A assets : AssetsOk(assets) => AssetsOk(assets)'
<1>1. ASSUME NEW tree, Releasable(tree) PROVE Releasable(tree)'
  BY <1>1 DEF Releasable
<1>2. ASSUME NEW app, NEW engine, NEW tree, SpeakFor(app, engine, tree)
      PROVE  SpeakFor(app, engine, tree)'
  <2>1. Packages' = Packages /\ \A id : ArchiveFiles(id)' = ArchiveFiles(id)
    BY DEF Packages, ArchiveFiles
  <2> QED
    BY <1>2, <2>1 DEF SpeakFor
<1>3. ASSUME NEW zip, NEW app, NEW engine, Shippable(zip, app, engine)
      PROVE  Shippable(zip, app, engine)'
  <2>1. PICK tree \in tested :
          Releasable(tree) /\ SignedFrom(zip.entries, tree) /\ SpeakFor(app, engine, tree)
    BY <1>3 DEF Shippable
  <2>2. tree \in tested' /\ Releasable(tree)' /\ SpeakFor(app, engine, tree)'
    BY <1>1, <1>2, <2>1
  <2> QED
    BY <1>3, <2>1, <2>2 DEF Shippable
<1>4. ASSUME NEW assets, AssetsOk(assets) PROVE AssetsOk(assets)'
  BY <1>3, <1>4 DEF AssetsOk
<1> QED
  BY <1>1, <1>2, <1>3, <1>4

\* What every step does.
Frame ==
  /\ W' = W /\ tested \subseteq tested'
  /\ DOMAIN art' = Artifacts
  /\ attempt' \in 1 .. MaxAttempts /\ faults' \in 0 .. MaxFaults /\ tainted' \in BOOLEAN
  /\ StTypes' /\ NeedsInv'
  /\ refused' \subseteq {j \in Jobs : st'[j] = "failed"}

\* What a step may do to a job without anything new having to be shown of it.
NotBegun(j) == st'[j] \in {"ok", "uploading"} => st'[j] = st[j]

\* A step that leaves the draft alone.
LEMMA DraftStays ==
  ASSUME IInv, Frame, draft' = draft
  PROVE  TypeOK' /\ ShapeInv' /\ NeedsInv' /\ DraftOfOneCandidate' /\ PublishedInv'
<1>1. TypeOK'
  BY DEF IInv, TypeOK, Frame, StTypes
<1>2. ShapeInv'
  BY DEF IInv, ShapeInv, Frame
<1>3. DraftOfOneCandidate'
  BY DEF IInv, DraftOfOneCandidate
<1>4. PublishedInv'
  BY WorldFixed DEF IInv, PublishedInv, Frame
<1> QED
  BY <1>1, <1>2, <1>3, <1>4 DEF Frame

\* A step that leaves an artifact alone and its job where it was, or fails it.
LEMMA ArtifactsStay ==
  ASSUME IInv, Frame
  PROVE  /\ art'.dist = art.dist /\ NotBegun(Job("build")) => BuiltInv'
         /\ art'.dist = art.dist /\ art'.sboms = art.sboms /\ NotBegun(Job("sbom")) => ListedInv'
         /\ art'.dist = art.dist /\ art'.candidate = art.candidate /\ NotBegun(Job("collect"))
              => SignedInv'
         /\ art'.assets = art.assets /\ NotBegun(Job("package")) => PackedInv'
         /\ art'.assets = art.assets /\ draft' = draft /\ NotBegun(Job("publish"))
              => UploadingInv'
<1>1. W' = W /\ tested \subseteq tested'
  BY DEF Frame
<1>2. art'.dist = art.dist /\ NotBegun(Job("build")) => BuiltInv'
  BY <1>1, WorldFixed DEF IInv, BuiltInv, NotBegun
<1>3. art'.dist = art.dist /\ art'.sboms = art.sboms /\ NotBegun(Job("sbom")) => ListedInv'
  BY <1>1, WorldFixed DEF IInv, ListedInv, NotBegun
<1>4. art'.dist = art.dist /\ art'.candidate = art.candidate /\ NotBegun(Job("collect"))
        => SignedInv'
  BY DEF IInv, SignedInv, NotBegun
<1>5. art'.assets = art.assets /\ NotBegun(Job("package")) => PackedInv'
  BY <1>1, WorldFixed DEF IInv, PackedInv, NotBegun
<1>6. art'.assets = art.assets /\ draft' = draft /\ NotBegun(Job("publish")) => UploadingInv'
  BY DEF IInv, UploadingInv, ExistingIdentical, NotBegun
<1> QED
  BY <1>2, <1>3, <1>4, <1>5, <1>6

Chain == {Job("build"), Job("sbom"), Job("collect"), Job("package"), Job("publish")}

\* A step that does nothing for the bundle: the draft and what carries it stay.
LEMMA QuietStep ==
  ASSUME IInv, Frame, draft' = draft, \A j \in Chain : NotBegun(j),
         \A n \in {"dist", "sboms", "candidate", "assets"} : art'[n] = art[n]
  PROVE  IInv'
BY DraftStays, ArtifactsStay DEF IInv, Chain

\* A job that ends, and nothing is the matter with the draft.
LEMMA EndingFrame ==
  ASSUME IInv, NEW j, NEW v \in {"ok", "failed"}, JobStep(j, v),
         refused' \subseteq refused \cup {j}, v = "ok" => refused' = refused,
         W' = W, tested \subseteq tested', DOMAIN art' = Artifacts, attempt' = attempt,
         faults' \in 0 .. MaxFaults, tainted' \in BOOLEAN
  PROVE  /\ Frame /\ st'[j] = v /\ \A k \in Jobs \ {j} : st'[k] = st[k]
<1>1. /\ StTypes' /\ NeedsInv'
      /\ st'[j] = v /\ \A k \in Jobs \ {j} : st'[k] = st[k]
  BY JobStepKeeps DEF IInv, TypeOK, StTypes
<1>2. refused' \subseteq {k \in Jobs : st'[k] = "failed"}
  <2>1. refused \subseteq {k \in Jobs : st[k] = "failed"} /\ st[j] # "failed"
    BY DEF IInv, TypeOK, JobStep, Ready
  <2> QED
    BY <1>1, <2>1 DEF JobStep
<1> QED
  BY <1>1, <1>2 DEF Frame, IInv, TypeOK

(***************************************************************************)
(* Every step keeps the invariant                                          *)
(***************************************************************************)

\* Faults are counted up to their bound.
LEMMA FaultTypes ==
  ASSUME IInv, NoFault \/ (Fault /\ (tainted' = TRUE \/ UNCHANGED tainted))
  PROVE  faults' \in 0 .. MaxFaults /\ tainted' \in BOOLEAN
<1>1. faults \in 0 .. MaxFaults /\ tainted \in BOOLEAN
  BY DEF IInv, TypeOK
<1>2. CASE NoFault
  BY <1>1, <1>2 DEF NoFault
<1>3. CASE Fault /\ (tainted' = TRUE \/ UNCHANGED tainted)
  <2>1. faults' \in 0 .. MaxFaults
    BY <1>1, <1>3, BoundsAssumption DEF Fault
  <2>2. tainted' \in BOOLEAN
    BY <1>1, <1>3, Zenon
  <2> QED
    BY <2>1, <2>2
<1> QED
  BY <1>2, <1>3

\* A job apart from the chain that ends, uploading at most an artifact of its own.
LEMMA QuietJob ==
  ASSUME IInv, NEW j \in Jobs \ Chain, NEW v \in {"ok", "failed"}, Ready(j),
         st' = [st EXCEPT ![j] = v],
         refused' \subseteq refused \cup {j}, v = "ok" => refused' = refused,
         W' = W, tested' = tested, attempt' = attempt, draft' = draft,
         DOMAIN art' = Artifacts, \A n \in {"dist", "sboms", "candidate", "assets"} : art'[n] = art[n],
         faults' \in 0 .. MaxFaults, tainted' \in BOOLEAN
  PROVE  IInv'
<1>1. JobStep(j, v)
  BY DEF JobStep
<1>2. Frame /\ \A k \in Jobs \ {j} : st'[k] = st[k]
  BY <1>1, EndingFrame
<1>3. \A k \in Chain : k \in Jobs
  BY ChainJobs DEF Chain, Single
<1>4. \A k \in Chain : NotBegun(k)
  BY <1>2, <1>3 DEF NotBegun
<1> QED
  BY <1>2, <1>4, QuietStep

\* The preflight only looks at the draft.
LEMMA PreflightKeeps ==
  ASSUME IInv, Preflight PROVE IInv'
<1> DEFINE j == Job("preflight")
           v == IF ~draft.published THEN "ok" ELSE "failed"
<1>1. j \in Jobs \ Chain
  BY ChainJobs DEF Chain, Single
<1>2. /\ Ready(j) /\ st' = [st EXCEPT ![j] = v]
      /\ refused' \subseteq refused \cup {j} /\ (v = "ok" => refused' = refused)
  BY DEF Preflight, Ended
<1>3. faults' \in 0 .. MaxFaults /\ tainted' \in BOOLEAN
  BY FaultTypes DEF Preflight
<1>4. DOMAIN art = Artifacts
  BY DEF IInv, ShapeInv
<1>5. UNCHANGED <<W, attempt, art, draft, tested>>
  BY DEF Preflight
<1> QED
  BY <1>1, <1>2, <1>3, <1>4, <1>5, QuietJob

\* A shard of either mutation lane uploads its evidence and nothing else.
LEMMA EvidenceStep ==
  ASSUME IInv, NEW j \in MutationJobs, NEW ok, NEW evidence, Ready(j), Ended(j, ok),
         art' = [art EXCEPT !.evidence = evidence], UNCHANGED <<W, attempt, draft, tested>>,
         NoFault \/ (Fault /\ tainted' = TRUE)
  PROVE  IInv'
<1> DEFINE v == IF ok THEN "ok" ELSE "failed"
<1>1. j \in Jobs \ Chain
  BY ChainJobs DEF Chain, Single, Jobs
<1>2. /\ v \in {"ok", "failed"} /\ st' = [st EXCEPT ![j] = v]
      /\ refused' \subseteq refused \cup {j} /\ (v = "ok" => refused' = refused)
  BY DEF Ended
<1>3. faults' \in 0 .. MaxFaults /\ tainted' \in BOOLEAN
  BY FaultTypes
<1>4. DOMAIN art' = Artifacts /\ \A n \in {"dist", "sboms", "candidate", "assets"} : art'[n] = art[n]
  BY DEF IInv, ShapeInv, Artifacts
<1> HIDE DEF v
<1> QED
  BY <1>1, <1>2, <1>3, <1>4, QuietJob

\* The shards, sound or not, bear on nothing that carries the bundle.
LEMMA ShardsKeep ==
  ASSUME IInv, NEW shard \in Shards,
         RustShard(shard) \/ RustShardFault(shard) \/ CsharpShard(shard)
  PROVE  IInv'
<1>1. <<"rust", shard>> \in MutationJobs /\ <<"csharp", shard>> \in MutationJobs
  BY DEF MutationJobs
<1>2. ASSUME NEW list, NEW report, RustShardWith(shard, list, report),
             NoFault \/ (Fault /\ tainted' = TRUE)
      PROVE  IInv'
  <2>1. PICK result : /\ Ready(<<"rust", shard>>) /\ Ended(<<"rust", shard>>, result.ok)
                      /\ art' = [art EXCEPT !.evidence["rust"][shard] = result.evidence]
                      /\ UNCHANGED <<W, attempt, draft, tested>>
    BY <1>2, Zenon DEF RustShardWith
  <2>2. PICK evidence : art' = [art EXCEPT !.evidence = evidence]
    BY <2>1
  <2> QED
    BY <1>1, <1>2, <2>1, <2>2, EvidenceStep
<1>3. CASE CsharpShard(shard)
  <2>1. PICK result : /\ Ready(<<"csharp", shard>>) /\ Ended(<<"csharp", shard>>, result.ok)
                      /\ art' = [art EXCEPT !.evidence["csharp"][shard] = result.evidence]
                      /\ UNCHANGED <<W, attempt, draft, tested>> /\ NoFault
    BY <1>3, Zenon DEF CsharpShard
  <2>2. PICK evidence : art' = [art EXCEPT !.evidence = evidence]
    BY <2>1
  <2> QED
    BY <1>1, <2>1, <2>2, EvidenceStep
<1>4. CASE RustShard(shard)
  BY <1>2, <1>4, Zenon DEF RustShard
<1>5. CASE RustShardFault(shard)
  <2>1. \E list, report : RustShardWith(shard, list, report) /\ Fault /\ tainted' = TRUE
    BY <1>5, Zenon DEF RustShardFault
  <2> QED
    BY <1>2, <2>1
<1> QED
  BY <1>3, <1>4, <1>5

\* The verifier, the stage and the signer hand on artifacts of their own.
LEMMA HandingStep ==
  ASSUME IInv, NEW n \in {"verified", "input", "result"}, NEW made,
         NEW j \in {Job("verify"), Job("stage"), Job("sign")}, NEW v \in {"ok", "failed"},
         Ready(j), st' = [st EXCEPT ![j] = v],
         refused' \subseteq refused \cup {j}, v = "ok" => refused' = refused,
         art' = [art EXCEPT ![n] = made] \/ art' = art,
         UNCHANGED <<W, attempt, draft, tested>>, NoFault \/ (Fault /\ tainted' = TRUE)
  PROVE  IInv'
<1>1. j \in Jobs \ Chain
  BY ChainJobs DEF Chain, Single
<1>2. faults' \in 0 .. MaxFaults /\ tainted' \in BOOLEAN
  BY FaultTypes
<1>3. DOMAIN art' = Artifacts /\ \A m \in {"dist", "sboms", "candidate", "assets"} : art'[m] = art[m]
  BY DEF IInv, ShapeInv, Artifacts
<1> QED
  BY <1>1, <1>2, <1>3, QuietJob

\* The verifier of the shards bears on nothing that carries the bundle either,
LEMMA VerifyMutationKeeps ==
  ASSUME IInv, VerifyMutation PROVE IInv'
<1>1. PICK rust, csharp :
        /\ Finish(Job("verify"), rust.ok /\ csharp.ok,
                  [art EXCEPT !.verified = <<rust.summary, csharp.summary>>])
        /\ NoFault /\ UNCHANGED <<W, attempt, draft, tested>>
  BY Zenon DEF VerifyMutation
<1> DEFINE v == IF rust.ok /\ csharp.ok THEN "ok" ELSE "failed"
<1>2. /\ Ready(Job("verify")) /\ st' = [st EXCEPT ![Job("verify")] = v] /\ v \in {"ok", "failed"}
      /\ refused' \subseteq refused \cup {Job("verify")} /\ (v = "ok" => refused' = refused)
      /\ \/ art' = [art EXCEPT !["verified"] = <<rust.summary, csharp.summary>>]
         \/ art' = art
  BY <1>1 DEF Finish, Ended
<1> HIDE DEF v
<1> QED
  BY <1>1, <1>2, HandingStep

\* nor do the copies that go to the signer,
LEMMA StageSigningKeeps ==
  ASSUME IInv, StageSigning PROVE IInv'
<1>1. PICK staged :
        /\ Finish(Job("stage"),
                  /\ ~draft.published
                  /\ staged.ok
                  /\ \A n \in DOMAIN staged.files : staged.files[n].table.at = 0,
                  [art EXCEPT !.input = <<staged.files>>])
        /\ NoFault /\ UNCHANGED <<W, attempt, draft, tested>>
  BY Zenon DEF StageSigning
<1>2. \E v \in {"ok", "failed"} :
        /\ Ready(Job("stage")) /\ st' = [st EXCEPT ![Job("stage")] = v]
        /\ refused' \subseteq refused \cup {Job("stage")} /\ (v = "ok" => refused' = refused)
        /\ art' = [art EXCEPT !["input"] = <<staged.files>>] \/ art' = art
  BY <1>1 DEF Finish, Ended
<1> QED
  BY <1>1, <1>2, HandingStep

\* nor what comes back from it, which is not looked at before it is collected.
LEMMA SigningKeeps ==
  ASSUME IInv, Sign \/ SignWrongly PROVE IInv'
<1>1. ASSUME NEW result, Ready(Job("sign")), Ended(Job("sign"), TRUE),
             art' = [art EXCEPT !.result = <<result>>], UNCHANGED <<W, attempt, draft, tested>>,
             NoFault \/ (Fault /\ tainted' = TRUE)
      PROVE  IInv'
  <2>1. st' = [st EXCEPT ![Job("sign")] = "ok"] /\ refused' = refused
    BY <1>1 DEF Ended
  <2>2. art' = [art EXCEPT !["result"] = <<result>>]
    BY <1>1
  <2> QED
    BY <1>1, <2>1, <2>2, HandingStep
<1>2. \E result :
        /\ Ready(Job("sign")) /\ Ended(Job("sign"), TRUE)
        /\ art' = [art EXCEPT !.result = <<result>>] /\ UNCHANGED <<W, attempt, draft, tested>>
        /\ NoFault \/ (Fault /\ tainted' = TRUE)
  <2>1. CASE Sign
    BY <2>1, Zenon DEF Sign, SignWith
  <2>2. CASE SignWrongly
    BY <2>2, Zenon DEF SignWrongly, SignWith
  <2> QED
    BY <2>1, <2>2
<1> QED
  BY <1>1, <1>2

\* A lost machine uploads nothing, and nothing goes on from there.
LEMMA LostKeeps ==
  ASSUME IInv, NEW j \in Jobs, Lost(j) PROVE IInv'
<1>1. /\ JobStep(j, "failed") /\ refused' = refused /\ art' = art /\ draft' = draft
      /\ W' = W /\ tested' = tested /\ attempt' = attempt
  BY DEF Lost, JobStep
<1>2. faults' \in 0 .. MaxFaults /\ tainted' \in BOOLEAN
  BY FaultTypes DEF Lost
<1>3. DOMAIN art' = Artifacts
  BY <1>1 DEF IInv, ShapeInv
<1>4. Frame /\ st'[j] = "failed" /\ \A k \in Jobs \ {j} : st'[k] = st[k]
  BY <1>1, <1>2, <1>3, EndingFrame
<1>5. \A k \in Chain : NotBegun(k)
  BY <1>4, ChainJobs DEF NotBegun, Chain, Single
<1> QED
  BY <1>1, <1>4, <1>5, QuietStep

\* A further attempt starts jobs again together with all that need them.
LEMMA AgainKeeps ==
  ASSUME IInv, NEW jobs, Closed(jobs), Again(jobs), tainted' \in BOOLEAN
  PROVE  IInv'
<1>1. /\ st \in [Jobs -> {"waiting", "ok", "failed", "uploading"}]
      /\ \A j \in Jobs : st[j] # "uploading"
      /\ st' = [j \in Jobs |-> IF j \in jobs THEN "waiting" ELSE st[j]]
  BY DEF IInv, TypeOK, Again, Over
<1>2. StTypes'
  BY <1>1 DEF StTypes
<1>3. ASSUME NEW d \in Jobs, st'[d] # "waiting", NEW n \in Needs(d)
      PROVE  st'[n] = "ok"
  <2>1. d \notin jobs /\ st[d] # "waiting"
    BY <1>1, <1>3
  <2>2. n \in Jobs /\ n \notin jobs
    BY <1>3, <2>1, NeedsAreJobs DEF Closed
  <2> QED
    BY <1>1, <1>3, <2>1, <2>2 DEF IInv, NeedsInv
<1>4. NeedsInv'
  BY <1>3 DEF NeedsInv
<1>5. Frame
  <2>1. attempt' \in 1 .. MaxAttempts
    BY BoundsAssumption DEF Again, IInv, TypeOK
  <2>2. faults' \in 0 .. MaxFaults /\ DOMAIN art' = Artifacts /\ refused' = {}
        /\ W' = W /\ tested' = tested
    BY DEF Again, IInv, TypeOK, ShapeInv
  <2> QED
    BY <1>2, <1>4, <2>1, <2>2 DEF Frame
<1>6. \A k \in Chain : NotBegun(k)
  BY <1>1, ChainJobs DEF NotBegun, Chain, Single
<1> QED
  BY <1>5, <1>6, QuietStep DEF Again

\* Each of the three ways to start a further attempt.
LEMMA RerunsKeep ==
  ASSUME IInv, RerunAll \/ RerunFailed \/ \E j \in Jobs : RerunJob(j)
  PROVE  IInv'
<1>1. tainted' \in BOOLEAN
  BY Zenon DEF IInv, TypeOK, RerunAll, RerunFailed, RerunJob
<1>2. \E jobs : Closed(jobs) /\ Again(jobs)
  <2>1. CASE RerunAll
    BY <2>1, AgainIsClosed DEF RerunAll
  <2>2. CASE RerunFailed
    <3> DEFINE failed == {x \in Jobs : st[x] = "failed"}
    <3>1. Again(UNION {Dependents(j) : j \in failed})
      BY <2>2 DEF RerunFailed
    <3>2. Closed(UNION {Dependents(j) : j \in failed})
      BY AgainIsClosed
    <3> QED
      BY <3>1, <3>2
  <2>3. CASE \E j \in Jobs : RerunJob(j)
    BY <2>3, AgainIsClosed DEF RerunJob
  <2> QED
    BY <2>1, <2>2, <2>3
<1> QED
  BY <1>1, <1>2, AgainKeeps

\* The build uploads a bundle that it tested and that is as it was sealed.
LEMMA BuildWithKeeps ==
  ASSUME IInv, NEW shipping, NEW sealed, NEW after, NEW v \in {"ok", "failed"},
         Ready(Job("build")), st' = [st EXCEPT ![Job("build")] = v],
         refused' \subseteq refused \cup {Job("build")}, v = "ok" => refused' = refused,
         art' = IF v = "ok"
                THEN [art EXCEPT !.dist = <<[tree |-> after, manifest |-> sealed.manifest]>>]
                ELSE art,
         v = "ok" => after \in tested' /\ Releasable(after),
         W' = W, tested \subseteq tested', attempt' = attempt, draft' = draft,
         faults' \in 0 .. MaxFaults, tainted' \in BOOLEAN
  PROVE  IInv'
<1> DEFINE j == Job("build")
<1>1. j \in Jobs /\ JobStep(j, v)
  BY ChainJobs DEF JobStep, Single
<1>2. /\ DOMAIN art' = Artifacts
      /\ v = "ok" => art'.dist[1].tree = after
      /\ \A n \in {"sboms", "candidate", "assets"} : art'[n] = art[n]
  BY DEF IInv, ShapeInv, Artifacts
<1>3. Frame /\ st'[j] = v /\ \A k \in Jobs \ {j} : st'[k] = st[k]
  BY <1>1, <1>2, EndingFrame
<1>4. Job("sbom") \in Jobs /\ Job("collect") \in Jobs
      /\ st[Job("sbom")] = "waiting" /\ st[Job("collect")] = "waiting"
  BY ChainJobs, NeedsOfChain DEF IInv, NeedsInv, Ready, Single
<1>5. \A k \in Chain \ {j} : k \in Jobs \ {j}
  BY ChainJobs DEF Chain, Single
<1>6. \A k \in Chain \ {j} : NotBegun(k)
  BY <1>3, <1>5 DEF NotBegun
<1>7. BuiltInv'
  BY <1>2, <1>3, WorldFixed DEF BuiltInv, Frame
<1>8. ListedInv' /\ SignedInv'
  BY <1>3, <1>4, ChainJobs DEF ListedInv, SignedInv, Single
<1>9. PackedInv' /\ UploadingInv'
  BY <1>2, <1>3, <1>6, ArtifactsStay, ChainJobs DEF Chain, Single
<1>10. TypeOK' /\ ShapeInv' /\ NeedsInv' /\ DraftOfOneCandidate' /\ PublishedInv'
  BY <1>3, DraftStays
<1> QED
  BY <1>7, <1>8, <1>9, <1>10 DEF IInv

\* The seal of the bundle that was made, and what is asked before the job uploads what it
\* finds after the tests.
Sealing == IF Made.ok THEN RunSeal(Made.tree, "unsigned", << >>) ELSE Fail
BuildGood(after) ==
  /\ ~draft.published
  /\ CheckReleaseTag(W, W.tag)
  /\ Made.ok
  /\ BuildinfoCommit(Made.tree[BuildInfo]) = [ok |-> TRUE, of |-> W.target]
  /\ Sealing.ok
  /\ VerifyAt(Made.tree, Sealing.manifest, "unsigned")
  /\ RunBundle(Bundling, Engine, W.tag, Commit, TRUE).ok
  /\ VerifyAt(after, Sealing.manifest, "unsigned")
BuildOf(after) ==
  /\ Finish(Job("build"), BuildGood(after),
            [art EXCEPT !.dist = <<[tree |-> after, manifest |-> Sealing.manifest]>>])
  /\ tested' = IF Made.ok THEN tested \cup {Made.tree} ELSE tested
  /\ UNCHANGED <<W, attempt, draft>>

\* What the build uploads is the bundle that was made and tested, and may be released.
LEMMA BuildGoodIsReleasable ==
  ASSUME W \in Worlds, NEW after, IsTree(after), BuildGood(after)
  PROVE  after = Made.tree /\ Releasable(after)
<1>1. Made.ok /\ Sealing = SealTo(Made.tree, "unsigned") /\ Sealing.ok
  BY DEF BuildGood, Sealing, RunSeal
<1>2. VerifyAt(Made.tree, Sealing.manifest, "unsigned")
      /\ VerifyAt(after, Sealing.manifest, "unsigned")
  BY DEF BuildGood
<1>3. Releasable(Made.tree)
  BY <1>1, <1>2, VerifiedImages, BuiltIsReleasable DEF BuildGood
<1>4. IsTree(Made.tree)
  BY <1>3 DEF Releasable
<1>5. after = Made.tree
  BY <1>1, <1>2, <1>4, VerifiedIsSealed
<1> QED
  BY <1>3, <1>5

\* A build keeps the invariant, whatever its tests leave in the bundle.
LEMMA BuildOfKeeps ==
  ASSUME IInv, NEW after, Made.ok => IsTree(after), BuildOf(after),
         NoFault \/ (Fault /\ tainted' = TRUE)
  PROVE  IInv'
<1>1. PICK v \in {"ok", "failed"} :
        /\ st' = [st EXCEPT ![Job("build")] = v] /\ Ready(Job("build"))
        /\ refused' \subseteq refused \cup {Job("build")} /\ (v = "ok" => refused' = refused)
        /\ art' = IF v = "ok"
                  THEN [art EXCEPT !.dist = <<[tree |-> after, manifest |-> Sealing.manifest]>>]
                  ELSE art
        /\ v = "ok" => BuildGood(after)
  <2>1. CASE BuildGood(after)
    BY <2>1 DEF BuildOf, Finish, Ended
  <2>2. CASE ~BuildGood(after)
    BY <2>2 DEF BuildOf, Finish, Ended
  <2> QED
    BY <2>1, <2>2
<1>2. /\ W' = W /\ tested \subseteq tested' /\ attempt' = attempt /\ draft' = draft
      /\ Made.ok => Made.tree \in tested'
  BY DEF BuildOf
<1>3. ASSUME v = "ok" PROVE after \in tested' /\ Releasable(after)
  <2>1. BuildGood(after) /\ Made.ok
    BY <1>1, <1>3 DEF BuildGood
  <2>2. W \in Worlds
    BY DEF IInv, ShapeInv
  <2>3. IsTree(after)
    BY <2>1, Zenon
  <2>4. after = Made.tree /\ Releasable(after)
    BY <2>1, <2>2, <2>3, BuildGoodIsReleasable
  <2>5. Made.tree \in tested'
    BY <1>2, <2>1, Zenon
  <2> QED
    BY <2>4, <2>5, Zenon
<1>4. faults' \in 0 .. MaxFaults /\ tainted' \in BOOLEAN
  BY FaultTypes
<1> QED
  BY <1>1, <1>2, <1>3, <1>4, BuildWithKeeps

\* The build, with tests that leave the bundle alone and with tests that do not.
LEMMA BuildsKeep ==
  ASSUME IInv, Build \/ BuildTouched PROVE IInv'
<1>1. CASE Build
  <2>1. BuildOf(IF Made.ok THEN Made.tree ELSE << >>) /\ NoFault
    BY <1>1, ZenonT(60) DEF Build, BuildWith, BuildOf, BuildGood, Sealing, Made, Commit
  <2>2. Made.ok => IsTree(Made.tree)
    <3>1. W \in Worlds
      BY DEF IInv, ShapeInv
    <3>2. ASSUME Made.ok PROVE IsTree(Made.tree)
      <4>1. VerifyBundle(AppOf(Bundling, Engine, FALSE), W.xaml)
            /\ Made.tree = BundleOf(Bundling, Engine, W.tag, Commit.of, FALSE)
        <5>1. RunBundle(Bundling, Engine, W.tag, Commit, FALSE).ok
          BY <3>2 DEF Made
        <5>2. /\ Commit.ok /\ ImageDigest(Engine[Service]).ok
              /\ VerifyBundle(AppOf(Bundling, Engine, FALSE), Bundling.xaml)
              /\ Made.tree = BundleOf(Bundling, Engine, W.tag, Commit.of, FALSE)
              /\ ValidBundleIdentity(BundleOf(Bundling, Engine, W.tag, Commit.of, FALSE),
                                     W.tag, Commit.of)
          BY <5>1, BundleIsChecked, Zenon DEF Made
        <5> QED
          BY <3>1, <5>2, BundlingIs, Zenon
      <4> QED
        BY <3>1, <4>1, MadeFiles
    <3> QED
      BY <3>2
  <2> QED
    BY <2>1, <2>2, BuildOfKeeps
<1>2. CASE BuildTouched
  <2>1. PICK p \in {Licence, Service} : BuildWith(LAMBDA t : Touched(t, p))
    BY <1>2, Zenon DEF BuildTouched
  <2>2. BuildOf(IF Made.ok THEN Touched(Made.tree, p) ELSE << >>)
    <3>1. \E shipping \in {Made} :
          \E sealed \in {IF shipping.ok THEN RunSeal(shipping.tree, "unsigned", << >>) ELSE Fail} :
          \E after \in {IF shipping.ok THEN Touched(shipping.tree, p) ELSE << >>} :
             BuildOf(after)
      BY <2>1, ZenonT(60) DEF BuildWith, BuildOf, BuildGood, Sealing, Made, Commit
    <3> QED
      BY <3>1, Zenon
  <2>3. IsTree(Touched(Made.tree, p))
    BY DEF IsTree, Touched
  <2>4. Fault /\ tainted' = TRUE
    BY <1>2 DEF BuildTouched
  <2> QED
    BY <2>2, <2>3, <2>4, BuildOfKeeps
<1> QED
  BY <1>1, <1>2

\* The sbom job lists the bundle it was given, which may be released.
LEMMA MakeSbomKeeps ==
  ASSUME IInv, MakeSbom PROVE IInv'
<1> DEFINE j == Job("sbom")
           tree == art.dist[1].tree
           made == RunSbom(W.tag, tree, W.raw, W.deps, W.nuget, W.caches)
<1>1. /\ Finish(j, VerifyAt(tree, art.dist[1].manifest, "unsigned") /\ made.ok,
                [art EXCEPT !.sboms = <<made.boms>>])
      /\ NoFault /\ UNCHANGED <<W, attempt, draft, tested>>
  BY Zenon DEF MakeSbom
<1> HIDE DEF made
<1>2. PICK v \in {"ok", "failed"} :
        /\ Ready(j) /\ st' = [st EXCEPT ![j] = v]
        /\ refused' \subseteq refused \cup {j} /\ (v = "ok" => refused' = refused)
        /\ art' = IF v = "ok" THEN [art EXCEPT !.sboms = <<made.boms>>] ELSE art
        /\ v = "ok" => made.ok
  BY <1>1 DEF Finish, Ended
<1>3. j \in Jobs /\ JobStep(j, v)
  BY <1>2, ChainJobs DEF JobStep, Single
<1>4. /\ DOMAIN art' = Artifacts
      /\ v = "ok" => art'.sboms[1] = made.boms
      /\ \A n \in {"dist", "candidate", "assets"} : art'[n] = art[n]
  BY <1>2 DEF IInv, ShapeInv, Artifacts
<1>5. faults' \in 0 .. MaxFaults /\ tainted' \in BOOLEAN
  BY <1>1, FaultTypes
<1>6. UNCHANGED <<W, attempt, draft, tested>>
  BY <1>1
<1>7. Frame /\ st'[j] = v /\ \A k \in Jobs \ {j} : st'[k] = st[k]
  BY <1>2, <1>3, <1>4, <1>5, <1>6, EndingFrame
<1>8. \A k \in Chain \ {j} : NotBegun(k)
  BY <1>7, ChainJobs DEF Chain, Single, NotBegun
<1>9. ListedInv'
  <2>1. ASSUME v = "ok"
        PROVE  SpeakFor(made.boms["app"], made.boms["engine"], tree)
    <3>1. st[Job("build")] = "ok"
      BY <1>2, NeedsOfChain DEF Ready
    <3>2. W \in Worlds /\ Releasable(tree)
      BY <3>1 DEF IInv, ShapeInv, BuiltInv
    <3>3. made.ok
      BY <1>2, <2>1
    <3> QED
      BY <3>2, <3>3, SbomSpeaks DEF made
  <2>2. v = "ok" => /\ art'.sboms[1]["app"] = made.boms["app"]
                    /\ art'.sboms[1]["engine"] = made.boms["engine"]
                    /\ art'.dist[1].tree = tree
    BY <1>4
  <2> HIDE DEF tree
  <2> QED
    BY <2>1, <2>2, <1>7, WorldFixed DEF ListedInv, Frame
<1>10. BuiltInv' /\ SignedInv' /\ PackedInv' /\ UploadingInv'
  BY <1>4, <1>6, <1>7, <1>8, ArtifactsStay, ChainJobs DEF Chain, Single
<1>11. TypeOK' /\ ShapeInv' /\ NeedsInv' /\ DraftOfOneCandidate' /\ PublishedInv'
  BY <1>6, <1>7, DraftStays
<1> QED
  BY <1>9, <1>10, <1>11 DEF IInv

\* What sign-collect uploads is the bundle with its images signed.
LEMMA CollectSignedKeeps ==
  ASSUME IInv, CollectSigned PROVE IInv'
<1> DEFINE j == Job("collect")
           tree == art.dist[1].tree
           collected == CollectPreservingImages(tree, art.result[1])
<1>1. PICK sealed :
        /\ Finish(j,
             /\ DOMAIN art.result[1] = Range(FirstParty)
             /\ VerifyAt(tree, art.dist[1].manifest, "unsigned")
             /\ collected.ok
             /\ VerifySignedTransition(collected.tree, art.dist[1].manifest)
             /\ SignaturesOk(collected.tree)
             /\ sealed.ok
             /\ VerifyAt(collected.tree, sealed.manifest, "signed"),
             [art EXCEPT !.candidate = <<[tree |-> collected.tree,
                                          manifest |-> sealed.manifest]>>])
        /\ NoFault /\ UNCHANGED <<W, attempt, draft, tested>>
  BY Zenon DEF CollectSigned
<1> HIDE DEF collected
<1>2. PICK v \in {"ok", "failed"} :
        /\ Ready(j) /\ st' = [st EXCEPT ![j] = v]
        /\ refused' \subseteq refused \cup {j} /\ (v = "ok" => refused' = refused)
        /\ art' = IF v = "ok"
                  THEN [art EXCEPT !.candidate = <<[tree |-> collected.tree,
                                                    manifest |-> sealed.manifest]>>]
                  ELSE art
        /\ v = "ok" => /\ collected.ok /\ SignaturesOk(collected.tree)
                       /\ VerifyAt(collected.tree, sealed.manifest, "signed")
  BY <1>1 DEF Finish, Ended
<1>3. j \in Jobs /\ JobStep(j, v)
  BY <1>2, ChainJobs DEF JobStep, Single
<1>4. /\ DOMAIN art' = Artifacts
      /\ v = "ok" => art'.candidate[1].tree = collected.tree
      /\ \A n \in {"dist", "sboms", "assets"} : art'[n] = art[n]
  BY <1>2 DEF IInv, ShapeInv, Artifacts
<1>5. faults' \in 0 .. MaxFaults /\ tainted' \in BOOLEAN
  BY <1>1, FaultTypes
<1>6. UNCHANGED <<W, attempt, draft, tested>>
  BY <1>1
<1>7. Frame /\ st'[j] = v /\ \A k \in Jobs \ {j} : st'[k] = st[k]
  BY <1>2, <1>3, <1>4, <1>5, <1>6, EndingFrame
<1>8. \A k \in Chain \ {j} : NotBegun(k)
  BY <1>7, ChainJobs DEF Chain, Single, NotBegun
<1>9. SignedInv'
  <2>1. ASSUME v = "ok" PROVE SignedFrom(collected.tree, tree)
    <3>1. st[Job("build")] = "ok"
      BY <1>2, NeedsOfChain DEF Ready
    <3>2. Releasable(tree)
      BY <3>1 DEF IInv, BuiltInv
    <3> QED
      BY <1>2, <2>1, <3>2, CollectedIsSigned DEF collected
  <2>2. art'.dist[1].tree = tree
    BY <1>4
  <2> HIDE DEF tree
  <2> QED
    BY <1>4, <1>7, <2>1, <2>2 DEF SignedInv
<1>10. BuiltInv' /\ ListedInv' /\ PackedInv' /\ UploadingInv'
  BY <1>4, <1>6, <1>7, <1>8, ArtifactsStay, ChainJobs DEF Chain, Single
<1>11. TypeOK' /\ ShapeInv' /\ NeedsInv' /\ DraftOfOneCandidate' /\ PublishedInv'
  BY <1>6, <1>7, DraftStays
<1> QED
  BY <1>9, <1>10, <1>11 DEF IInv

\* A bundle is zipped as it is, under the tag, and with nothing that must not ship.
LEMMA PackedIsTree ==
  ASSUME NEW tree, NEW tag, IsTree(tree), Package(tree, <<tag>>).ok
  PROVE  LET packed == Package(tree, <<tag>>)
         IN /\ packed.zip = tree /\ packed.label = tag
            /\ (TestOnly \cup Developer) \cap DOMAIN tree = {}
            /\ tree[Service].loads = "system32"
<1> DEFINE packed == Package(tree, <<tag>>)
           sealed == CollectBundleFiles(tree, "signed")
           label == PackageLabel(<<tag>>, tree[BuildInfo].version)
           zip == WriteZip(tree, sealed.files)
<1>1. /\ sealed.ok /\ VerifyReleaseBoundary(tree) /\ label.ok /\ zip.ok
      /\ packed.zip = zip.entries /\ packed.label = label.of
  <2>1. <<tag>> # << >>
    OBVIOUS
  <2>2. packed # Fail
    BY DEF Fail
  <2>3. /\ sealed.ok /\ VerifyReleaseBoundary(tree) /\ label.ok /\ zip.ok
        /\ packed = [ok |-> TRUE, label |-> label.of, zip |-> zip.entries]
    BY <2>1, <2>2, Zenon DEF Package
  <2> HIDE DEF packed, sealed, label, zip
  <2> QED
    BY <2>3
<1>2. DOMAIN sealed.files = DOMAIN tree
  BY <1>1 DEF CollectBundleFiles, Fail
<1>3. zip.entries = [p \in DOMAIN tree |-> tree[p]]
  BY <1>1, <1>2 DEF WriteZip, Fail
<1>4. label.of = tag
  BY <1>1 DEF PackageLabel, Fail
<1>5. tree[Service].loads = "system32" /\ (TestOnly \cup Developer) \cap DOMAIN tree = {}
  BY <1>1 DEF VerifyReleaseBoundary, System32Only, VerifyTestArtifacts
<1> QED
  BY <1>1, <1>3, <1>4, <1>5 DEF IsTree

\* The assets of a packaged bundle with its BOMs.
AssetsOf(zip, boms) ==
  [n \in AssetNames |->
     CASE n = "zip" -> Uploaded(zip)
       [] n = "SHA256SUMS" -> Uploaded([of |-> zip])
       [] OTHER -> Uploaded(boms[n])]

\* They may go out when the bundle is the signing of one that was tested and the BOMs
\* speak for that one.
LEMMA AssetsOfOk ==
  ASSUME NEW zip, NEW boms, Shippable(zip, boms["app"], boms["engine"])
  PROVE  AssetsOk(AssetsOf(zip, boms))
<1> DEFINE assets == AssetsOf(zip, boms)
<1>1. /\ DOMAIN assets = AssetNames
      /\ assets["zip"] = Uploaded(zip) /\ assets["SHA256SUMS"] = Uploaded([of |-> zip])
      /\ assets["app"] = Uploaded(boms["app"]) /\ assets["engine"] = Uploaded(boms["engine"])
  BY DEF AssetsOf, AssetNames
<1> HIDE DEF assets
<1>2. \A c : Uploaded(c).content[1] = c
  BY DEF Uploaded
<1>3. /\ assets["zip"].content[1] = zip /\ assets["SHA256SUMS"].content[1].of = zip
      /\ assets["app"].content[1] = boms["app"]
      /\ assets["engine"].content[1] = boms["engine"]
      /\ \A n \in AssetNames : assets[n] = Uploaded(assets[n].content[1])
  BY <1>1, <1>2 DEF AssetNames
<1> QED
  BY <1>1, <1>3 DEF AssetsOk, assets

\* What package uploads is the signing of the tested bundle, with the BOMs of that bundle.
LEMMA PackageReleaseKeeps ==
  ASSUME IInv, PackageRelease PROVE IInv'
<1> DEFINE j == Job("package")
           tree == art.candidate[1].tree
           boms == art.sboms[1]
           packed == Package(tree, <<W.tag>>)
           zip == [label |-> packed.label, entries |-> packed.zip]
<1>1. /\ Finish(j,
           /\ VerifyAt(tree, art.candidate[1].manifest, "signed")
           /\ SignaturesOk(tree)
           /\ VerifyFinalPair(boms, W.tag)
           /\ packed.ok
           /\ ~draft.published,
           [art EXCEPT !.assets = <<AssetsOf(zip, boms)>>])
      /\ NoFault /\ UNCHANGED <<W, attempt, draft, tested>>
  BY Zenon DEF PackageRelease, AssetsOf
<1> HIDE DEF packed, zip
<1>2. PICK v \in {"ok", "failed"} :
        /\ Ready(j) /\ st' = [st EXCEPT ![j] = v]
        /\ refused' \subseteq refused \cup {j} /\ (v = "ok" => refused' = refused)
        /\ art' = IF v = "ok" THEN [art EXCEPT !.assets = <<AssetsOf(zip, boms)>>] ELSE art
        /\ v = "ok" => packed.ok
  BY <1>1 DEF Finish, Ended
<1>3. j \in Jobs /\ JobStep(j, v)
  BY <1>2, ChainJobs DEF JobStep, Single
<1>4. /\ DOMAIN art' = Artifacts
      /\ v = "ok" => art'.assets[1] = AssetsOf(zip, boms)
      /\ \A n \in {"dist", "sboms", "candidate"} : art'[n] = art[n]
  BY <1>2 DEF IInv, ShapeInv, Artifacts
<1>5. faults' \in 0 .. MaxFaults /\ tainted' \in BOOLEAN
  BY <1>1, FaultTypes
<1>6. UNCHANGED <<W, attempt, draft, tested>>
  BY <1>1
<1>7. Frame /\ st'[j] = v /\ \A k \in Jobs \ {j} : st'[k] = st[k]
  BY <1>2, <1>3, <1>4, <1>5, <1>6, EndingFrame
<1>8. \A k \in Chain \ {j} : NotBegun(k)
  BY <1>7, ChainJobs DEF Chain, Single, NotBegun
<1>9. PackedInv'
  <2>1. ASSUME v = "ok" PROVE AssetsOk(AssetsOf(zip, boms))
    <3>1. \A k \in {Job("build"), Job("sbom"), Job("collect")} : st[k] = "ok"
      BY <1>2, NeedsOfChain DEF Ready
    <3> DEFINE dist == art.dist[1].tree
    <3>2. /\ dist \in tested /\ Releasable(dist) /\ SignedFrom(tree, dist)
          /\ SpeakFor(boms["app"], boms["engine"], dist)
      BY <3>1 DEF IInv, BuiltInv, ListedInv, SignedInv
    <3>3. IsTree(tree)
      BY <3>2 DEF SignedFrom
    <3>4. /\ packed.zip = tree /\ packed.label = W.tag
          /\ (TestOnly \cup Developer) \cap DOMAIN tree = {}
          /\ tree[Service].loads = "system32"
      BY <1>2, <2>1, <3>3, PackedIsTree DEF packed
    <3>5. zip.entries = tree /\ zip.label = W.tag
      BY <3>4 DEF zip
    <3> HIDE DEF dist, tree, boms
    <3>6. Shippable(zip, boms["app"], boms["engine"])
      BY <3>2, <3>4, <3>5 DEF Shippable
    <3> QED
      BY <3>6, AssetsOfOk
  <2> QED
    BY <1>4, <1>7, <2>1, WorldFixed DEF PackedInv, Frame
<1>10. UploadingInv'
  <2>1. st[Job("publish")] = "waiting"
    BY <1>2, ChainJobs, NeedsOfChain DEF IInv, NeedsInv, Ready, Single
  <2> QED
    BY <1>7, <2>1, ChainJobs DEF UploadingInv, Single
<1>11. BuiltInv' /\ ListedInv' /\ SignedInv'
  BY <1>4, <1>6, <1>7, <1>8, ArtifactsStay, ChainJobs DEF Chain, Single
<1>12. TypeOK' /\ ShapeInv' /\ NeedsInv' /\ DraftOfOneCandidate' /\ PublishedInv'
  BY <1>6, <1>7, DraftStays
<1> QED
  BY <1>9, <1>10, <1>11, <1>12 DEF IInv

(***************************************************************************)
(* The draft                                                               *)
(***************************************************************************)

\* The part of DraftOfOneCandidate that is about given assets.
Together(assets) ==
  LET there(n) == n \in DOMAIN assets /\ assets[n].state = "uploaded"
      content(n) == assets[n].content[1]
  IN /\ there("zip") /\ there("SHA256SUMS") => content("SHA256SUMS").of = content("zip")
     /\ \A n \in {"app", "engine"} : there("zip") /\ there(n) =>
          \A e \in EvidenceOf(content(n)) :
            e.path \in Targets => e.payload = <<NormalizedPayload(content("zip").entries[e.path])>>

\* Assets that are all of one candidate belong together.
LEMMA OfOneCandidate ==
  ASSUME NEW candidate, AssetsOk(candidate), NEW assets,
         \A n \in DOMAIN assets : assets[n] = candidate[n]
  PROVE  Together(assets)
<1> DEFINE zip == candidate["zip"].content[1]
           app == candidate["app"].content[1]
           engine == candidate["engine"].content[1]
<1>1. candidate["SHA256SUMS"].content[1].of = zip
  BY DEF AssetsOk
<1>2. PICK tree : SignedFrom(zip.entries, tree) /\ SpeakFor(app, engine, tree)
  BY DEF AssetsOk, Shippable
<1>3. ASSUME NEW e \in EvidenceOf(app) \cup EvidenceOf(engine), e.path \in Targets
      PROVE  e.payload = <<NormalizedPayload(zip.entries[e.path])>>
  <2>1. e.payload = <<tree[e.path]>>
    BY <1>2, <1>3 DEF SpeakFor
  <2>2. NormalizedPayload(zip.entries[e.path]) = tree[e.path]
    BY <1>2, <1>3 DEF SignedFrom
  <2> QED
    BY <2>1, <2>2
<1> QED
  BY <1>1, <1>3 DEF Together

\* While the publish job uploads, there is a package, and its assets may go out.
LEMMA UploadsPackage ==
  ASSUME IInv, st[Job("publish")] # "waiting"
  PROVE  AssetsOk(art.assets[1])
<1>1. st[Job("package")] = "ok"
  BY ChainJobs, NeedsOfChain DEF IInv, NeedsInv, Single
<1> QED
  BY <1>1 DEF IInv, PackedInv

\* A step of the publish job that changes nothing but the draft and the job itself.
LEMMA PublishingStep ==
  ASSUME IInv, Frame, art' = art, DOMAIN draft' = {"assets", "published"},
         DOMAIN draft'.assets \subseteq AssetNames, draft'.published \in BOOLEAN,
         \A j \in Chain \ {Job("publish")} : NotBegun(j),
         UploadingInv', Together(draft.assets)', PublishedInv'
  PROVE  IInv'
<1>1. TypeOK'
  BY DEF IInv, TypeOK, Frame, StTypes
<1>2. ShapeInv' /\ NeedsInv'
  BY DEF IInv, ShapeInv, Frame
<1>3. DraftOfOneCandidate'
  BY DEF DraftOfOneCandidate, Together
<1>4. BuiltInv' /\ ListedInv' /\ SignedInv' /\ PackedInv'
  BY ArtifactsStay, ChainJobs DEF Chain, Single
<1> QED
  BY <1>1, <1>2, <1>3, <1>4 DEF IInv

\* The publish job begins with a draft that holds nothing but what would be uploaded.
LEMMA PublishBeginKeeps ==
  ASSUME IInv, PublishBegin PROVE IInv'
<1> DEFINE j == Job("publish")
<1>1. PICK v \in {"failed", "uploading"} :
        /\ Ready(j) /\ st' = [st EXCEPT ![j] = v]
        /\ refused' \subseteq refused \cup {j} /\ (v = "uploading" => refused' = refused)
        /\ v = "uploading" => ExistingIdentical
  BY DEF PublishBegin, Ended
<1>2. j \in Jobs /\ JobStep(j, v)
  BY <1>1, ChainJobs DEF JobStep, Single
<1>3. /\ StTypes' /\ NeedsInv'
      /\ st'[j] = v /\ \A k \in Jobs \ {j} : st'[k] = st[k]
  BY <1>2, JobStepKeeps DEF IInv, TypeOK, StTypes
<1>4. UNCHANGED <<W, attempt, art, draft, tested, faults, tainted>>
  BY DEF PublishBegin, NoFault
<1>5. refused' \subseteq {k \in Jobs : st'[k] = "failed"}
  <2>1. refused \subseteq {k \in Jobs : st[k] = "failed"} /\ st[j] # "failed"
    BY <1>1 DEF IInv, TypeOK, Ready
  <2> QED
    BY <1>1, <1>2, <1>3, <2>1
<1>6. Frame
  BY <1>3, <1>4, <1>5 DEF Frame, IInv, TypeOK, ShapeInv
<1>7. \A k \in Chain \ {j} : NotBegun(k)
  BY <1>3, ChainJobs DEF Chain, Single, NotBegun
<1>8. UploadingInv'
  BY <1>1, <1>3, <1>4 DEF UploadingInv, ExistingIdentical
<1>9. BuiltInv' /\ ListedInv' /\ SignedInv' /\ PackedInv'
  BY <1>4, <1>6, <1>7, ArtifactsStay, ChainJobs DEF Chain, Single
<1> QED
  BY <1>4, <1>6, <1>8, <1>9, DraftStays DEF IInv

\* An uploaded asset is the one of the candidate the draft already holds others of.
LEMMA UploadAssetKeeps ==
  ASSUME IInv, NEW n \in AssetNames, UploadAsset(n) PROVE IInv'
<1> DEFINE new == WithAsset(n, art.assets[1][n])
<1>1. /\ st[Job("publish")] = "uploading" /\ n \notin DOMAIN draft.assets /\ draft' = new
      /\ UNCHANGED <<W, attempt, st, art, refused, tested, faults, tainted>>
  BY DEF UploadAsset, NoFault
<1>2. AssetsOk(art.assets[1]) /\ ExistingIdentical
  BY <1>1, UploadsPackage DEF IInv, UploadingInv
<1>3. /\ DOMAIN new = {"assets", "published"} /\ new.published = draft.published
      /\ DOMAIN new.assets = DOMAIN draft.assets \cup {n}
      /\ \A m \in DOMAIN new.assets : new.assets[m] = art.assets[1][m]
  BY <1>2 DEF WithAsset, ExistingIdentical, IInv, ShapeInv
<1>4. ~draft.published
  BY <1>1 DEF IInv, PublishedInv, AssetsOk
<1> HIDE DEF new
<1>5. Frame
  BY <1>1 DEF Frame, IInv, TypeOK, ShapeInv, StTypes, NeedsInv
<1>6. Together(new.assets)
  BY <1>2, <1>3, OfOneCandidate
<1>7. UploadingInv'
  BY <1>1, <1>3 DEF UploadingInv, ExistingIdentical
<1>8. Together(draft.assets)' /\ PublishedInv'
  BY <1>1, <1>3, <1>4, <1>6 DEF PublishedInv
<1>9. /\ DOMAIN draft' = {"assets", "published"} /\ draft'.published \in BOOLEAN
      /\ DOMAIN draft'.assets \subseteq AssetNames
  BY <1>1, <1>3 DEF IInv, TypeOK
<1>10. \A j \in Chain : NotBegun(j)
  BY <1>1 DEF NotBegun
<1> QED
  BY <1>1, <1>5, <1>7, <1>8, <1>9, <1>10, PublishingStep

\* An upload that breaks off leaves what is not an asset, and the job fails.
LEMMA UploadInterruptedKeeps ==
  ASSUME IInv, NEW n \in AssetNames, UploadInterrupted(n) PROVE IInv'
<1> DEFINE j == Job("publish")
           broken == [state |-> "starter", content |-> << >>]
           new == WithAsset(n, broken)
<1>1. /\ st[j] = "uploading" /\ n \notin DOMAIN draft.assets /\ draft' = new
      /\ st' = [st EXCEPT ![j] = "failed"]
      /\ UNCHANGED <<W, attempt, art, refused, tested>>
  BY DEF UploadInterrupted
<1>2. faults' \in 0 .. MaxFaults /\ tainted' \in BOOLEAN
  BY FaultTypes DEF UploadInterrupted
<1>3. j \in Jobs /\ JobStep(j, "failed") /\ DOMAIN art' = Artifacts
  BY <1>1, ChainJobs DEF JobStep, Single, IInv, ShapeInv
<1>4. Frame /\ st'[j] = "failed" /\ \A k \in Jobs \ {j} : st'[k] = st[k]
  BY <1>1, <1>2, <1>3, EndingFrame
<1>5. /\ DOMAIN new = {"assets", "published"} /\ new.published = draft.published
      /\ DOMAIN new.assets = DOMAIN draft.assets \cup {n}
      /\ \A m \in DOMAIN draft.assets : new.assets[m] = draft.assets[m]
      /\ new.assets[n] = broken
  BY <1>1 DEF WithAsset, IInv, ShapeInv
<1>6. ~draft.published
  BY <1>1 DEF IInv, PublishedInv, AssetsOk
<1> HIDE DEF new
<1>7. Together(new.assets)
  <2>1. Together(draft.assets)
    BY DEF IInv, DraftOfOneCandidate, Together
  <2>2. \A m \in DOMAIN new.assets :
          new.assets[m].state = "uploaded" =>
            m \in DOMAIN draft.assets /\ new.assets[m] = draft.assets[m]
    BY <1>5
  <2> QED
    BY <2>1, <2>2 DEF Together
<1>8. UploadingInv'
  BY <1>4 DEF UploadingInv
<1>9. Together(draft.assets)' /\ PublishedInv'
  BY <1>1, <1>5, <1>6, <1>7 DEF PublishedInv
<1>10. /\ DOMAIN draft' = {"assets", "published"} /\ draft'.published \in BOOLEAN
       /\ DOMAIN draft'.assets \subseteq AssetNames
  BY <1>1, <1>5 DEF IInv, TypeOK
<1>11. \A k \in Chain \ {j} : NotBegun(k)
  BY <1>4, ChainJobs DEF Chain, Single, NotBegun
<1> QED
  BY <1>1, <1>4, <1>8, <1>9, <1>10, <1>11, PublishingStep

\* What is published is the whole of what was packaged.
LEMMA PublishDraftKeeps ==
  ASSUME IInv, PublishDraft PROVE IInv'
<1> DEFINE j == Job("publish")
<1>1. /\ st[j] = "uploading" /\ DOMAIN draft.assets = AssetNames
      /\ UNCHANGED <<W, attempt, art, tested>> /\ NoFault
  BY DEF PublishDraft
<1>2. AssetsOk(art.assets[1]) /\ ExistingIdentical
  BY <1>1, UploadsPackage DEF IInv, UploadingInv
<1>3. AssetsOk(draft.assets)
  <2>1. \A n \in AssetNames : draft.assets[n] = art.assets[1][n]
    BY <1>1, <1>2 DEF ExistingIdentical
  <2> QED
    BY <1>1, <1>2, <2>1 DEF AssetsOk, AssetNames
<1>4. PICK v \in {"ok", "failed"} :
        /\ st' = [st EXCEPT ![j] = v]
        /\ refused' \subseteq refused \cup {j} /\ (v = "ok" => refused' = refused)
  BY DEF PublishDraft, Ended
<1>5. /\ DOMAIN draft' = {"assets", "published"} /\ draft'.published \in BOOLEAN
      /\ draft'.assets = draft.assets
  BY DEF PublishDraft, IInv, TypeOK, ShapeInv
<1>6. j \in Jobs /\ JobStep(j, v) /\ DOMAIN art' = Artifacts
  BY <1>1, <1>4, ChainJobs DEF JobStep, Single, IInv, ShapeInv
<1>7. faults' \in 0 .. MaxFaults /\ tainted' \in BOOLEAN
  BY <1>1, FaultTypes
<1>8. Frame /\ st'[j] = v /\ \A k \in Jobs \ {j} : st'[k] = st[k]
  BY <1>1, <1>4, <1>6, <1>7, EndingFrame
<1>9. UploadingInv'
  BY <1>8 DEF UploadingInv
<1>10. Together(draft.assets)'
  <2>1. Together(draft.assets)
    BY DEF IInv, DraftOfOneCandidate, Together
  <2> QED
    BY <1>5, <2>1
<1>11. PublishedInv'
  <2>1. \A assets : AssetsOk(assets) => AssetsOk(assets)'
    BY <1>8, WorldFixed DEF Frame
  <2>2. AssetsOk(draft.assets)'
    BY <1>3, <1>5, <2>1
  <2> QED
    BY <2>2 DEF PublishedInv
<1>12. \A k \in Chain \ {j} : NotBegun(k)
  BY <1>8, ChainJobs DEF Chain, Single, NotBegun
<1>13. DOMAIN draft'.assets \subseteq AssetNames
  BY <1>1, <1>5
<1> QED
  BY <1>1, <1>5, <1>8, <1>9, <1>10, <1>11, <1>12, <1>13, PublishingStep

(***************************************************************************)
(* What it is for                                                          *)
(***************************************************************************)

\* A published release is a tested bundle, signed.
LEMMA PublishedIsShippable ==
  ASSUME IInv, draft.published
  PROVE  /\ Zipped.label = W.tag
         /\ (TestOnly \cup Developer) \cap DOMAIN Shipped = {}
         /\ Shipped[Service].loads = "system32"
         /\ \E tree \in tested :
              /\ Releasable(tree) /\ SignedFrom(Shipped, tree)
              /\ SpeakFor(draft.assets["app"].content[1], draft.assets["engine"].content[1], tree)
BY DEF IInv, PublishedInv, AssetsOk, Shippable, Zipped, Shipped

\* What a signed image says is what the image says.
LEMMA SignedSaysTheSame ==
  ASSUME NEW tree, NEW signed, Releasable(tree), SignedFrom(signed, tree), NEW p \in DOMAIN tree
  PROVE  /\ signed[p].version = tree[p].version /\ signed[p].commits = tree[p].commits
         /\ signed[p].pin = tree[p].pin /\ signed[p].il = tree[p].il
<1>1. CASE p \notin Targets
  BY <1>1 DEF SignedFrom
<1>2. CASE p \in Targets
  <2>1. NormalizedPayload(signed[p]) = tree[p] /\ IsFile(tree[p])
    BY <1>2 DEF SignedFrom, Releasable
  <2>2. DOMAIN tree[p] = FileFields
    BY <2>1 DEF IsFile
  <2>3. DOMAIN signed[p] = FileFields
    BY <2>1, <2>2 DEF NormalizedPayload
  <2> QED
    BY <2>1, <2>3 DEF NormalizedPayload, FileFields
<1> QED
  BY <1>1, <1>2

\* The invariant is strong enough for PublishedIsSound,
LEMMA IInvIsSound ==
  IInv => PublishedIsSound
<1> SUFFICES ASSUME IInv PROVE PublishedIsSound
  OBVIOUS
<1>1. PublishedIsTested
  BY PublishedIsShippable DEF PublishedIsTested, SignedFrom
<1>2. PublishedIsConsistent
  <2> SUFFICES ASSUME draft.published PROVE PublishedIsConsistent
    BY DEF PublishedIsConsistent
  <2>1. PICK tree \in tested : Releasable(tree) /\ SignedFrom(Shipped, tree)
    BY PublishedIsShippable
  <2>2. /\ {Launcher, BuildInfo, Managed, Service} \subseteq DOMAIN tree
        /\ Required \cup W.xaml \subseteq DOMAIN tree
        /\ Pruned \cap DOMAIN tree = {}
    BY <2>1 DEF Releasable, RootFiles
  <2>3. /\ Shipped[Launcher].version = W.tag /\ Shipped[BuildInfo].version = W.tag
        /\ Shipped[BuildInfo].commits = <<W.target>>
    BY <2>1, <2>2, SignedSaysTheSame DEF Releasable
  <2>4. Shipped[Managed].pin = <<ImageDigest(Shipped[Service]).of>>
    BY <2>1, <2>2, SignedSaysTheSame DEF Releasable, SignedFrom
  <2>5. DOMAIN Shipped = DOMAIN tree
    BY <2>1 DEF SignedFrom
  <2>6. {W.manifest, W.workspace} \cup Range(W.csproj) = {W.tag}
    BY <2>1 DEF Releasable
  <2> QED
    BY <2>2, <2>3, <2>4, <2>5, <2>6, PublishedIsShippable DEF PublishedIsConsistent
<1> QED
  BY <1>1, <1>2 DEF PublishedIsSound, IInv

\* and for SbomMatchesShipped.
LEMMA IInvMatchesShipped ==
  IInv => SbomMatchesShipped
<1> SUFFICES ASSUME IInv, draft.published PROVE SbomMatchesShipped
  BY DEF SbomMatchesShipped
<1> DEFINE app == draft.assets["app"].content[1]
           engine == draft.assets["engine"].content[1]
           evidence == EvidenceOf(app) \cup EvidenceOf(engine)
<1>1. PICK tree \in tested :
        Releasable(tree) /\ SignedFrom(Shipped, tree) /\ SpeakFor(app, engine, tree)
  BY PublishedIsShippable
<1> HIDE DEF app, engine
<1>2. /\ {e.path : e \in evidence} = DOMAIN tree /\ DOMAIN Shipped = DOMAIN tree
      /\ \A e, f \in evidence : e.path = f.path => e = f
      /\ EvidenceOf(app) \cap EvidenceOf(engine) = {}
  BY <1>1 DEF SpeakFor, SignedFrom
<1>3. ASSUME NEW e \in evidence
      PROVE  IF e.path \in Targets THEN e.payload = <<NormalizedPayload(Shipped[e.path])>>
             ELSE e.sha256 = <<Shipped[e.path]>>
  <2>1. e.path \in DOMAIN tree
    BY <1>2
  <2>2. IF e.path \in Targets THEN e.payload = <<tree[e.path]>> ELSE e.sha256 = <<tree[e.path]>>
    BY <1>1 DEF SpeakFor
  <2> QED
    BY <1>1, <2>1, <2>2 DEF SignedFrom
<1>4. ASSUME NEW id \in DOMAIN app.components, NEW e \in app.components[id].files
      PROVE  IF e.source = "exact"
             THEN {x \in Packages : Shipped[e.path] \in ArchiveFiles(x)} = {id}
             ELSE \E f \in ArchiveFiles(id) : f.il # "" /\ f.il = Shipped[e.path].il
  <2>1. e.path \in DOMAIN tree \ Targets
    BY <1>1 DEF SpeakFor
  <2>2. Shipped[e.path] = tree[e.path]
    BY <1>1, <2>1 DEF SignedFrom
  <2>3. IF e.source = "exact"
        THEN {x \in Packages : tree[e.path] \in ArchiveFiles(x)} = {id}
        ELSE \E f \in ArchiveFiles(id) : f.il # "" /\ f.il = tree[e.path].il
    BY <1>1 DEF SpeakFor
  <2> QED
    BY <2>2, <2>3
<1> QED
  BY <1>2, <1>3, <1>4 DEF SbomMatchesShipped, app, engine

\* It holds when a run is started,
LEMMA InitHasIInv ==
  Init => IInv
<1> SUFFICES ASSUME Init PROVE IInv
  OBVIOUS
<1>1. TypeOK
  <2>1. W.tag \in Canonical /\ W.target \in Commits
    BY WorldsAssumption DEF Init
  <2>2. attempt \in 1 .. MaxAttempts /\ faults \in 0 .. MaxFaults
    BY BoundsAssumption DEF Init
  <2>3. /\ st = [j \in Jobs |-> "waiting"] /\ draft = [assets |-> << >>, published |-> FALSE]
        /\ tainted = FALSE /\ refused = {}
    BY DEF Init
  <2>4. /\ st \in [Jobs -> {"waiting", "ok", "failed", "uploading"}]
        /\ \A j \in Jobs : st[j] # "uploading"
    BY <2>3
  <2>5. DOMAIN draft.assets \subseteq AssetNames
    BY <2>3
  <2>6. draft.published \in BOOLEAN /\ tainted \in BOOLEAN
    BY <2>3, Zenon
  <2> QED
    BY <2>1, <2>2, <2>3, <2>4, <2>5, <2>6 DEF TypeOK
<1>2. ShapeInv
  BY DEF Init, ShapeInv, Artifacts
<1>3. NeedsInv
  BY DEF Init, NeedsInv
<1>4. \A j \in Chain : st[j] = "waiting"
  BY ChainJobs DEF Init, Chain, Single
<1>5. BuiltInv /\ ListedInv /\ SignedInv /\ PackedInv /\ UploadingInv
  BY <1>4 DEF BuiltInv, ListedInv, SignedInv, PackedInv, UploadingInv, Chain
<1>6. DraftOfOneCandidate /\ PublishedInv
  BY DEF Init, DraftOfOneCandidate, PublishedInv
<1> QED
  BY <1>1, <1>2, <1>3, <1>5, <1>6 DEF IInv

\* and every step keeps it.
LEMMA StepKeepsIInv ==
  IInv /\ [Next]_vars => IInv'
<1> SUFFICES ASSUME IInv, [Next]_vars PROVE IInv'
  OBVIOUS
<1>1. CASE Preflight
  BY <1>1, PreflightKeeps
<1>2. CASE Build \/ BuildTouched
  BY <1>2, BuildsKeep
<1>3. CASE MakeSbom
  BY <1>3, MakeSbomKeeps
<1>4. CASE \E shard \in Shards : RustShard(shard) \/ RustShardFault(shard) \/ CsharpShard(shard)
  BY <1>4, ShardsKeep
<1>5. CASE VerifyMutation
  BY <1>5, VerifyMutationKeeps
<1>6. CASE StageSigning
  BY <1>6, StageSigningKeeps
<1>7. CASE Sign \/ SignWrongly
  BY <1>7, SigningKeeps
<1>8. CASE CollectSigned
  BY <1>8, CollectSignedKeeps
<1>9. CASE PackageRelease
  BY <1>9, PackageReleaseKeeps
<1>10. CASE PublishBegin
  BY <1>10, PublishBeginKeeps
<1>11. CASE PublishDraft
  BY <1>11, PublishDraftKeeps
<1>12. CASE \E n \in AssetNames : UploadAsset(n) \/ UploadInterrupted(n)
  BY <1>12, UploadAssetKeeps, UploadInterruptedKeeps
<1>13. CASE RerunAll \/ RerunFailed \/ \E j \in Jobs : RerunJob(j)
  BY <1>13, RerunsKeep
<1>14. CASE \E j \in Jobs : Lost(j)
  BY <1>14, LostKeeps
<1>15. CASE UNCHANGED vars
  <2>1. /\ W' = W /\ attempt' = attempt /\ st' = st /\ art' = art /\ draft' = draft
        /\ faults' = faults /\ tainted' = tainted /\ refused' = refused /\ tested' = tested
    BY <1>15 DEF vars
  <2>2. Frame
    BY <2>1 DEF Frame, IInv, TypeOK, ShapeInv, StTypes, NeedsInv
  <2>3. \A j \in Chain : NotBegun(j)
    BY <2>1 DEF NotBegun
  <2> QED
    BY <2>1, <2>2, <2>3, QuietStep
<1> QED
  BY <1>1, <1>2, <1>3, <1>4, <1>5, <1>6, <1>7, <1>8, <1>9, <1>10, <1>11, <1>12, <1>13,
     <1>14, <1>15 DEF Next

\* The invariant holds in every state of every run.
THEOREM RunKeepsItsInvariant == Spec => []IInv
BY InitHasIInv, StepKeepsIInv, PTL DEF Spec

\* PublishedIsSound: whatever faults strike on the way and whatever is started again, a
\* published zip holds exactly the files of one bundle the runtime tests ran on, each image
\* of ours signed once by us around the tested payload; it says one version and one commit
\* everywhere, its app pins the service it ships with, it can start, and nothing for tests
\* or developers is in it; and what is on the draft is of one candidate (release.yml,
\* bundle_seal.rs, signing.rs, package.rs, version.rs).
THEOREM PublishedReleaseIsSound == Spec => []PublishedIsSound
BY RunKeepsItsInvariant, IInvIsSound, PTL

\* SbomMatchesShipped: the two published BOMs, made before the images were signed, speak of
\* each published file exactly once, by its bytes or by the payload inside its signature,
\* and give a package only what is in its archive, or was compiled from it, and is in the
\* archive of no other (sbom.rs).
THEOREM SbomsMatchWhatShipped == Spec => []SbomMatchesShipped
BY RunKeepsItsInvariant, IInvMatchesShipped, PTL

(***************************************************************************)
(* The mutation gate                                                       *)
(***************************************************************************)

\* The reports of a shard, sound or not, say of no mutant what the tool does not find,
\* except that it ran out of time.
TrueReport(report) ==
  /\ report.baseline \in {<<"Success">>, <<"Failure">>}
  /\ \A o \in Range(report.outcomes) :
       o.mutant \in DOMAIN W.fate => o.summary \in {W.fate[o.mutant], "Timeout"}

\* What the evidence of a shard tells: the whole list it worked from, and of each mutant
\* what the tool finds or that it ran out of time.
RustTold(e) ==
  /\ e.receipt # << >> => e.global # << >> /\ e.report # << >>
  /\ e.global # << >> => e.global[1] \in {W.rust, Reverse(W.rust)}
  /\ e.report # << >> => TrueReport(e.report[1])
CsharpTold(e, shard) ==
  e.receipt # << >> /\ e.receipt[1].executed =>
    e.report = <<CsharpReport(RoundRobin(W.csharp, shard))>>

\* The evidence is kept by language and shard, and tells that.
EvidenceInv ==
  /\ DOMAIN art.evidence = {"rust", "csharp"}
  /\ \A l \in {"rust", "csharp"} : DOMAIN art.evidence[l] = Shards
  /\ \A s \in Shards : RustTold(art.evidence["rust"][s])
  /\ \A s \in Shards : CsharpTold(art.evidence["csharp"][s], s)

GateInv == EvidenceInv /\ VerifiedIsTested

\* A Rust report is true when it is of the fates, cut short or of a slow machine.
LEMMA ReportsAreTrue ==
  ASSUME NEW mutants, NEW n \in Nat, DOMAIN mutants = 1 .. n
  PROVE  /\ TrueReport(RustReport(mutants, W.fate))
         /\ TrueReport(Truncated(RustReport(mutants, W.fate)))
         /\ TrueReport([RustReport(mutants, W.fate)
                          EXCEPT !.baseline = <<"Failure">>, !.outcomes = << >>, !.exit = 4])
         /\ TrueReport(RustReport(mutants, [m \in DOMAIN W.fate |-> "Timeout"]))
<1>1. ASSUME NEW fate
      PROVE  \A o \in Range(RustReport(mutants, fate).outcomes) : o.summary = fate[o.mutant]
  BY DEF RustReport, Range
<1>2. TrueReport(RustReport(mutants, W.fate))
  BY <1>1 DEF TrueReport, RustReport
<1>3. TrueReport(RustReport(mutants, [m \in DOMAIN W.fate |-> "Timeout"]))
  BY <1>1 DEF TrueReport, RustReport
<1>4. TrueReport(Truncated(RustReport(mutants, W.fate)))
  <2> DEFINE report == RustReport(mutants, W.fate)
             kept == IF report.outcomes = << >> THEN << >> ELSE Front(report.outcomes)
  <2>1. Truncated(report).outcomes = kept /\ Truncated(report).baseline = <<"Success">>
    BY DEF Truncated, RustReport
  <2>2. DOMAIN report.outcomes = 1 .. n
    BY DEF RustReport
  <2> HIDE DEF report
  <2>3. Len(report.outcomes) = n
    <3>1. report.outcomes = [i \in 1 .. n |-> report.outcomes[i]]
      BY DEF report, RustReport
    <3>2. report.outcomes \in [1 .. n -> Range(report.outcomes)]
      BY <3>1 DEF Range
    <3> QED
      BY <3>2
  <2>4. Range(kept) \subseteq Range(report.outcomes)
    BY <2>2, <2>3 DEF Range, Front
  <2> QED
    BY <1>2, <2>1, <2>4 DEF TrueReport, report
<1>5. TrueReport([RustReport(mutants, W.fate)
                    EXCEPT !.baseline = <<"Failure">>, !.outcomes = << >>, !.exit = 4])
  BY DEF TrueReport, RustReport, Range
<1> QED
  BY <1>2, <1>3, <1>4, <1>5

\* What a Rust shard uploads tells the truth.
LEMMA RustShardTells ==
  ASSUME NEW shard, NEW list \in {W.rust, Reverse(W.rust)}, NEW report, TrueReport(report)
  PROVE  RustTold(RunRustShard(W.co, Bind, shard, list, report).evidence)
<1> DEFINE e == RunRustShard(W.co, Bind, shard, list, report).evidence
<1>1. \/ e = NoEvidence \/ e = [NoEvidence EXCEPT !.global = <<list>>]
      \/ \E receipt : e = [global |-> <<list>>, report |-> <<report>>, receipt |-> receipt]
  BY DEF RunRustShard
<1> HIDE DEF e
<1>2. /\ e.receipt # << >> => e.global # << >> /\ e.report # << >>
      /\ e.global # << >> => e.global[1] = list
      /\ e.report # << >> => e.report[1] = report
  BY <1>1 DEF NoEvidence
<1>3. RustTold(e)
  BY <1>2 DEF RustTold, TrueReport
<1> QED
  BY <1>3 DEF e

\* So does what a C# shard uploads.
LEMMA CsharpShardTells ==
  ASSUME NEW shard
  PROVE  CsharpTold(RunCsharpShard(W.co, Bind, shard, W.csharp,
                                   CsharpReport(RoundRobin(W.csharp, shard))).evidence, shard)
<1> DEFINE part == RoundRobin(W.csharp, shard)
           report == CsharpReport(part)
           files == IF part # {} THEN <<report>> ELSE << >>
           e == RunCsharpShard(W.co, Bind, shard, W.csharp, report).evidence
<1>1. \/ e = NoEvidence \/ e = [NoEvidence EXCEPT !.report = files]
      \/ \E receipt : /\ receipt.executed = (part # {})
                      /\ e = [global |-> << >>, report |-> files, receipt |-> <<receipt>>]
  BY DEF RunCsharpShard
<1> HIDE DEF e, report, part
<1>2. e.receipt # << >> => e.report = files /\ e.receipt[1].executed = (part # {})
  BY <1>1 DEF NoEvidence
<1>3. e.receipt # << >> /\ e.receipt[1].executed => e.report = <<report>>
  BY <1>2
<1> QED
  BY <1>3 DEF CsharpTold, e, report, part

\* The body of VerifiedIsTested, for given evidence.
Tested(evidence) ==
  LET rust == evidence["rust"]
      csharp == evidence["csharp"]
      tried(s) == {o.mutant : o \in Range(rust[s].report[1].outcomes)}
  IN /\ \A m \in Range(W.rust) : RustGood(m) /\ \E s \in Shards : m \in tried(s)
     /\ \A p \in Reviewed(W.ctl, "csharp") :
          \E s \in Shards :
            /\ csharp[s].report # << >>
            /\ csharp[s].report[1].files[p] = W.stryker[p]
            /\ \A i \in DOMAIN W.stryker[p] : CsharpGood(W.stryker[p][i])
     /\ \A s, t \in Shards :
          rust[s].receipt[1].binding.attempt = csharp[t].receipt[1].binding.attempt

\* What one verified Rust shard has shown of its part of the list.
LEMMA RustShardShows ==
  ASSUME NEW e, NEW shard, NEW sources, NEW policies, RustTold(e),
         RustShardVerified(e, Bind, shard, sources, policies),
         NEW m \in e.receipt[1].shard, m \in DOMAIN W.fate
  PROVE  RustGood(m) /\ m \in {o.mutant : o \in Range(e.report[1].outcomes)}
<1> DEFINE report == e.report[1]
           part == RoundRobin(e.global[1], shard)
           parsed == ParseRustOutcomes(report, part)
           tried == [i \in DOMAIN report.outcomes |-> report.outcomes[i].mutant]
<1>1. /\ e.receipt # << >> /\ e.receipt[1].shard = part /\ parsed.ok
      /\ RustGate(W.ctl, parsed, part, e.receipt[1].exit)
  BY DEF RustShardVerified, Bind
<1>2. TrueReport(report)
  BY <1>1 DEF RustTold
<1>3. /\ \A o \in Range(report.outcomes) : o.summary \in Terminal
      /\ ExhaustivePartition(report, part)
      /\ parsed.baseline <=> report.baseline[1] = "Success"
      /\ parsed.outcomes = [s \in Terminal |-> WithSummary(report, s)]
  BY <1>1 DEF ParseRustOutcomes, No
<1>4. report.baseline = <<"Success">>
  BY <1>1, <1>2, <1>3 DEF RustGate, TrueReport
<1>5. Range(tried) = part
  BY <1>3, <1>4 DEF ExhaustivePartition
<1>6. PICK o \in Range(report.outcomes) : o.mutant = m
  <2>1. PICK i \in DOMAIN report.outcomes : report.outcomes[i].mutant = m
    BY <1>1, <1>5, ZenonT(60) DEF Range
  <2> QED
    BY <2>1 DEF Range
<1>7. /\ WithSummary(report, "MissedMutant") = AcceptedIn(W.ctl, part)
      /\ WithSummary(report, "Timeout") = {}
  BY <1>1, <1>3 DEF RustGate, Terminal
<1>8. o.summary \in Terminal /\ o.mutant \in WithSummary(report, o.summary)
  BY <1>3 DEF WithSummary
<1>9. o.summary = W.fate[m] /\ o.summary # "Timeout"
  BY <1>2, <1>6, <1>7, <1>8 DEF TrueReport
<1>10. RustGood(m)
  BY <1>6, <1>7, <1>8, <1>9 DEF RustGood, Terminal, AcceptedIn
<1> QED
  BY <1>6, <1>10

\* What one verified C# shard has shown of its sources.
LEMMA CsharpShardShows ==
  ASSUME W \in Worlds, NEW e, NEW shard, NEW sources, NEW policies, CsharpTold(e, shard),
         CsharpShardVerified(e, Bind, shard, W.csharp, sources, policies),
         NEW p \in e.receipt[1].part
  PROVE  /\ e.report # << >> /\ e.report[1].files[p] = W.stryker[p]
         /\ \A i \in DOMAIN W.stryker[p] : CsharpGood(W.stryker[p][i])
<1> DEFINE part == RoundRobin(W.csharp, shard)
           report == CsharpReport(part)
           parsed == ParseCsharpReport(report, part)
           status(i) == W.stryker[p][i].status
<1>1. /\ e.receipt # << >> /\ e.receipt[1].part = part /\ e.receipt[1].executed
  BY DEF CsharpShardVerified
<1>2. e.report = <<report>>
  BY <1>1 DEF CsharpTold
<1>3. parsed.ok /\ CsharpGate(W.ctl, parsed, part, e.receipt[1].baseline, e.receipt[1].exit)
  <2>1. e.report[1] = report /\ Bind.controller = W.ctl
    BY <1>2 DEF Bind
  <2> HIDE DEF report, part
  <2> QED
    BY <1>1, <2>1 DEF CsharpShardVerified, part
<1>4. p \in part /\ p \in DOMAIN report.files
  BY <1>1, <1>3 DEF ParseCsharpReport, No
<1>5. report.files[p] = W.stryker[p]
  <2>1. p \in DOMAIN W.stryker
    BY <1>4 DEF CsharpReport
  <2>2. W.stryker[p] = [i \in DOMAIN W.stryker[p] |-> W.stryker[p][i]]
    BY <2>1, MutantsAssumption, Zenon
  <2>3. report.files[p] = [i \in DOMAIN W.stryker[p] |-> W.stryker[p][i]]
    BY <1>4, <2>1 DEF CsharpReport
  <2> QED
    BY <2>2, <2>3, Zenon
<1>6. ASSUME NEW i \in DOMAIN W.stryker[p] PROVE CsharpGood(W.stryker[p][i])
  <2> DEFINE all == Entries(report, DOMAIN report.files)
             at(x) == report.files[x[1]][x[2]]
             inside == {x \in all : x[1] \in part}
             kinds(s) == IF s = "Ignored" THEN {"Ignored", "Filtered"} ELSE {s}
             with(s) == {at(x).mutant : x \in {y \in inside : at(y).status \in kinds(s)}}
  <2>1. /\ \A x \in inside : at(x).status \in CsharpTerminal \cup {"Filtered"}
        /\ parsed.outcomes = [s \in CsharpTerminal |-> with(s)]
    BY <1>3 DEF ParseCsharpReport, No
  <2>2. <<p, i>> \in all
    BY <1>4, <1>5 DEF Entries
  <2>3. <<p, i>> \in inside /\ at(<<p, i>>) = W.stryker[p][i]
    BY <1>4, <1>5, <2>2
  <2>4. /\ with("Survived") = CsharpAcceptedIn(W.ctl, part)
        /\ \A s \in {"NoCoverage", "Timeout", "Ignored"} : with(s) = {}
    <3> HIDE DEF with, parsed, part
    <3>1. \A s \in CsharpTerminal : parsed.outcomes[s] = with(s)
      BY <2>1
    <3> QED
      BY <1>3, <3>1 DEF CsharpGate, CsharpTerminal
  <2>5. status(i) \in CsharpTerminal \cup {"Filtered"}
    BY <2>1, <2>3
  <2>6. \A s \in CsharpTerminal : status(i) \in kinds(s) => W.stryker[p][i].mutant \in with(s)
    BY <2>3
  <2>7. status(i) \in {"Killed", "CompileError", "Redundant", "Survived"}
    BY <2>4, <2>5, <2>6 DEF CsharpTerminal
  <2>8. status(i) = "Survived" => W.stryker[p][i].mutant \in CsharpAcceptedIn(W.ctl, part)
    BY <2>4, <2>6 DEF CsharpTerminal
  <2> QED
    BY <2>7, <2>8 DEF CsharpGood, CsharpAcceptedIn
<1> QED
  BY <1>2, <1>5, <1>6

\* The list of the machine that lists in another order is the same list.
LEMMA ReversedHasTheSame ==
  ASSUME NEW S, NEW list \in Seq(S)
  PROVE  Len(Reverse(list)) = Len(list) /\ Range(Reverse(list)) = Range(list)
<1> DEFINE n == Len(list)
<1>1. n \in Nat /\ DOMAIN list = 1 .. n
  OBVIOUS
<1> HIDE DEF n
<1>2. Reverse(list) = [i \in 1 .. n |-> list[(n - i) + 1]]
  BY DEF Reverse, n
<1>3. Len(Reverse(list)) = n
  <2>1. \A i \in 1 .. n : (n - i) + 1 \in 1 .. n /\ list[(n - i) + 1] \in S
    BY <1>1
  <2>2. Reverse(list) \in [1 .. n -> S]
    BY <1>2, <2>1
  <2> QED
    BY <1>1, <2>2
<1>4. \A i \in 1 .. n : (n - i) + 1 \in 1 .. n /\ Reverse(list)[(n - i) + 1] = list[i]
  BY <1>1, <1>2
<1>5. \A i \in 1 .. n : Reverse(list)[i] = list[(n - i) + 1]
  BY <1>2
<1>6. DOMAIN Reverse(list) = 1 .. n
  BY <1>2
<1> QED
  BY <1>1, <1>3, <1>4, <1>5, <1>6 DEF Range, n

\* What the verifier passes was tested.
LEMMA VerifiedShows ==
  ASSUME W \in Worlds, NEW evidence,
         \A s \in Shards : RustTold(evidence["rust"][s]) /\ CsharpTold(evidence["csharp"][s], s),
         VerifyRustEvidence(W.co, Bind, evidence["rust"]).ok,
         VerifyCsharpEvidence(W.co, Bind, W.csharp, evidence["csharp"]).ok
  PROVE  Tested(evidence)
<1> DEFINE rust == evidence["rust"]
           csharp == evidence["csharp"]
<1>1. PICK sources, policies :
        /\ DOMAIN rust = Shards
        /\ \A i \in DOMAIN rust : RustShardVerified(rust[i], Bind, i, sources, policies)
        /\ \A i \in DOMAIN rust : rust[i].global = rust[0].global
        /\ UNION {rust[i].receipt[1].shard : i \in DOMAIN rust} = Range(rust[0].global[1])
  BY DEF VerifyRustEvidence, No, AllShards, Shards
<1>2. PICK sealed, controls :
        /\ DOMAIN csharp = Shards
        /\ \A i \in DOMAIN csharp :
             CsharpShardVerified(csharp[i], Bind, i, W.csharp, sealed, controls)
        /\ UNION {csharp[i].receipt[1].part : i \in DOMAIN csharp} = Reviewed(W.ctl, "csharp")
  <2> DEFINE found == SourceInventory(W.ctl, W.co, "csharp")
             seals == Policies(W.ctl, W.co, "csharp")
  <2>1. Bind.controller = W.ctl
    BY DEF Bind
  <2>2. /\ found.ok /\ DOMAIN csharp = Shards
        /\ \A i \in DOMAIN csharp :
             CsharpShardVerified(csharp[i], Bind, i, W.csharp, found.files, seals.seals)
        /\ UNION {csharp[i].receipt[1].part : i \in DOMAIN csharp} = DOMAIN found.files
    BY <2>1 DEF VerifyCsharpEvidence, No, AllShards, Shards
  <2>3. DOMAIN found.files = Reviewed(W.ctl, "csharp")
    BY <2>2 DEF SourceInventory, No
  <2> QED
    BY <2>2, <2>3
<1>3. ASSUME NEW m \in Range(W.rust)
      PROVE  RustGood(m) /\ \E s \in Shards : m \in {o.mutant : o \in Range(rust[s].report[1].outcomes)}
  <2>1. 0 \in Shards
    BY ShardAssumption DEF Shards
  <2>2. rust[0].receipt # << >> /\ RustTold(rust[0])
    BY <1>1, <2>1 DEF RustShardVerified
  <2>3. Range(rust[0].global[1]) = Range(W.rust)
    <3>1. W.rust \in Seq(DOMAIN W.fate)
      BY MutantsAssumption
    <3>2. rust[0].global[1] \in {W.rust, Reverse(W.rust)}
      BY <2>2 DEF RustTold
    <3> QED
      BY <3>1, <3>2, ReversedHasTheSame
  <2>4. PICK s \in Shards : m \in rust[s].receipt[1].shard
    BY <1>1, <2>3
  <2>5. m \in DOMAIN W.fate
    <3>1. W.rust \in Seq(DOMAIN W.fate)
      BY MutantsAssumption
    <3>2. PICK i \in DOMAIN W.rust : W.rust[i] = m
      BY DEF Range
    <3>3. W.rust[i] \in DOMAIN W.fate
      BY <3>1, <3>2
    <3> QED
      BY <3>2, <3>3
  <2>6. RustTold(rust[s]) /\ RustShardVerified(rust[s], Bind, s, sources, policies)
    BY <1>1
  <2> QED
    BY <2>4, <2>5, <2>6, RustShardShows
<1>4. ASSUME NEW p \in Reviewed(W.ctl, "csharp")
      PROVE  \E s \in Shards :
               /\ csharp[s].report # << >> /\ csharp[s].report[1].files[p] = W.stryker[p]
               /\ \A i \in DOMAIN W.stryker[p] : CsharpGood(W.stryker[p][i])
  <2>1. PICK s \in Shards : p \in csharp[s].receipt[1].part
    BY <1>2
  <2>2. CsharpTold(csharp[s], s) /\ CsharpShardVerified(csharp[s], Bind, s, W.csharp, sealed, controls)
    BY <1>2
  <2> QED
    BY <2>1, <2>2, CsharpShardShows
<1>5. ASSUME NEW s \in Shards, NEW t \in Shards
      PROVE  rust[s].receipt[1].binding.attempt = csharp[t].receipt[1].binding.attempt
  <2>1. rust[s].receipt[1].binding = Binding(Bind, s)
    BY <1>1 DEF RustShardVerified, ReceiptHeader
  <2>2. csharp[t].receipt[1].binding = Binding(Bind, t)
    BY <1>2 DEF CsharpShardVerified, ReceiptHeader
  <2> QED
    BY <2>1, <2>2 DEF Binding
<1> QED
  BY <1>3, <1>4, <1>5 DEF Tested

\* In one world, what evidence tells and shows it tells and shows on.
LEMMA GateFixed ==
  ASSUME W' = W
  PROVE  /\ \A e : RustTold(e) => RustTold(e)'
         /\ \A e, s : CsharpTold(e, s) => CsharpTold(e, s)'
         /\ \A evidence : Tested(evidence) => Tested(evidence)'
<1>1. ASSUME NEW e, RustTold(e) PROVE RustTold(e)'
  BY <1>1 DEF RustTold, TrueReport
<1>2. ASSUME NEW e, NEW s, CsharpTold(e, s) PROVE CsharpTold(e, s)'
  <2>1. \A files : CsharpReport(files)' = CsharpReport(files)
    BY DEF CsharpReport
  <2> QED
    BY <1>2, <2>1 DEF CsharpTold
<1>3. ASSUME NEW evidence, Tested(evidence) PROVE Tested(evidence)'
  BY <1>3 DEF Tested, RustGood, CsharpGood
<1> QED
  BY <1>1, <1>2, <1>3

\* A step that leaves the evidence alone and lets no verifier pass.
LEMMA GateStays ==
  ASSUME GateInv, W' = W, art'.evidence = art.evidence,
         st'[Job("verify")] = "ok" => st[Job("verify")] = "ok"
  PROVE  GateInv'
<1>1. EvidenceInv'
  BY GateFixed DEF GateInv, EvidenceInv
<1>2. st[Job("verify")] = "ok" => Tested(art.evidence)
  BY DEF GateInv, VerifiedIsTested, Tested
<1>3. st'[Job("verify")] = "ok" => Tested(art.evidence)'
  BY <1>2, GateFixed
<1>4. VerifiedIsTested'
  BY <1>3 DEF VerifiedIsTested, Tested
<1> QED
  BY <1>1, <1>4 DEF GateInv

\* A shard that uploads what tells the truth: no verifier has passed yet.
LEMMA ShardTells ==
  ASSUME IInv, IInv', GateInv, NEW l \in {"rust", "csharp"}, NEW shard \in Shards, NEW e,
         Ready(<<l, shard>>), W' = W,
         st' = [st EXCEPT ![<<l, shard>>] = "ok"] \/ st' = [st EXCEPT ![<<l, shard>>] = "failed"],
         art' = [art EXCEPT !.evidence[l][shard] = e],
         l = "rust" => RustTold(e), l = "csharp" => CsharpTold(e, shard)
  PROVE  GateInv'
<1>1. <<l, shard>> \in Needs(Job("verify")) /\ Job("verify") \in Jobs /\ Job("verify") # <<l, shard>>
  BY ChainJobs DEF Needs, Job, MutationJobs, Single
<1>2. st[Job("verify")] = "waiting"
  BY <1>1 DEF IInv, NeedsInv, Ready
<1>3. st'[Job("verify")] # "ok"
  BY <1>1, <1>2 DEF IInv, TypeOK
<1>4. /\ DOMAIN art'.evidence = {"rust", "csharp"}
      /\ \A k \in {"rust", "csharp"} : DOMAIN art'.evidence[k] = Shards
      /\ \A k \in {"rust", "csharp"}, s \in Shards :
           art'.evidence[k][s] = IF k = l /\ s = shard THEN e ELSE art.evidence[k][s]
  BY DEF GateInv, EvidenceInv, IInv, ShapeInv, Artifacts
<1>5. (RustTold(e) /\ l = "rust") \/ (CsharpTold(e, shard) /\ l = "csharp")
  OBVIOUS
<1>6. ASSUME NEW s \in Shards PROVE RustTold(art.evidence["rust"][s])'
  <2>1. RustTold(art'.evidence["rust"][s])
    BY <1>4, <1>5 DEF GateInv, EvidenceInv
  <2> QED
    BY <2>1 DEF RustTold, TrueReport
<1>7. ASSUME NEW s \in Shards PROVE CsharpTold(art.evidence["csharp"][s], s)'
  <2>1. CsharpTold(art'.evidence["csharp"][s], s)
    BY <1>4, <1>5 DEF GateInv, EvidenceInv
  <2>2. \A files : CsharpReport(files)' = CsharpReport(files)
    BY DEF CsharpReport
  <2> QED
    BY <2>1, <2>2 DEF CsharpTold
<1>8. EvidenceInv'
  BY <1>4, <1>6, <1>7 DEF EvidenceInv
<1>9. VerifiedIsTested'
  BY <1>3 DEF VerifiedIsTested
<1> QED
  BY <1>8, <1>9 DEF GateInv

\* A shard of the list, in whatever order it came, is a sequence.
LEMMA ShardIsSequence ==
  ASSUME NEW list, Len(list) \in Nat, NEW shard \in Shards
  PROVE  \E n \in Nat : DOMAIN ShardOf(list, shard) = 1 .. n
<1> DEFINE k == (Len(list) - shard + ShardCount - 1) \div ShardCount
<1>1. Len(list) - shard + ShardCount - 1 \in Int /\ ShardCount \in Nat \ {0}
  BY ShardAssumption DEF Shards
<1>2. k \in Int
  BY <1>1
<1>3. DOMAIN ShardOf(list, shard) = 1 .. k
  BY DEF ShardOf
<1> HIDE DEF k
<1>4. CASE k \in Nat
  BY <1>3, <1>4
<1>5. CASE k \notin Nat
  <2>1. 1 .. k = 1 .. 0
    BY <1>2, <1>5
  <2> QED
    BY <1>3, <2>1
<1> QED
  BY <1>4, <1>5

\* A Rust shard that runs with true reports.
LEMMA RustShardWithTells ==
  ASSUME IInv, IInv', GateInv, NEW shard \in Shards, NEW list, NEW report,
         RustShardWith(shard, list, report), list \in {W.rust, Reverse(W.rust)},
         TrueReport(report)
  PROVE  GateInv'
<1> DEFINE result == RunRustShard(W.co, Bind, shard, list, report)
<1>1. RustTold(result.evidence)
  BY RustShardTells
<1> HIDE DEF result
<1>2. /\ Ready(<<"rust", shard>>) /\ Ended(<<"rust", shard>>, result.ok)
      /\ art' = [art EXCEPT !.evidence["rust"][shard] = result.evidence]
      /\ W' = W
  BY DEF RustShardWith, result
<1>3. \/ st' = [st EXCEPT ![<<"rust", shard>>] = "ok"]
      \/ st' = [st EXCEPT ![<<"rust", shard>>] = "failed"]
  BY <1>2 DEF Ended
<1> QED
  BY <1>1, <1>2, <1>3, ShardTells

\* The Rust shards, sound or not, tell the truth.
LEMMA RustShardsTell ==
  ASSUME IInv, IInv', GateInv, NEW shard \in Shards,
         RustShard(shard) \/ RustShardFault(shard)
  PROVE  GateInv'
<1>1. W.rust \in Seq(DOMAIN W.fate)
  BY MutantsAssumption DEF IInv, ShapeInv
<1>2. Len(W.rust) \in Nat
  BY <1>1
<1>3. Len(Reverse(W.rust)) \in Nat /\ Range(Reverse(W.rust)) = Range(W.rust)
  BY <1>1, <1>2, ReversedHasTheSame
<1> DEFINE part == ShardOf(W.rust, shard)
           other == ShardOf(Reverse(W.rust), shard)
<1>4. PICK n \in Nat : DOMAIN part = 1 .. n
  BY <1>2, ShardIsSequence
<1>5. PICK k \in Nat : DOMAIN other = 1 .. k
  BY <1>3, ShardIsSequence
<1>6. /\ RustShard(shard) => RustShardWith(shard, W.rust, RustReport(part, W.fate))
      /\ RustShardFault(shard) =>
           \/ RustShardWith(shard, W.rust, Truncated(RustReport(part, W.fate)))
           \/ RustShardWith(shard, W.rust,
                [RustReport(part, W.fate) EXCEPT !.baseline = <<"Failure">>,
                                                 !.outcomes = << >>, !.exit = 4])
           \/ RustShardWith(shard, W.rust,
                RustReport(part, [m \in DOMAIN W.fate |-> "Timeout"]))
           \/ RustShardWith(shard, Reverse(W.rust), RustReport(other, W.fate))
  BY Zenon DEF RustShard, RustShardFault
<1> HIDE DEF part, other
<1>7. /\ TrueReport(RustReport(part, W.fate))
      /\ TrueReport(Truncated(RustReport(part, W.fate)))
      /\ TrueReport([RustReport(part, W.fate)
                       EXCEPT !.baseline = <<"Failure">>, !.outcomes = << >>, !.exit = 4])
      /\ TrueReport(RustReport(part, [m \in DOMAIN W.fate |-> "Timeout"]))
  BY <1>4, ReportsAreTrue
<1>8. TrueReport(RustReport(other, W.fate))
  BY <1>5, ReportsAreTrue
<1>9. ASSUME NEW report, RustShardWith(shard, W.rust, report), TrueReport(report)
      PROVE  GateInv'
  BY <1>9, RustShardWithTells
<1>10. RustShardWith(shard, Reverse(W.rust), RustReport(other, W.fate)) => GateInv'
  BY <1>3, <1>8, RustShardWithTells
<1> QED
  BY <1>6, <1>7, <1>9, <1>10, Zenon

\* So do the C# shards.
LEMMA CsharpShardsTell ==
  ASSUME IInv, IInv', GateInv, NEW shard \in Shards, CsharpShard(shard)
  PROVE  GateInv'
<1> DEFINE result == RunCsharpShard(W.co, Bind, shard, W.csharp,
                                    CsharpReport(RoundRobin(W.csharp, shard)))
<1>1. CsharpTold(result.evidence, shard)
  BY CsharpShardTells
<1> HIDE DEF result
<1>2. /\ Ready(<<"csharp", shard>>) /\ Ended(<<"csharp", shard>>, result.ok)
      /\ art' = [art EXCEPT !.evidence["csharp"][shard] = result.evidence]
      /\ W' = W
  BY DEF CsharpShard, result
<1>3. \/ st' = [st EXCEPT ![<<"csharp", shard>>] = "ok"]
      \/ st' = [st EXCEPT ![<<"csharp", shard>>] = "failed"]
  BY <1>2 DEF Ended
<1> QED
  BY <1>1, <1>2, <1>3, ShardTells

\* The verifier reads the evidence and uploads its summaries.
LEMMA VerifierShows ==
  ASSUME IInv, IInv', GateInv, VerifyMutation
  PROVE  GateInv'
<1>1. PICK rust \in {VerifyRustEvidence(W.co, Bind, art.evidence["rust"])},
           csharp \in {VerifyCsharpEvidence(W.co, Bind, W.csharp, art.evidence["csharp"])} :
        Finish(Job("verify"), rust.ok /\ csharp.ok,
               [art EXCEPT !.verified = <<rust.summary, csharp.summary>>])
  BY Zenon DEF VerifyMutation
<1> DEFINE good == rust.ok /\ csharp.ok
<1>2. /\ st' = [st EXCEPT ![Job("verify")] = IF good THEN "ok" ELSE "failed"]
      /\ art' = art \/ art' = [art EXCEPT !.verified = <<rust.summary, csharp.summary>>]
      /\ W' = W
  BY <1>1 DEF Finish, Ended, VerifyMutation
<1>3. art'.evidence = art.evidence
  <2>1. \A x : [art EXCEPT !.verified = x].evidence = art.evidence
    BY DEF IInv, ShapeInv, Artifacts
  <2> QED
    BY <1>2, <2>1, Zenon
<1>4. Job("verify") \in DOMAIN st
  BY ChainJobs DEF IInv, TypeOK, Single
<1>5. CASE good
  <2>1. Tested(art.evidence)
    BY <1>1, <1>5, VerifiedShows DEF GateInv, EvidenceInv, IInv, ShapeInv
  <2>2. Tested(art.evidence)'
    <3>1. Tested(art'.evidence)
      BY <1>3, <2>1
    <3> QED
      BY <1>2, <3>1 DEF Tested, RustGood, CsharpGood
  <2>3. VerifiedIsTested'
    BY <2>2 DEF VerifiedIsTested, Tested
  <2>4. EvidenceInv'
    BY <1>2, <1>3, GateFixed DEF GateInv, EvidenceInv
  <2> QED
    BY <2>3, <2>4 DEF GateInv
<1>6. CASE ~good
  <2>1. st'[Job("verify")] = "failed"
    BY <1>2, <1>4, <1>6
  <2> QED
    BY <1>2, <1>3, <2>1, GateStays
<1> QED
  BY <1>5, <1>6

\* A step of another single job, and one of the whole run, leave the gate as it was.
LEMMA OthersStay ==
  ASSUME IInv, [Next]_vars,
         ~\E shard \in Shards : RustShard(shard) \/ RustShardFault(shard) \/ CsharpShard(shard),
         ~VerifyMutation
  PROVE  /\ W' = W /\ art'.evidence = art.evidence
         /\ st'[Job("verify")] = "ok" => st[Job("verify")] = "ok"
<1> DEFINE Moved(j) == \E v : st' = [st EXCEPT ![j] = v]
           Stays == st'[Job("verify")] = "ok" => st[Job("verify")] = "ok"
<1>1. st \in [Jobs -> {"waiting", "ok", "failed", "uploading"}] /\ Job("verify") \in Jobs
  BY ChainJobs DEF IInv, TypeOK, Single
<1>2. ASSUME NEW n \in Single \ {"verify"}, Moved(Job(n)) PROVE Stays
  <2>1. Job(n) # Job("verify")
    BY ChainJobs DEF Single
  <2> QED
    BY <1>1, <1>2, <2>1
<1>3. ASSUME NEW j, NEW good, Ended(j, good) PROVE Moved(j)
  BY <1>3 DEF Ended
<1>4. CASE Preflight
  <2>1. W' = W /\ art' = art /\ Moved(Job("preflight"))
    BY <1>3, <1>4 DEF Preflight
  <2> QED
    BY <1>2, <2>1 DEF Single
<1>5. ASSUME NEW n \in Single \ {"verify"}, NEW good, NEW artifacts,
             artifacts.evidence = art.evidence, Finish(Job(n), good, artifacts)
      PROVE  art'.evidence = art.evidence /\ Stays
  BY <1>2, <1>3, <1>5 DEF Finish
<1>6. ASSUME NEW x
      PROVE  /\ [art EXCEPT !.dist = x].evidence = art.evidence
             /\ [art EXCEPT !.sboms = x].evidence = art.evidence
             /\ [art EXCEPT !.input = x].evidence = art.evidence
             /\ [art EXCEPT !.candidate = x].evidence = art.evidence
             /\ [art EXCEPT !.assets = x].evidence = art.evidence
  BY DEF IInv, ShapeInv, Artifacts
<1>7. CASE Build \/ BuildTouched
  <2>1. W' = W /\ \E good, x : Finish(Job("build"), good, [art EXCEPT !.dist = x])
    BY <1>7, Zenon DEF Build, BuildTouched, BuildWith
  <2> QED
    BY <1>5, <1>6, <2>1 DEF Single
<1>8. CASE MakeSbom
  <2>1. W' = W /\ \E good, x : Finish(Job("sbom"), good, [art EXCEPT !.sboms = x])
    BY <1>8, Zenon DEF MakeSbom
  <2> QED
    BY <1>5, <1>6, <2>1 DEF Single
<1>9. CASE StageSigning
  <2>1. W' = W /\ \E good, x : Finish(Job("stage"), good, [art EXCEPT !.input = x])
    BY <1>9, Zenon DEF StageSigning
  <2> QED
    BY <1>5, <1>6, <2>1 DEF Single
<1>10. CASE CollectSigned
  <2>1. W' = W /\ \E good, x : Finish(Job("collect"), good, [art EXCEPT !.candidate = x])
    BY <1>10, Zenon DEF CollectSigned
  <2> QED
    BY <1>5, <1>6, <2>1 DEF Single
<1>11. CASE PackageRelease
  <2>1. W' = W /\ \E good, x : Finish(Job("package"), good, [art EXCEPT !.assets = x])
    BY <1>11, Zenon DEF PackageRelease
  <2> QED
    BY <1>5, <1>6, <2>1 DEF Single
<1>12. CASE Sign \/ SignWrongly
  <2>1. W' = W /\ Ended(Job("sign"), TRUE) /\ \E x : art' = [art EXCEPT !.result = x]
    BY <1>12, Zenon DEF Sign, SignWrongly, SignWith
  <2>2. art'.evidence = art.evidence
    BY <2>1 DEF IInv, ShapeInv, Artifacts
  <2>3. Stays
    BY <1>2, <1>3, <2>1 DEF Single
  <2> QED
    BY <2>1, <2>2, <2>3
<1>13. CASE PublishBegin
  <2>1. W' = W /\ art' = art /\ Moved(Job("publish"))
    BY <1>3, <1>13 DEF PublishBegin
  <2> QED
    BY <1>2, <2>1 DEF Single
<1>14. CASE PublishDraft
  <2>1. W' = W /\ art' = art /\ Moved(Job("publish"))
    BY <1>3, <1>14 DEF PublishDraft
  <2> QED
    BY <1>2, <2>1 DEF Single
<1>15. CASE \E n \in AssetNames : UploadAsset(n) \/ UploadInterrupted(n)
  <2>1. W' = W /\ art' = art /\ (st' = st \/ Moved(Job("publish")))
    BY <1>15 DEF UploadAsset, UploadInterrupted
  <2> QED
    BY <1>2, <2>1 DEF Single
<1>16. CASE \E jobs : Again(jobs)
  BY <1>1, <1>16 DEF Again
<1>17. CASE \E j \in Jobs : Lost(j)
  <2>1. PICK j \in Jobs : W' = W /\ art' = art /\ st' = [st EXCEPT ![j] = "failed"]
    BY <1>17 DEF Lost
  <2> QED
    BY <1>1, <2>1
<1>18. CASE UNCHANGED vars
  BY <1>18 DEF vars
<1>19. RerunAll \/ RerunFailed \/ (\E j \in Jobs : RerunJob(j)) => \E jobs : Again(jobs)
  BY Zenon DEF RerunAll, RerunFailed, RerunJob
<1> QED
  BY <1>4, <1>7, <1>8, <1>9, <1>10, <1>11, <1>12, <1>13, <1>14, <1>15, <1>16, <1>17, <1>18,
     <1>19, Zenon DEF Next

\* What the evidence tells, and what the gate then means, holds in every state.
LEMMA InitHasGate ==
  Init => GateInv
<1> SUFFICES ASSUME Init PROVE GateInv
  OBVIOUS
<1>1. EvidenceInv
  BY DEF Init, EvidenceInv, NoEvidence, RustTold, CsharpTold
<1>2. st[Job("verify")] = "waiting"
  BY ChainJobs DEF Init, Single
<1> QED
  BY <1>1, <1>2 DEF GateInv, VerifiedIsTested

LEMMA StepKeepsGate ==
  IInv /\ IInv' /\ GateInv /\ [Next]_vars => GateInv'
<1> SUFFICES ASSUME IInv, IInv', GateInv, [Next]_vars PROVE GateInv'
  OBVIOUS
<1>1. CASE \E shard \in Shards : RustShard(shard) \/ RustShardFault(shard) \/ CsharpShard(shard)
  BY <1>1, RustShardsTell, CsharpShardsTell
<1>2. CASE VerifyMutation
  BY <1>2, VerifierShows
<1>3. CASE /\ ~\E shard \in Shards :
                 RustShard(shard) \/ RustShardFault(shard) \/ CsharpShard(shard)
           /\ ~VerifyMutation
  BY <1>3, OthersStay, GateStays
<1> QED
  BY <1>1, <1>2, <1>3

\* VerifiedIsTested: when the mutation gate is passed, every mutant of the reviewed sources
\* was run to its end by the shard that had it, in one attempt, and was caught, could not be
\* built or is an accepted equivalent; no lost outcome, slow machine or differing order of
\* the list, and no artifact left from an earlier attempt, passes it (mutation_ci.rs).
THEOREM PassedGateIsTested == Spec => []VerifiedIsTested
<1>1. GateInv => VerifiedIsTested
  BY DEF GateInv
<1> QED
  BY <1>1, RunKeepsItsInvariant, InitHasGate, StepKeepsGate, PTL DEF Spec

(***************************************************************************)
(* The two lanes                                                           *)
(***************************************************************************)

\* The mutants a report has outcomes of, in its order.
TriedIn(report) == [i \in DOMAIN report.outcomes |-> report.outcomes[i].mutant]

\* The report of a run over a list says of each of its mutants the fate, in their order.
LEMMA ReportOfFates ==
  ASSUME NEW list, NEW n \in Nat, DOMAIN list = 1 .. n, NEW fate
  PROVE  LET report == RustReport(list, fate)
         IN /\ DOMAIN report.outcomes = 1 .. n
            /\ \A i \in 1 .. n : /\ report.outcomes[i].mutant = list[i]
                                 /\ report.outcomes[i].summary = fate[list[i]]
            /\ TriedIn(report) = [i \in 1 .. n |-> list[i]]
            /\ Range(TriedIn(report)) = Range(list)
            /\ IsInjective(list) <=> IsInjective(TriedIn(report))
            /\ \A s : WithSummary(report, s) = {m \in Range(list) : fate[m] = s}
            /\ report.listed = list /\ report.baseline = <<"Success">>
<1> DEFINE report == RustReport(list, fate)
           tried == TriedIn(report)
<1>1. /\ DOMAIN report.outcomes = 1 .. n
      /\ \A i \in 1 .. n : /\ report.outcomes[i].mutant = list[i]
                           /\ report.outcomes[i].summary = fate[list[i]]
      /\ report.listed = list /\ report.baseline = <<"Success">>
  BY DEF RustReport
<1> HIDE DEF report
<1>2. tried = [i \in 1 .. n |-> list[i]]
  BY <1>1 DEF TriedIn
<1> HIDE DEF tried
<1>3. Range(tried) = Range(list) /\ (IsInjective(list) <=> IsInjective(tried))
  BY <1>2 DEF Range, IsInjective
<1>4. ASSUME NEW s PROVE WithSummary(report, s) = {m \in Range(list) : fate[m] = s}
  <2>1. ASSUME NEW m \in WithSummary(report, s) PROVE m \in Range(list) /\ fate[m] = s
    <3>1. PICK i \in 1 .. n : report.outcomes[i].summary = s /\ report.outcomes[i].mutant = m
      BY <1>1 DEF WithSummary, Range
    <3> QED
      BY <1>1, <3>1 DEF Range
  <2>2. ASSUME NEW m \in Range(list), fate[m] = s PROVE m \in WithSummary(report, s)
    <3>1. PICK i \in 1 .. n : list[i] = m
      BY DEF Range
    <3>2. /\ report.outcomes[i] \in Range(report.outcomes)
          /\ report.outcomes[i].summary = s /\ report.outcomes[i].mutant = m
      BY <1>1, <2>2, <3>1 DEF Range
    <3> QED
      BY <3>2 DEF WithSummary
  <2> QED
    BY <2>1, <2>2
<1> QED
  BY <1>1, <1>2, <1>3, <1>4 DEF report, tried

\* What the local lane of Rust asks, of mutants of which none is an accepted equivalent.
RustSound ==
  /\ ReadBaseline(W.ctl.baselines["rust"])
  /\ W.rust # << >> /\ IsInjective(W.rust)
  /\ \A m \in Range(W.rust) : W.fate[m] \in {"CaughtMutant", "Unviable"}
  /\ Reviewed(W.ctl, "rust") = {m.path : m \in Range(W.rust)}

\* That is what it asks.
LEMMA LocalRustIsSound ==
  ASSUME W \in Worlds, W.ctl.baselines["rust"].accepted = << >>
  PROVE  LocalRust <=> RustSound
<1> DEFINE n == Len(W.rust)
           report == RustReport(W.rust, W.fate)
           tried == TriedIn(report)
           run == ParseRustRun(report)
           baseline == W.ctl.baselines["rust"]
<1>1. W.rust \in Seq(DOMAIN W.fate)
  BY MutantsAssumption
<1>2. n \in Nat /\ DOMAIN W.rust = 1 .. n
  BY <1>1
<1>3. W.rust = << >> <=> n = 0
  BY <1>1
<1>4. /\ DOMAIN report.outcomes = 1 .. n
      /\ \A i \in 1 .. n : /\ report.outcomes[i].mutant = W.rust[i]
                           /\ report.outcomes[i].summary = W.fate[W.rust[i]]
      /\ tried = [i \in 1 .. n |-> W.rust[i]]
      /\ Range(tried) = Range(W.rust)
      /\ IsInjective(W.rust) <=> IsInjective(tried)
      /\ \A s : WithSummary(report, s) = {m \in Range(W.rust) : W.fate[m] = s}
      /\ report.listed = W.rust /\ report.baseline = <<"Success">>
  <2> HIDE DEF n
  <2>1. n \in Nat /\ DOMAIN W.rust = 1 .. n
    BY <1>2
  <2> QED
    BY <2>1, ReportOfFates
<1>5. /\ \A s \in Terminal : report.texts[s] = {m \in Range(W.rust) : W.fate[m] = s}
      /\ report.exit = IF \E m \in Range(W.rust) : W.fate[m] = "Timeout" THEN 3
                       ELSE IF \E m \in Range(W.rust) : W.fate[m] = "MissedMutant" THEN 2 ELSE 0
  BY DEF RustReport
<1> HIDE DEF report
<1>6. tried = << >> <=> n = 0
  <2> HIDE DEF tried, n
  <2>2. CASE n = 0
    BY <1>4, <2>2
  <2>3. CASE n # 0
    <3>1. 1 \in DOMAIN tried
      BY <1>2, <1>4, <2>3
    <3> QED
      BY <2>3, <3>1
  <2> QED
    BY <2>2, <2>3
<1> HIDE DEF tried, n
<1>7. (\A o \in Range(report.outcomes) : o.summary \in Terminal)
        <=> \A m \in Range(W.rust) : W.fate[m] \in Terminal
  BY <1>2, <1>4 DEF Range
<1>8. /\ run.ok <=> /\ W.rust # << >> /\ IsInjective(W.rust)
                    /\ \A m \in Range(W.rust) : W.fate[m] \in Terminal
      /\ run.ok => /\ run.examined = {m.path : m \in Range(W.rust)}
                   /\ run.survivors = {m \in Range(W.rust) : W.fate[m] = "MissedMutant"}
                   /\ run.timeouts = {m \in Range(W.rust) : W.fate[m] = "Timeout"}
  <2> DEFINE valid == /\ report.baseline = <<"Success">>
                      /\ tried # << >> /\ IsInjective(tried)
                      /\ \A o \in Range(report.outcomes) : o.summary \in Terminal
                      /\ IsInjective(report.listed) /\ Range(report.listed) = Range(tried)
                      /\ \A s \in Terminal : report.texts[s] = WithSummary(report, s)
             found == [ok |-> TRUE, examined |-> {m.path : m \in Range(tried)},
                       survivors |-> WithSummary(report, "MissedMutant"),
                       timeouts |-> WithSummary(report, "Timeout")]
  <2>1. run = IF valid THEN found ELSE No
    BY DEF ParseRustRun, tried, TriedIn
  <2> HIDE DEF run
  <2>2. \A s \in Terminal : report.texts[s] = WithSummary(report, s)
    BY <1>4, <1>5
  <2>3. valid <=> /\ W.rust # << >> /\ IsInjective(W.rust)
                  /\ \A m \in Range(W.rust) : W.fate[m] \in Terminal
    BY <1>3, <1>4, <1>6, <1>7, <2>2
  <2>4. /\ found.ok /\ found.examined = {m.path : m \in Range(W.rust)}
        /\ found.survivors = {m \in Range(W.rust) : W.fate[m] = "MissedMutant"}
        /\ found.timeouts = {m \in Range(W.rust) : W.fate[m] = "Timeout"}
    BY <1>4
  <2>5. ~No.ok
    BY DEF No
  <2> HIDE DEF valid, found
  <2> QED
    BY <2>1, <2>3, <2>4, <2>5
<1> HIDE DEF run
<1>9. LocalRust <=> /\ ReadBaseline(baseline) /\ run.ok /\ report.exit = ExpectedExit(run)
                    /\ run.timeouts = {} /\ Range(baseline.files) = run.examined
                    /\ ExactSurvivors(baseline, run.survivors)
  BY DEF LocalRust, RunRust, report, run
<1>10. ExactSurvivors(baseline, run.survivors) <=> run.survivors = {}
  BY DEF ExactSurvivors, Range
<1>11. run.ok /\ run.timeouts = {} /\ run.survivors = {} => report.exit = ExpectedExit(run)
  BY <1>5, <1>8 DEF ExpectedExit
<1>12. /\ run.ok /\ run.timeouts = {} /\ run.survivors = {}
            => \A m \in Range(W.rust) : W.fate[m] \in {"CaughtMutant", "Unviable"}
       /\ (\A m \in Range(W.rust) : W.fate[m] \in {"CaughtMutant", "Unviable"})
            /\ W.rust # << >> /\ IsInjective(W.rust)
            => run.ok /\ run.timeouts = {} /\ run.survivors = {}
  BY <1>8 DEF Terminal
<1> QED
  BY <1>8, <1>9, <1>10, <1>11, <1>12 DEF RustSound, Reviewed

\* Division by a positive number.
LEMMA Division ==
  ASSUME NEW a \in Int, NEW c \in Nat \ {0}
  PROVE  /\ a \div c \in Int /\ a % c \in 0 .. (c - 1)
         /\ a = (a \div c) * c + (a % c)
OBVIOUS

\* Multiples are ordered as their factors.
LEMMA Multiples ==
  ASSUME NEW q \in Int, NEW k \in Int, NEW c \in Nat \ {0}, q >= k + 1
  PROVE  q * c >= k * c + c
<1>1. q * c = (k + 1) * c + (q - (k + 1)) * c
  OBVIOUS
<1>2. (q - (k + 1)) * c >= 0
  OBVIOUS
<1>3. (k + 1) * c = k * c + c
  OBVIOUS
<1> QED
  BY <1>1, <1>2, <1>3

\* A quotient is the largest factor that fits.
LEMMA QuotientBounds ==
  ASSUME NEW a \in Int, NEW k \in Int, NEW c \in Nat \ {0}
  PROVE  k <= a \div c <=> k * c <= a
<1> DEFINE q == a \div c
           r == a % c
<1>1. q \in Int /\ r \in 0 .. (c - 1) /\ a = q * c + r
  BY Division
<1> HIDE DEF q, r
<1>2. k * c \in Int /\ q * c \in Int
  BY <1>1
<1>3. CASE k = q
  BY <1>1, <1>2, <1>3
<1>4. CASE q >= k + 1
  BY <1>1, <1>2, <1>4, Multiples
<1>5. CASE k >= q + 1
  BY <1>1, <1>2, <1>5, Multiples
<1> QED
  BY <1>1, <1>3, <1>4, <1>5 DEF q

\* What is added to a multiple remains of it.
LEMMA RemainderOf ==
  ASSUME NEW k \in Int, NEW c \in Nat \ {0}, NEW s \in 0 .. (c - 1)
  PROVE  (k * c + s) % c = s
<1> DEFINE a == k * c + s
           q == a \div c
           r == a % c
<1>1. a \in Int /\ k * c \in Int
  OBVIOUS
<1>2. a = k * c + s
  OBVIOUS
<1> HIDE DEF a
<1>3. q \in Int /\ r \in 0 .. (c - 1) /\ a = q * c + r
  BY <1>1, Division
<1> HIDE DEF q, r
<1>4. q * c \in Int
  BY <1>3
<1>5. ~(q >= k + 1) /\ ~(k >= q + 1)
  BY <1>1, <1>2, <1>3, <1>4, Multiples
<1>6. q = k
  BY <1>3, <1>5
<1>7. q * c = k * c
  BY <1>6
<1>8. r = s
  BY <1>1, <1>2, <1>3, <1>7
<1> QED
  BY <1>8 DEF r, a

\* The part of a list that a shard runs is the one it is to run, without repetition.
LEMMA ShardIsItsPart ==
  ASSUME NEW list, NEW n \in Nat, DOMAIN list = 1 .. n, Len(list) = n, NEW shard \in Shards
  PROVE  /\ \E k \in Nat : DOMAIN ShardOf(list, shard) = 1 .. k
         /\ Range(ShardOf(list, shard)) = RoundRobin(list, shard)
         /\ IsInjective(list) => IsInjective(ShardOf(list, shard))
         /\ RoundRobin(list, shard) \subseteq Range(list)
<1> DEFINE C == ShardCount
           top == n - shard + C - 1
           last == top \div C
           at(k) == (k - 1) * C + shard + 1
           part == ShardOf(list, shard)
<1>1. C \in Nat \ {0} /\ shard \in 0 .. (C - 1) /\ top \in Int
  BY ShardAssumption DEF Shards
<1>2. part = [k \in 1 .. last |-> list[at(k)]]
  BY DEF ShardOf
<1>3. last \in Int
  BY <1>1, Division
<1> HIDE DEF part, C
<1>4. ASSUME NEW k \in 1 .. last
      PROVE  at(k) \in 1 .. n /\ (at(k) - 1) % C = shard
  <2>1. k \in Int /\ k - 1 \in Nat
    BY <1>3
  <2>2. k * C <= top
    BY <1>1, <1>3, <2>1, QuotientBounds
  <2>3. (k - 1) * C = k * C - C /\ (k - 1) * C \in Nat /\ k * C \in Int
    BY <1>1, <2>1
  <2> DEFINE m == (k - 1) * C
  <2>4. at(k) = m + shard + 1 /\ m \in Nat /\ m + C <= top
    BY <1>1, <2>2, <2>3
  <2>5. (m + shard) % C = shard
    BY <1>1, <2>1, RemainderOf
  <2> HIDE DEF m, at
  <2>6. at(k) \in 1 .. n /\ at(k) - 1 = m + shard
    BY <1>1, <2>4
  <2> QED
    BY <2>5, <2>6
<1>5. ASSUME NEW j \in 1 .. n, (j - 1) % C = shard
      PROVE  \E k \in 1 .. last : at(k) = j
  <2> DEFINE q == (j - 1) \div C
  <2>1. q \in Int /\ j - 1 = q * C + shard
    BY <1>1, <1>5, Division
  <2> HIDE DEF q
  <2>2. q * C \in Int /\ (q + 1) * C = q * C + C
    BY <1>1, <2>1
  <2>3. (q + 1) * C <= top
    BY <1>1, <2>1, <2>2
  <2>4. q + 1 <= last
    BY <1>1, <2>1, <2>3, QuotientBounds
  <2>5. q >= 0
    <3>1. CASE 0 >= q + 1
      <4>1. 0 * C >= q * C + C
        BY <1>1, <2>1, <3>1, Multiples
      <4> QED
        BY <1>1, <2>1, <2>2, <4>1
    <3> QED
      BY <2>1, <3>1
  <2>6. q + 1 \in 1 .. last
    BY <1>3, <2>1, <2>4, <2>5
  <2>7. at(q + 1) = j
    BY <1>1, <2>1, <2>2
  <2> HIDE DEF at
  <2> QED
    BY <2>6, <2>7
<1>6. ASSUME NEW i \in 1 .. last, NEW k \in 1 .. last, at(i) = at(k)
      PROVE  i = k
  <2>1. (i - 1) * C = (k - 1) * C /\ i - 1 \in Int /\ k - 1 \in Int
    BY <1>1, <1>3, <1>6
  <2>2. ~(i - 1 >= (k - 1) + 1) /\ ~(k - 1 >= (i - 1) + 1)
    BY <1>1, <2>1, Multiples
  <2> QED
    BY <1>3, <2>1, <2>2
<1> HIDE DEF at, last
<1>7. Range(part) = RoundRobin(list, shard)
  BY <1>2, <1>4, <1>5 DEF Range, RoundRobin, C
<1>8. IsInjective(list) => IsInjective(part)
  BY <1>2, <1>4, <1>6 DEF IsInjective
<1>9. RoundRobin(list, shard) \subseteq Range(list)
  BY DEF RoundRobin, Range
<1>10. \E k \in Nat : DOMAIN part = 1 .. k
  BY ShardIsSequence DEF part
<1> QED
  BY <1>7, <1>8, <1>9, <1>10 DEF part

\* Where the lanes do not differ, a shard whose evidence is verified has found of every one
\* of its mutants what the local lane asks.
LEMMA VerifiedRustIsSound ==
  ASSUME W \in Worlds, ~LanesDiffer, NEW rust, \A s \in Shards : RustTold(rust[s]),
         VerifyRustEvidence(W.co, Bind, rust).ok
  PROVE  RustSound
<1> DEFINE found == SourceInventory(W.ctl, W.co, "rust")
           seals == Policies(W.ctl, W.co, "rust")
<1>1. Bind.controller = W.ctl
  BY DEF Bind
<1>2. /\ ReviewedPolicy(W.ctl, "rust") /\ found.ok /\ DOMAIN rust = Shards
      /\ \A i \in DOMAIN rust : RustShardVerified(rust[i], Bind, i, found.files, seals.seals)
      /\ \A i \in DOMAIN rust : rust[i].global = rust[0].global
      /\ UNION {rust[i].receipt[1].shard : i \in DOMAIN rust} = Range(rust[0].global[1])
  BY <1>1 DEF VerifyRustEvidence, No, AllShards, Shards
<1>3. DOMAIN found.files = Reviewed(W.ctl, "rust")
  BY <1>2 DEF SourceInventory, No
<1> DEFINE files == found.files
           controls == seals.seals
           list == rust[0].global[1]
<1> HIDE DEF found, seals
<1>4. 0 \in Shards
  BY ShardAssumption DEF Shards
<1>5. /\ rust[0].receipt # << >> /\ RustTold(rust[0])
      /\ ValidMutantList(list, TRUE) /\ WithinInventory(list, files)
  BY <1>2, <1>4 DEF RustShardVerified
<1>6. list \in {W.rust, Reverse(W.rust)}
  BY <1>5 DEF RustTold
<1>7. W.rust \in Seq(DOMAIN W.fate)
  BY MutantsAssumption
<1>8. Range(list) = Range(W.rust) /\ Len(list) = Len(W.rust)
  BY <1>6, <1>7, ReversedHasTheSame
<1>9. W.rust # << >> /\ IsInjective(W.rust)
  <2>1. CASE list = W.rust
    BY <1>5, <2>1 DEF ValidMutantList
  <2>2. CASE list = Reverse(W.rust)
    <3> DEFINE n == Len(W.rust)
    <3>1. n \in Nat /\ DOMAIN W.rust = 1 .. n /\ list = [i \in 1 .. n |-> W.rust[(n - i) + 1]]
      BY <1>7, <2>2 DEF Reverse
    <3>2. IsInjective(list) /\ list # << >>
      BY <1>5 DEF ValidMutantList
    <3> HIDE DEF list, n
    <3>3. n # 0
      BY <3>1, <3>2
    <3>4. W.rust # << >>
      BY <1>7, <3>3 DEF n
    <3>5. ASSUME NEW a \in 1 .. n, NEW b \in 1 .. n, W.rust[a] = W.rust[b] PROVE a = b
      <4>1. (n - a) + 1 \in 1 .. n /\ (n - b) + 1 \in 1 .. n
        BY <3>1
      <4>2. n - ((n - a) + 1) + 1 = a /\ n - ((n - b) + 1) + 1 = b
        BY <3>1
      <4>3. list[(n - a) + 1] = W.rust[a] /\ list[(n - b) + 1] = W.rust[b]
        BY <3>1, <4>1, <4>2
      <4>4. (n - a) + 1 = (n - b) + 1
        BY <3>1, <3>2, <3>5, <4>1, <4>3 DEF IsInjective
      <4> QED
        BY <3>1, <4>4
    <3> QED
      BY <3>1, <3>4, <3>5 DEF IsInjective
  <2> QED
    BY <1>6, <2>1, <2>2
<1>10. W.ctl.baselines["rust"].accepted = << >>
  BY DEF LanesDiffer
<1>11. ASSUME NEW m \in Range(W.rust) PROVE W.fate[m] \in {"CaughtMutant", "Unviable"}
  <2>1. PICK s \in Shards : m \in rust[s].receipt[1].shard
    BY <1>2, <1>8
  <2>2. m \in DOMAIN W.fate
    <3>1. PICK i \in DOMAIN W.rust : W.rust[i] = m
      BY DEF Range
    <3> QED
      BY <1>7, <3>1
  <2>3. RustTold(rust[s]) /\ RustShardVerified(rust[s], Bind, s, files, controls)
    BY <1>2
  <2>4. RustGood(m)
    <3> HIDE DEF files, controls
    <3> QED
      BY <2>1, <2>2, <2>3, RustShardShows
  <2> QED
    BY <1>10, <2>4 DEF RustGood, Range
<1>12. Reviewed(W.ctl, "rust") = {m.path : m \in Range(W.rust)}
  <2>1. \A m \in Range(W.rust) : m.path \in Reviewed(W.ctl, "rust")
    BY <1>3, <1>5, <1>8 DEF WithinInventory
  <2>2. \A p \in Reviewed(W.ctl, "rust") : \E m \in Range(W.rust) : m.path = p
    BY DEF LanesDiffer
  <2> QED
    BY <2>1, <2>2
<1>13. ReadBaseline(W.ctl.baselines["rust"])
  BY <1>2 DEF ReviewedPolicy
<1> QED
  BY <1>9, <1>11, <1>12, <1>13 DEF RustSound

\* A shard of a list without repetition, all of whose mutants are caught or cannot be built,
\* passes with the report of its own part.
LEMMA SoundRustShardPasses ==
  ASSUME W \in Worlds, Admitted, W.ctl.baselines["rust"].accepted = << >>, RustSound,
         NEW shard \in Shards
  PROVE  RunRustShard(W.co, Bind, shard, W.rust, RustReport(ShardOf(W.rust, shard), W.fate)).ok
<1> DEFINE n == Len(W.rust)
           part == ShardOf(W.rust, shard)
           expected == RoundRobin(W.rust, shard)
           report == RustReport(part, W.fate)
           parsed == ParseRustOutcomes(report, expected)
           found == SourceInventory(W.ctl, W.co, "rust")
<1>1. W.rust \in Seq(DOMAIN W.fate)
  BY MutantsAssumption
<1>2. n \in Nat /\ DOMAIN W.rust = 1 .. n /\ Len(W.rust) = n
  BY <1>1
<1> HIDE DEF n
<1>3. /\ \E k \in Nat : DOMAIN part = 1 .. k
      /\ Range(part) = expected /\ IsInjective(part) /\ expected \subseteq Range(W.rust)
  BY <1>2, ShardIsItsPart DEF RustSound
<1>4. PICK k \in Nat : DOMAIN part = 1 .. k
  BY <1>3
<1> HIDE DEF part, expected
<1>5. /\ DOMAIN report.outcomes = 1 .. k
      /\ \A i \in 1 .. k : /\ report.outcomes[i].mutant = part[i]
                           /\ report.outcomes[i].summary = W.fate[part[i]]
      /\ TriedIn(report) = [i \in 1 .. k |-> part[i]]
      /\ Range(TriedIn(report)) = Range(part)
      /\ IsInjective(part) <=> IsInjective(TriedIn(report))
      /\ \A s : WithSummary(report, s) = {m \in Range(part) : W.fate[m] = s}
      /\ report.listed = part /\ report.baseline = <<"Success">>
  BY <1>4, ReportOfFates
<1>6. ASSUME NEW m \in expected PROVE W.fate[m] \in {"CaughtMutant", "Unviable"}
  BY <1>3 DEF RustSound
<1>7. /\ \A s \in Terminal : report.texts[s] = WithSummary(report, s)
      /\ \A s \in Terminal : report.counts[s] = Cardinality(WithSummary(report, s))
      /\ report.total = Len(part)
      /\ report.exit = 0
  <2>1. /\ \A s \in Terminal : report.texts[s] = {m \in Range(part) : W.fate[m] = s}
        /\ \A s \in Terminal : report.counts[s] = Cardinality({m \in Range(part) : W.fate[m] = s})
        /\ report.total = Len(part)
        /\ report.exit = IF {m \in Range(part) : W.fate[m] = "Timeout"} # {} THEN 3
                         ELSE IF {m \in Range(part) : W.fate[m] = "MissedMutant"} # {} THEN 2 ELSE 0
    BY DEF RustReport
  <2>2. /\ {m \in Range(part) : W.fate[m] = "Timeout"} = {}
        /\ {m \in Range(part) : W.fate[m] = "MissedMutant"} = {}
    BY <1>3, <1>6
  <2> QED
    BY <1>5, <2>1, <2>2
<1>8. report.total = Len(report.outcomes)
  <2>1. Len(part) = k
    <3>1. part = [i \in 1 .. k |-> part[i]]
      BY <1>4 DEF part, ShardOf
    <3>2. part \in [1 .. k -> Range(part)]
      BY <3>1 DEF Range
    <3> QED
      BY <3>2
  <2>2. Len(report.outcomes) = k
    <3>1. report.outcomes = [i \in 1 .. k |-> report.outcomes[i]]
      BY <1>4 DEF RustReport
    <3>2. report.outcomes \in [1 .. k -> Range(report.outcomes)]
      BY <3>1 DEF Range
    <3> QED
      BY <3>2
  <2> QED
    BY <1>7, <2>1, <2>2
<1> HIDE DEF report
<1>9. \A o \in Range(report.outcomes) : o.summary \in Terminal
  <2>1. ASSUME NEW i \in 1 .. k PROVE report.outcomes[i].summary \in Terminal
    <3>1. part[i] \in expected
      BY <1>3, <1>4 DEF Range
    <3> QED
      BY <1>5, <1>6, <3>1 DEF Terminal
  <2> QED
    BY <1>5, <2>1 DEF Range
<1>10. ExhaustivePartition(report, expected)
  BY <1>3, <1>5 DEF ExhaustivePartition, TriedIn
<1>11. /\ parsed.ok /\ parsed.baseline
       /\ parsed.outcomes = [s \in Terminal |-> WithSummary(report, s)]
  <2>1. Len(report.baseline) = 1 /\ report.baseline[1] = "Success"
    BY <1>5
  <2> QED
    BY <1>7, <1>8, <1>9, <1>10, <2>1 DEF ParseRustOutcomes
<1> HIDE DEF parsed
<1>12. RustGate(W.ctl, parsed, expected, report.exit)
  <2>1. parsed.outcomes["MissedMutant"] = {} /\ parsed.outcomes["Timeout"] = {}
    BY <1>3, <1>5, <1>6, <1>11 DEF Terminal
  <2>2. AcceptedIn(W.ctl, expected) = {}
    BY DEF AcceptedIn, Range
  <2> QED
    BY <1>7, <1>11, <2>1, <2>2 DEF RustGate
<1>13. /\ PrepareOk(W.co, Bind) /\ ReviewedPolicy(W.ctl, "rust")
       /\ found.ok /\ Policies(W.ctl, W.co, "rust").ok
  BY DEF Admitted
<1>14. ValidMutantList(W.rust, TRUE) /\ WithinInventory(W.rust, found.files)
  <2>1. DOMAIN found.files = Reviewed(W.ctl, "rust")
    BY <1>13 DEF SourceInventory, No
  <2> QED
    BY <2>1 DEF RustSound, ValidMutantList, WithinInventory
<1> HIDE DEF found
<1>15. Range(report.listed) = expected /\ IsInjective(report.listed)
  BY <1>3, <1>5
<1>16. Bind.controller = W.ctl
  BY DEF Bind
<1>17. RunRustShard(W.co, Bind, shard, W.rust, report).ok
  BY <1>11, <1>12, <1>13, <1>14, <1>15, <1>16 DEF RunRustShard, expected, parsed, found
<1> QED
  BY <1>17 DEF report, part

\* The mutants Stryker lists, by file and place, and what a run over some files says of each.
Mutants == UNION {{p} \X DOMAIN W.stryker[p] : p \in DOMAIN W.stryker}
MutantAt(e) == W.stryker[e[1]][e[2]]
StatusIn(e, files) ==
  IF e[1] \in files \/ MutantAt(e).ran THEN MutantAt(e).status ELSE "Filtered"

\* A listed mutant is a file and a place in its list.
LEMMA MutantsAre ==
  \A e : e \in Mutants <=>
    \E p \in DOMAIN W.stryker : \E i \in DOMAIN W.stryker[p] : e = <<p, i>>
BY DEF Mutants

\* The report of a run says of every listed mutant who it is and what became of it.
LEMMA CsharpReportIs ==
  ASSUME W \in Worlds, NEW files
  PROVE  LET report == CsharpReport(files)
         IN /\ DOMAIN report.files = DOMAIN W.stryker
            /\ Entries(report, DOMAIN W.stryker) = Mutants
            /\ \A e \in Mutants :
                 /\ report.files[e[1]][e[2]].id = MutantAt(e).id
                 /\ report.files[e[1]][e[2]].mutant = MutantAt(e).mutant
                 /\ report.files[e[1]][e[2]].status = StatusIn(e, files)
            /\ \A p \in DOMAIN W.stryker : report.files[p] = << >> <=> W.stryker[p] = << >>
            /\ report.baseline /\ report.exit = 0
<1> DEFINE report == CsharpReport(files)
<1>1. /\ DOMAIN report.files = DOMAIN W.stryker /\ report.baseline /\ report.exit = 0
      /\ \A p \in DOMAIN W.stryker :
           report.files[p] = [i \in DOMAIN W.stryker[p] |->
                                IF p \in files \/ W.stryker[p][i].ran THEN W.stryker[p][i]
                                ELSE [W.stryker[p][i] EXCEPT !.status = "Filtered"]]
  BY DEF CsharpReport
<1> HIDE DEF report
<1>2. \A p \in DOMAIN W.stryker : DOMAIN report.files[p] = DOMAIN W.stryker[p]
  BY <1>1
<1>3. Entries(report, DOMAIN W.stryker) = Mutants
  BY <1>2 DEF Entries, Mutants
<1>4. ASSUME NEW p \in DOMAIN W.stryker, NEW i \in DOMAIN W.stryker[p]
      PROVE  /\ report.files[p][i].id = W.stryker[p][i].id
             /\ report.files[p][i].mutant = W.stryker[p][i].mutant
             /\ report.files[p][i].status =
                  IF p \in files \/ W.stryker[p][i].ran THEN W.stryker[p][i].status ELSE "Filtered"
  <2> DEFINE m == W.stryker[p][i]
  <2>1. {"id", "mutant", "status", "ran"} \subseteq DOMAIN m
    <3>1. \A q \in DOMAIN W.stryker : \A k \in DOMAIN W.stryker[q] :
            {"id", "mutant", "status", "ran"} \subseteq DOMAIN W.stryker[q][k]
      BY MutantsAssumption
    <3> QED
      BY <3>1
  <2>2. report.files[p] = [k \in DOMAIN W.stryker[p] |->
                             IF p \in files \/ W.stryker[p][k].ran THEN W.stryker[p][k]
                             ELSE [W.stryker[p][k] EXCEPT !.status = "Filtered"]]
    BY <1>1, Zenon
  <2>3. report.files[p][i] = IF p \in files \/ m.ran THEN m ELSE [m EXCEPT !.status = "Filtered"]
    BY <2>2
  <2> HIDE DEF m
  <2>4. /\ [m EXCEPT !.status = "Filtered"].id = m.id
        /\ [m EXCEPT !.status = "Filtered"].mutant = m.mutant
        /\ [m EXCEPT !.status = "Filtered"].status = "Filtered"
    BY <2>1
  <2> QED
    BY <2>3, <2>4 DEF m
<1>5. \A e \in Mutants :
        /\ report.files[e[1]][e[2]].id = MutantAt(e).id
        /\ report.files[e[1]][e[2]].mutant = MutantAt(e).mutant
        /\ report.files[e[1]][e[2]].status = StatusIn(e, files)
  BY <1>4, MutantsAre DEF MutantAt, StatusIn
<1>6. ASSUME NEW p \in DOMAIN W.stryker PROVE report.files[p] = << >> <=> W.stryker[p] = << >>
  <2>1. W.stryker[p] = [i \in DOMAIN W.stryker[p] |-> W.stryker[p][i]]
    BY MutantsAssumption, Zenon
  <2>2. report.files[p] = [i \in DOMAIN W.stryker[p] |-> report.files[p][i]]
    BY <1>1
  <2>3. \A x : x = [i \in DOMAIN W.stryker[p] |-> x[i]] => (x = << >> <=> DOMAIN W.stryker[p] = {})
    OBVIOUS
  <2> QED
    BY <2>1, <2>2, <2>3
<1> QED
  BY <1>1, <1>3, <1>5, <1>6 DEF report

\* What the local lane of C# asks: every reviewed file has a mutant, no mutant is listed
\* twice, those of the reviewed files came to an end and survived only where accepted, and
\* no other was run.
Scope == Reviewed(W.ctl, "csharp")
SurvivorsIn(files) ==
  {MutantAt(e).mutant : e \in {x \in Mutants : x[1] \in files /\ MutantAt(x).status = "Survived"}}
CsharpSound ==
  /\ ReadBaseline(W.ctl.baselines["csharp"]) /\ StrykerScope(W.ctl)
  /\ DOMAIN W.stryker # {}
  /\ \A p \in Scope : p \in DOMAIN W.stryker /\ W.stryker[p] # << >>
  /\ \A e, f \in Mutants : MutantAt(e).mutant = MutantAt(f).mutant => e = f
  /\ \A e \in Mutants : e[1] \in Scope =>
       MutantAt(e).status \in {"Killed", "CompileError", "Redundant", "Survived"}
  /\ \A e \in Mutants : e[1] \notin Scope /\ MutantAt(e).ran => Unexecuted(MutantAt(e))
  /\ SurvivorsIn(Scope) = Range(W.ctl.baselines["csharp"].accepted)

\* That is what it asks, whatever else Stryker reports.
LEMMA LocalCsharpIsSound ==
  ASSUME W \in Worlds
  PROVE  LocalCsharp <=> CsharpSound
<1> DEFINE report == CsharpReport(Range(W.csharp))
           baseline == W.ctl.baselines["csharp"]
           patterns == Range(W.ctl.patterns)
           run == ParseCsharpRun(report, patterns)
           at(e) == report.files[e[1]][e[2]]
           inside == {e \in Mutants : e[1] \in patterns}
           with(s) == {at(e).mutant : e \in {x \in inside : at(x).status = s}}
           beyond == {e \in Mutants \ inside : ~Unexecuted(at(e))}
<1>1. /\ DOMAIN report.files = DOMAIN W.stryker
      /\ Entries(report, DOMAIN W.stryker) = Mutants
      /\ \A e \in Mutants : /\ at(e).id = MutantAt(e).id /\ at(e).mutant = MutantAt(e).mutant
                            /\ at(e).status = StatusIn(e, Range(W.csharp))
      /\ \A p \in DOMAIN W.stryker : report.files[p] = << >> <=> W.stryker[p] = << >>
      /\ report.baseline /\ report.exit = 0
  BY CsharpReportIs
<1> HIDE DEF report
<1>2. Range(W.csharp) = Scope /\ Scope = Range(baseline.files)
  BY MutantsAssumption DEF Scope, Reviewed
<1>3. LocalCsharp <=>
        /\ ReadBaseline(baseline) /\ StrykerScope(W.ctl)
        /\ run.ok /\ Conclusive(run)
        /\ Range(baseline.files) = run.examined
        /\ run.survivors = Range(baseline.accepted)
  BY <1>1 DEF LocalCsharp, RunCsharp, report
<1>4. /\ run.ok <=>
           /\ DOMAIN W.stryker # {}
           /\ \A p \in patterns : p \in DOMAIN W.stryker /\ W.stryker[p] # << >>
           /\ \A e, f \in Mutants : at(e).mutant = at(f).mutant => e = f
           /\ \A e \in Mutants : at(e).status \in CsharpTerminal \cup {"Filtered"}
      /\ run.ok =>
           /\ run.examined = patterns /\ run.survivors = with("Survived")
           /\ run.noCoverage = with("NoCoverage") /\ run.timeouts = with("Timeout")
           /\ run.ignored = with("Ignored") \cup with("Filtered")
           /\ run.outside = beyond
  <2> DEFINE valid == /\ DOMAIN W.stryker # {}
                      /\ \A p \in patterns : p \in DOMAIN W.stryker /\ report.files[p] # << >>
                      /\ \A e, f \in Mutants : at(e).mutant = at(f).mutant => e = f
                      /\ \A e \in Mutants : at(e).status \in CsharpTerminal \cup {"Filtered"}
             found == [ok |-> TRUE, examined |-> patterns,
                       survivors |-> with("Survived"), noCoverage |-> with("NoCoverage"),
                       timeouts |-> with("Timeout"),
                       ignored |-> with("Ignored") \cup with("Filtered"),
                       outside |-> beyond]
  <2>1. run = IF valid THEN found ELSE No
    BY <1>1, ZenonT(60) DEF ParseCsharpRun
  <2> HIDE DEF run
  <2>2. valid <=>
          /\ DOMAIN W.stryker # {}
          /\ \A p \in patterns : p \in DOMAIN W.stryker /\ W.stryker[p] # << >>
          /\ \A e, f \in Mutants : at(e).mutant = at(f).mutant => e = f
          /\ \A e \in Mutants : at(e).status \in CsharpTerminal \cup {"Filtered"}
    BY <1>1
  <2> HIDE DEF valid, at, with, beyond, patterns
  <2> QED
    BY <2>1, <2>2 DEF No
<1> HIDE DEF run
<1>5. SUFFICES ASSUME StrykerScope(W.ctl), ReadBaseline(baseline)
               PROVE  LocalCsharp <=> CsharpSound
  BY <1>3 DEF CsharpSound
<1>6. patterns = Scope
  BY <1>5 DEF StrykerScope, Scope, Reviewed
<1>7. /\ \A e \in inside : at(e).status = MutantAt(e).status
      /\ \A e \in Mutants \ inside :
           at(e).status = IF MutantAt(e).ran THEN MutantAt(e).status ELSE "Filtered"
      /\ \A e \in Mutants : e \in inside <=> e[1] \in Scope
  BY <1>1, <1>2, <1>6 DEF StatusIn
<1>8. \A s : with(s) = {MutantAt(e).mutant : e \in {x \in inside : MutantAt(x).status = s}}
  BY <1>1, <1>7
<1>9. with("Survived") = SurvivorsIn(Scope)
  BY <1>8, <1>6 DEF SurvivorsIn
<1> DEFINE conclusive == \A e \in Mutants : e[1] \in Scope =>
             MutantAt(e).status \in {"Killed", "CompileError", "Redundant", "Survived"}
           unrun == \A e \in Mutants : e[1] \notin Scope /\ MutantAt(e).ran => Unexecuted(MutantAt(e))
           known == \A e \in Mutants : at(e).status \in CsharpTerminal \cup {"Filtered"}
           empty == /\ with("NoCoverage") = {} /\ with("Timeout") = {} /\ with("Ignored") = {}
                    /\ with("Filtered") = {} /\ beyond = {}
<1>10. conclusive /\ unrun => known /\ empty
  <2> SUFFICES ASSUME conclusive, unrun PROVE known /\ empty
    OBVIOUS
  <2>1. \A e \in inside : MutantAt(e).status \in {"Killed", "CompileError", "Redundant", "Survived"}
    BY <1>7
  <2>2. \A e \in Mutants \ inside : Unexecuted(at(e))
    BY <1>7 DEF Unexecuted
  <2>3. known
    <3>1. \A e \in inside : at(e).status \in CsharpTerminal
      BY <1>7, <2>1 DEF CsharpTerminal
    <3>2. \A e \in Mutants \ inside : at(e).status \in {"CompileError", "Filtered"}
      BY <2>2 DEF Unexecuted
    <3> QED
      BY <3>1, <3>2 DEF CsharpTerminal
  <2>4. /\ with("NoCoverage") = {} /\ with("Timeout") = {} /\ with("Ignored") = {}
        /\ with("Filtered") = {}
    <3>1. ASSUME NEW s \in {"NoCoverage", "Timeout", "Ignored", "Filtered"} PROVE with(s) = {}
      <4>1. {x \in inside : at(x).status = s} = {}
        BY <1>7, <2>1
      <4> QED
        BY <4>1
    <3> HIDE DEF with
    <3> QED
      BY <3>1
  <2>5. beyond = {}
    BY <2>2
  <2> QED
    BY <2>3, <2>4, <2>5
<1>11. known /\ empty => conclusive /\ unrun
  <2> SUFFICES ASSUME known, empty PROVE conclusive /\ unrun
    OBVIOUS
  <2>1. ASSUME NEW e \in Mutants, e[1] \in Scope
        PROVE  MutantAt(e).status \in {"Killed", "CompileError", "Redundant", "Survived"}
    <3>1. e \in inside /\ at(e).status = MutantAt(e).status
      BY <1>7, <2>1
    <3>2. at(e).mutant \in with(at(e).status)
      BY <3>1
    <3> HIDE DEF with, at
    <3>3. at(e).status \notin {"NoCoverage", "Timeout", "Ignored", "Filtered"}
      BY <3>2
    <3> QED
      BY <3>1, <3>3 DEF CsharpTerminal
  <2>2. ASSUME NEW e \in Mutants, e[1] \notin Scope, MutantAt(e).ran PROVE Unexecuted(MutantAt(e))
    <3>1. e \in Mutants \ inside /\ at(e).status = MutantAt(e).status
      BY <1>7, <2>2
    <3>2. Unexecuted(at(e))
      BY <3>1
    <3> QED
      BY <3>1, <3>2 DEF Unexecuted
  <2> QED
    BY <2>1, <2>2
<1> HIDE DEF conclusive, unrun, known, empty, with, beyond, inside
<1>12. (\A e, f \in Mutants : at(e).mutant = at(f).mutant => e = f)
         <=> (\A e, f \in Mutants : MutantAt(e).mutant = MutantAt(f).mutant => e = f)
  BY <1>1
<1>13. CsharpSound <=>
         /\ DOMAIN W.stryker # {}
         /\ \A p \in Scope : p \in DOMAIN W.stryker /\ W.stryker[p] # << >>
         /\ \A e, f \in Mutants : MutantAt(e).mutant = MutantAt(f).mutant => e = f
         /\ conclusive /\ unrun
         /\ SurvivorsIn(Scope) = Range(baseline.accepted)
  BY <1>5 DEF CsharpSound, conclusive, unrun
<1>14. LocalCsharp <=>
         /\ DOMAIN W.stryker # {}
         /\ \A p \in Scope : p \in DOMAIN W.stryker /\ W.stryker[p] # << >>
         /\ \A e, f \in Mutants : at(e).mutant = at(f).mutant => e = f
         /\ known /\ empty
         /\ SurvivorsIn(Scope) = Range(baseline.accepted)
  BY <1>2, <1>3, <1>4, <1>5, <1>6, <1>9 DEF Conclusive, known, empty
<1> QED
  BY <1>10, <1>11, <1>12, <1>13, <1>14

\* What a shard of C# asks of the files it has: the same, of its part, and that no id is
\* used twice.
ShardSound(part) ==
  /\ part \subseteq DOMAIN W.stryker
  /\ \A e, f \in Mutants :
       MutantAt(e).id = MutantAt(f).id \/ MutantAt(e).mutant = MutantAt(f).mutant => e = f
  /\ \A e \in Mutants : e[1] \in part =>
       MutantAt(e).status \in {"Killed", "CompileError", "Redundant", "Survived"}
  /\ \A e \in Mutants : e[1] \notin part /\ MutantAt(e).ran => Unexecuted(MutantAt(e))
  /\ SurvivorsIn(part) = CsharpAcceptedIn(W.ctl, part)

\* That is what parsing and gate of a shard ask together.
LEMMA CsharpShardIsSound ==
  ASSUME W \in Worlds, NEW part, NEW baseline, NEW exit
  PROVE  LET parsed == ParseCsharpReport(CsharpReport(part), part)
         IN /\ parsed.ok /\ CsharpGate(W.ctl, parsed, part, baseline, exit) => ShardSound(part)
            /\ ShardSound(part) /\ baseline /\ exit = 0 =>
                 /\ parsed.ok /\ CsharpPartition(parsed.outcomes)
                 /\ CsharpGate(W.ctl, parsed, part, baseline, exit)
<1> DEFINE report == CsharpReport(part)
           parsed == ParseCsharpReport(report, part)
           at(e) == report.files[e[1]][e[2]]
           inside == {e \in Mutants : e[1] \in part}
           kinds(s) == IF s = "Ignored" THEN {"Ignored", "Filtered"} ELSE {s}
           with(s) == {at(e).mutant : e \in {x \in inside : at(x).status \in kinds(s)}}
           beyond == {at(e).mutant : e \in {x \in Mutants \ inside : ~Unexecuted(at(x))}}
           distinct == \A e, f \in Mutants :
                         (at(e).id = at(f).id \/ at(e).mutant = at(f).mutant) => e = f
           known == \A e \in inside : at(e).status \in CsharpTerminal \cup {"Filtered"}
<1>1. /\ DOMAIN report.files = DOMAIN W.stryker
      /\ Entries(report, DOMAIN W.stryker) = Mutants
      /\ \A e \in Mutants : /\ at(e).id = MutantAt(e).id /\ at(e).mutant = MutantAt(e).mutant
                            /\ at(e).status = StatusIn(e, part)
  BY CsharpReportIs
<1> HIDE DEF report
<1>2. /\ parsed.ok <=> distinct /\ known /\ part \subseteq DOMAIN W.stryker
      /\ parsed.ok => /\ parsed.outcomes = [s \in CsharpTerminal |-> with(s)]
                      /\ parsed.outside = beyond
  BY <1>1 DEF ParseCsharpReport, No
<1> HIDE DEF parsed
<1>3. /\ \A e \in inside : at(e).status = MutantAt(e).status
      /\ \A e \in Mutants \ inside :
           at(e).status = IF MutantAt(e).ran THEN MutantAt(e).status ELSE "Filtered"
  BY <1>1 DEF StatusIn
<1>4. with("Survived") = SurvivorsIn(part)
  <2>1. with("Survived") = {at(e).mutant : e \in {x \in inside : at(x).status = "Survived"}}
    OBVIOUS
  <2>2. {x \in inside : at(x).status = "Survived"} =
          {x \in Mutants : x[1] \in part /\ MutantAt(x).status = "Survived"}
    BY <1>3
  <2> HIDE DEF with
  <2> QED
    BY <1>1, <2>1, <2>2 DEF SurvivorsIn
<1>5. distinct <=> \A e, f \in Mutants :
        MutantAt(e).id = MutantAt(f).id \/ MutantAt(e).mutant = MutantAt(f).mutant => e = f
  BY <1>1
<1> DEFINE empty == with("NoCoverage") = {} /\ with("Timeout") = {} /\ with("Ignored") = {}
           conclusive == \A e \in Mutants : e[1] \in part =>
             MutantAt(e).status \in {"Killed", "CompileError", "Redundant", "Survived"}
           unrun == \A e \in Mutants : e[1] \notin part /\ MutantAt(e).ran => Unexecuted(MutantAt(e))
<1>6. known /\ empty <=> conclusive
  <2>1. ASSUME known, empty, NEW e \in Mutants, e[1] \in part
        PROVE  MutantAt(e).status \in {"Killed", "CompileError", "Redundant", "Survived"}
    <3>1. e \in inside /\ at(e).status = MutantAt(e).status
      BY <1>3, <2>1
    <3>2. \A s : at(e).status \in kinds(s) => with(s) # {}
      BY <3>1
    <3>3. at(e).status \notin {"NoCoverage", "Timeout", "Ignored", "Filtered"}
      BY <2>1, <3>2
    <3>4. at(e).status \in CsharpTerminal \cup {"Filtered"}
      BY <2>1, <3>1
    <3> QED
      BY <3>1, <3>3, <3>4 DEF CsharpTerminal
  <2>2. ASSUME conclusive PROVE known /\ empty
    <3>1. \A e \in inside : at(e).status \in {"Killed", "CompileError", "Redundant", "Survived"}
      BY <1>3, <2>2
    <3>2. ASSUME NEW s \in {"NoCoverage", "Timeout", "Ignored"} PROVE with(s) = {}
      <4>1. {x \in inside : at(x).status \in kinds(s)} = {}
        BY <3>1
      <4> QED
        BY <4>1
    <3>3. known
      BY <3>1 DEF CsharpTerminal
    <3> HIDE DEF with, known
    <3> QED
      BY <3>2, <3>3
  <2> HIDE DEF known, empty
  <2> QED
    BY <2>1, <2>2
<1>7. beyond = {} <=> unrun
  <2>1. beyond = {} <=> \A e \in Mutants \ inside : Unexecuted(at(e))
    OBVIOUS
  <2>2. (\A e \in Mutants \ inside : Unexecuted(at(e))) <=> unrun
    BY <1>3 DEF Unexecuted
  <2> HIDE DEF beyond, unrun
  <2> QED
    BY <2>1, <2>2
<1>8. ASSUME distinct PROVE \A s, t \in CsharpTerminal : s # t => with(s) \cap with(t) = {}
  <2>1. ASSUME NEW s \in CsharpTerminal, NEW t \in CsharpTerminal, s # t,
               NEW m \in with(s), m \in with(t)
        PROVE  FALSE
    <3>1. PICK e \in inside : at(e).status \in kinds(s) /\ at(e).mutant = m
      OBVIOUS
    <3>2. PICK f \in inside : at(f).status \in kinds(t) /\ at(f).mutant = m
      BY <2>1
    <3>3. e = f
      BY <1>8, <3>1, <3>2
    <3>4. at(e).status \in kinds(s) /\ at(e).status \in kinds(t)
      BY <3>1, <3>2, <3>3
    <3> QED
      BY <2>1, <3>4 DEF CsharpTerminal
  <2> QED
    BY <2>1
<1> HIDE DEF with, beyond, known, distinct, conclusive, unrun
<1>9. ShardSound(part) <=>
        /\ part \subseteq DOMAIN W.stryker /\ distinct /\ conclusive /\ unrun
        /\ with("Survived") = CsharpAcceptedIn(W.ctl, part)
  BY <1>4, <1>5 DEF ShardSound, conclusive, unrun
<1>10. parsed.ok => \A s \in CsharpTerminal : parsed.outcomes[s] = with(s)
  BY <1>2
<1>11. parsed.ok =>
         (CsharpGate(W.ctl, parsed, part, baseline, exit) <=>
            /\ baseline /\ exit = 0 /\ with("Survived") = CsharpAcceptedIn(W.ctl, part)
            /\ empty /\ beyond = {})
  BY <1>2, <1>10 DEF CsharpGate, CsharpTerminal
<1>12. parsed.ok => CsharpPartition(parsed.outcomes)
  BY <1>2, <1>8, <1>10 DEF CsharpPartition
<1> HIDE DEF empty
<1>13. /\ parsed.ok /\ CsharpGate(W.ctl, parsed, part, baseline, exit) => ShardSound(part)
       /\ ShardSound(part) /\ baseline /\ exit = 0 =>
            /\ parsed.ok /\ CsharpPartition(parsed.outcomes)
            /\ CsharpGate(W.ctl, parsed, part, baseline, exit)
  BY <1>2, <1>6, <1>7, <1>9, <1>11, <1>12
<1> QED
  BY <1>13 DEF parsed, report

\* What the shards were found to be together is what the local lane asks.
LEMMA VerifiedCsharpIsSound ==
  ASSUME W \in Worlds, ~LanesDiffer, NEW csharp, \A s \in Shards : CsharpTold(csharp[s], s),
         VerifyCsharpEvidence(W.co, Bind, W.csharp, csharp).ok
  PROVE  CsharpSound
<1> DEFINE found == SourceInventory(W.ctl, W.co, "csharp")
           seals == Policies(W.ctl, W.co, "csharp")
           part(s) == RoundRobin(W.csharp, s)
           accepted == Range(W.ctl.baselines["csharp"].accepted)
<1>1. Bind.controller = W.ctl
  BY DEF Bind
<1>2. /\ ReviewedPolicy(W.ctl, "csharp") /\ found.ok /\ DOMAIN csharp = Shards
      /\ \A s \in Shards :
           CsharpShardVerified(csharp[s], Bind, s, W.csharp, found.files, seals.seals)
      /\ UNION {csharp[s].receipt[1].part : s \in DOMAIN csharp} = DOMAIN found.files
  BY <1>1 DEF VerifyCsharpEvidence, No, AllShards, Shards
<1>3. DOMAIN found.files = Scope /\ Scope # {}
  BY <1>2 DEF SourceInventory, No, Scope
<1> DEFINE files == found.files
           controls == seals.seals
<1> HIDE DEF found, seals
<1>4. \A s \in Shards : csharp[s].receipt[1].part = part(s)
  BY <1>2 DEF CsharpShardVerified
<1>5. \A p \in Scope : \E s \in Shards : p \in part(s)
  BY <1>2, <1>3, <1>4
<1>6. \A s \in Shards : part(s) \subseteq Scope
  BY <1>2, <1>3, <1>4
<1>7. ASSUME NEW s \in Shards, part(s) # {} PROVE ShardSound(part(s))
  <2> DEFINE e == csharp[s]
             report == CsharpReport(part(s))
             parsed == ParseCsharpReport(report, part(s))
  <2>1. CsharpShardVerified(e, Bind, s, W.csharp, files, controls) /\ CsharpTold(e, s)
    BY <1>2
  <2> HIDE DEF files, controls
  <2>2. e.receipt # << >> /\ e.receipt[1].executed
    BY <1>7, <2>1 DEF CsharpShardVerified
  <2>3. e.report[1] = report
    BY <2>2, <2>1 DEF CsharpTold
  <2>4. parsed.ok /\ CsharpGate(W.ctl, parsed, part(s), e.receipt[1].baseline, e.receipt[1].exit)
    <3> HIDE DEF report, e
    <3> QED
      BY <1>1, <2>1, <2>2, <2>3 DEF CsharpShardVerified
  <2> HIDE DEF e
  <2> QED
    BY <2>4, CsharpShardIsSound
<1> HIDE DEF part, files, controls
<1>8. PICK s \in Shards : part(s) # {}
  BY <1>3, <1>5
<1>9. ShardSound(part(s)) /\ part(s) \subseteq Scope
  BY <1>6, <1>7, <1>8
<1>10. ReadBaseline(W.ctl.baselines["csharp"]) /\ StrykerScope(W.ctl)
  BY <1>2 DEF ReviewedPolicy
<1>11. \A p \in Scope : p \in DOMAIN W.stryker /\ W.stryker[p] # << >>
  <2>1. ASSUME NEW p \in Scope PROVE p \in DOMAIN W.stryker
    <3>1. PICK t \in Shards : p \in part(t)
      BY <1>5
    <3> QED
      BY <1>7, <3>1 DEF ShardSound
  <2> QED
    BY <2>1 DEF LanesDiffer, Scope
<1>12. DOMAIN W.stryker # {}
  BY <1>3, <1>11
<1>13. \A e, f \in Mutants : MutantAt(e).mutant = MutantAt(f).mutant => e = f
  BY <1>9 DEF ShardSound
<1>14. ASSUME NEW e \in Mutants, e[1] \in Scope
       PROVE  MutantAt(e).status \in {"Killed", "CompileError", "Redundant", "Survived"}
  <2>1. PICK t \in Shards : e[1] \in part(t)
    BY <1>5, <1>14
  <2> QED
    BY <1>7, <2>1 DEF ShardSound
<1>15. \A e \in Mutants : e[1] \notin Scope /\ MutantAt(e).ran => Unexecuted(MutantAt(e))
  BY <1>9 DEF ShardSound
<1>16. SurvivorsIn(Scope) = accepted
  <2>1. ASSUME NEW m \in SurvivorsIn(Scope) PROVE m \in accepted
    <3>1. PICK e \in Mutants : /\ e[1] \in Scope /\ MutantAt(e).status = "Survived"
                               /\ MutantAt(e).mutant = m
      BY DEF SurvivorsIn
    <3>2. PICK t \in Shards : e[1] \in part(t)
      BY <1>5, <3>1
    <3>3. m \in SurvivorsIn(part(t))
      BY <3>1, <3>2 DEF SurvivorsIn
    <3> QED
      BY <1>7, <3>2, <3>3 DEF ShardSound, CsharpAcceptedIn
  <2>2. ASSUME NEW m \in accepted PROVE m \in SurvivorsIn(Scope)
    <3>1. m.path \in Scope
      BY <1>2 DEF ReviewedPolicy, Scope, Reviewed
    <3>2. PICK t \in Shards : m.path \in part(t)
      BY <1>5, <3>1
    <3>3. m \in SurvivorsIn(part(t)) /\ part(t) \subseteq Scope
      BY <1>6, <1>7, <3>2 DEF ShardSound, CsharpAcceptedIn
    <3> QED
      BY <3>3 DEF SurvivorsIn
  <2> QED
    BY <2>1, <2>2
<1> QED
  BY <1>10, <1>11, <1>12, <1>13, <1>14, <1>15, <1>16 DEF CsharpSound

\* Where the local lane passes, and the lanes do not differ, so does each shard.
LEMMA SoundCsharpShardPasses ==
  ASSUME W \in Worlds, Admitted, ~LanesDiffer, CsharpSound, NEW shard \in Shards
  PROVE  RunCsharpShard(W.co, Bind, shard, W.csharp,
                        CsharpReport(RoundRobin(W.csharp, shard))).ok
<1> DEFINE part == RoundRobin(W.csharp, shard)
           accepted == Range(W.ctl.baselines["csharp"].accepted)
           report == CsharpReport(part)
           parsed == IF part # {} THEN ParseCsharpReport(report, part) ELSE NothingRun
           exit == IF part # {} THEN report.exit ELSE 0
<1>1. part \subseteq Scope
  <2>1. part \subseteq Range(W.csharp)
    BY DEF RoundRobin, Range
  <2>2. Range(W.csharp) = Scope
    BY MutantsAssumption DEF Scope, Reviewed
  <2> QED
    BY <2>1, <2>2
<1> HIDE DEF part
<1>2. ShardSound(part)
  <2>1. part \subseteq DOMAIN W.stryker
    BY <1>1 DEF CsharpSound
  <2>2. ASSUME NEW e \in Mutants, NEW f \in Mutants, MutantAt(e).id = MutantAt(f).id PROVE e = f
    <3>1. PICK p, i : p \in DOMAIN W.stryker /\ i \in DOMAIN W.stryker[p] /\ e = <<p, i>>
      BY MutantsAre
    <3>2. PICK q, j : q \in DOMAIN W.stryker /\ j \in DOMAIN W.stryker[q] /\ f = <<q, j>>
      BY MutantsAre
    <3>3. W.stryker[p][i].id = W.stryker[q][j].id
      BY <2>2, <3>1, <3>2 DEF MutantAt
    <3>4. <<p, i>> = <<q, j>>
      BY <3>1, <3>2, <3>3 DEF LanesDiffer
    <3> QED
      BY <3>1, <3>2, <3>4
  <2>3. \A e, f \in Mutants : MutantAt(e).mutant = MutantAt(f).mutant => e = f
    BY DEF CsharpSound
  <2>4. \A e \in Mutants : e[1] \in part =>
          MutantAt(e).status \in {"Killed", "CompileError", "Redundant", "Survived"}
    BY <1>1 DEF CsharpSound
  <2>5. ASSUME NEW e \in Mutants, e[1] \notin part, MutantAt(e).ran PROVE Unexecuted(MutantAt(e))
    <3>1. PICK p, i : p \in DOMAIN W.stryker /\ i \in DOMAIN W.stryker[p] /\ e = <<p, i>>
      BY MutantsAre
    <3>2. p \notin Scope
      BY <2>5, <3>1 DEF LanesDiffer, Scope, MutantAt
    <3> QED
      BY <2>5, <3>1, <3>2 DEF CsharpSound
  <2>6. \A e \in Mutants : MutantAt(e).mutant.path = e[1]
    <3>1. \A p \in DOMAIN W.stryker : \A i \in DOMAIN W.stryker[p] : W.stryker[p][i].mutant.path = p
      BY MutantsAssumption
    <3> QED
      BY <3>1, MutantsAre DEF MutantAt
  <2>7. SurvivorsIn(Scope) = accepted
    BY DEF CsharpSound
  <2>8. ASSUME NEW m \in SurvivorsIn(part) PROVE m \in CsharpAcceptedIn(W.ctl, part)
    <3>1. PICK e \in Mutants : /\ e[1] \in part /\ MutantAt(e).status = "Survived"
                               /\ MutantAt(e).mutant = m
      BY DEF SurvivorsIn
    <3>2. m \in SurvivorsIn(Scope)
      BY <1>1, <3>1 DEF SurvivorsIn
    <3> QED
      BY <2>6, <2>7, <3>1, <3>2 DEF CsharpAcceptedIn
  <2>9. ASSUME NEW m \in CsharpAcceptedIn(W.ctl, part) PROVE m \in SurvivorsIn(part)
    <3>1. m \in SurvivorsIn(Scope) /\ m.path \in part
      BY <2>7 DEF CsharpAcceptedIn
    <3>2. PICK e \in Mutants : MutantAt(e).status = "Survived" /\ MutantAt(e).mutant = m
      BY <3>1 DEF SurvivorsIn
    <3> QED
      BY <2>6, <3>1, <3>2 DEF SurvivorsIn
  <2> QED
    BY <2>1, <2>2, <2>3, <2>4, <2>5, <2>8, <2>9 DEF ShardSound
<1>3. report.baseline /\ report.exit = 0
  BY DEF CsharpReport
<1> HIDE DEF report
<1>4. /\ parsed.ok /\ CsharpPartition(parsed.outcomes)
      /\ CsharpGate(W.ctl, parsed, part, TRUE, exit)
  <2>1. CASE part # {}
    BY <1>2, <1>3, <2>1, CsharpShardIsSound DEF report
  <2>2. CASE part = {}
    BY <2>2 DEF NothingRun, CsharpPartition, CsharpGate, CsharpAcceptedIn, CsharpTerminal
  <2> QED
    BY <2>1, <2>2
<1>5. /\ PrepareOk(W.co, Bind) /\ ReviewedPolicy(W.ctl, "csharp")
      /\ SourceInventory(W.ctl, W.co, "csharp").ok /\ Policies(W.ctl, W.co, "csharp").ok
  BY DEF Admitted
<1>6. Bind.controller = W.ctl
  BY DEF Bind
<1> HIDE DEF parsed, exit
<1>7. RunCsharpShard(W.co, Bind, shard, W.csharp, report).ok
  BY <1>3, <1>4, <1>5, <1>6 DEF RunCsharpShard, part, parsed, exit
<1> QED
  BY <1>7 DEF report, part

\* A passed gate, and a shard refused for no fault, are what the local lanes say of the world.
LanesInv ==
  ~LanesDiffer =>
    /\ st[Job("verify")] = "ok" => RustSound /\ CsharpSound
    /\ refused \cap MutationJobs # {} /\ ~tainted /\ Admitted => ~(RustSound /\ CsharpSound)

\* All of this is of the world.
LEMMA LanesFixed ==
  ASSUME W' = W
  PROVE  /\ LanesDiffer' <=> LanesDiffer
         /\ RustSound' <=> RustSound
         /\ CsharpSound' <=> CsharpSound
         /\ Admitted' <=> Admitted
<1>1. LanesDiffer' <=> LanesDiffer
  BY DEF LanesDiffer
<1>2. RustSound' <=> RustSound
  BY DEF RustSound
<1>3. Scope' = Scope /\ Mutants' = Mutants /\ (\A e : MutantAt(e)' = MutantAt(e))
  BY DEF Scope, Mutants, MutantAt
<1>4. \A files : SurvivorsIn(files)' = SurvivorsIn(files)
  BY DEF SurvivorsIn, Mutants, MutantAt
<1>5. CsharpSound' <=> CsharpSound
  BY <1>3, <1>4 DEF CsharpSound
<1>6. Admitted' <=> Admitted
  <2>1. PrepareOk(W.co, Bind)' <=> PrepareOk(W.co, Bind)
    BY DEF PrepareOk, Bind
  <2> QED
    BY <2>1 DEF Admitted
<1> QED
  BY <1>1, <1>2, <1>5, <1>6

\* What no step but a shard's does: refuse a shard, or take a fault away.
Undisturbed ==
  \/ refused' = {}
  \/ refused' \cap MutationJobs \subseteq refused /\ (tainted' = tainted \/ tainted' = TRUE)

\* That is so.
LEMMA OthersRefuseNoShard ==
  ASSUME IInv, [Next]_vars,
         ~\E shard \in Shards : RustShard(shard) \/ RustShardFault(shard) \/ CsharpShard(shard)
  PROVE  Undisturbed
<1> DEFINE Calm == tainted' = tainted \/ tainted' = TRUE
<1>1. ASSUME NEW n \in Single, NEW good, Ended(Job(n), good), Calm PROVE Undisturbed
  BY <1>1, ChainJobs DEF Ended, Undisturbed
<1>2. ASSUME NEW n \in Single, NEW good, NEW artifacts, Finish(Job(n), good, artifacts), Calm
      PROVE  Undisturbed
  BY <1>1, <1>2 DEF Finish
<1>3. CASE Preflight
  BY <1>1, <1>3 DEF Preflight, NoFault, Single
<1>4. CASE Build \/ BuildTouched
  <2>1. Calm /\ \E good, x : Finish(Job("build"), good, [art EXCEPT !.dist = x])
    BY <1>4, Zenon DEF Build, BuildTouched, BuildWith, NoFault
  <2> QED
    BY <1>2, <2>1 DEF Single
<1>5. CASE MakeSbom
  <2>1. Calm /\ \E good, x : Finish(Job("sbom"), good, x)
    BY <1>5, Zenon DEF MakeSbom, NoFault
  <2> QED
    BY <1>2, <2>1 DEF Single
<1>6. CASE VerifyMutation
  <2>1. Calm /\ \E good, x : Finish(Job("verify"), good, x)
    BY <1>6, Zenon DEF VerifyMutation, NoFault
  <2> QED
    BY <1>2, <2>1 DEF Single
<1>7. CASE StageSigning
  <2>1. Calm /\ \E good, x : Finish(Job("stage"), good, x)
    BY <1>7, Zenon DEF StageSigning, NoFault
  <2> QED
    BY <1>2, <2>1 DEF Single
<1>8. CASE CollectSigned
  <2>1. Calm /\ \E good, x : Finish(Job("collect"), good, x)
    BY <1>8, Zenon DEF CollectSigned, NoFault
  <2> QED
    BY <1>2, <2>1 DEF Single
<1>9. CASE PackageRelease
  <2>1. Calm /\ \E good, x : Finish(Job("package"), good, x)
    BY <1>9, Zenon DEF PackageRelease, NoFault
  <2> QED
    BY <1>2, <2>1 DEF Single
<1>10. CASE Sign \/ SignWrongly
  <2>1. Calm /\ Ended(Job("sign"), TRUE)
    BY <1>10, Zenon DEF Sign, SignWrongly, SignWith, NoFault
  <2> QED
    BY <1>1, <2>1 DEF Single
<1>11. CASE PublishBegin
  <2>1. Calm /\ (refused' = refused \/ Ended(Job("publish"), FALSE))
    BY <1>11 DEF PublishBegin, NoFault
  <2> QED
    BY <1>1, <2>1 DEF Single, Undisturbed
<1>12. CASE PublishDraft
  <2>1. Calm /\ \E good : Ended(Job("publish"), good)
    BY <1>12, Zenon DEF PublishDraft, NoFault
  <2> QED
    BY <1>1, <2>1 DEF Single
<1>13. CASE \E n \in AssetNames : UploadAsset(n) \/ UploadInterrupted(n)
  BY <1>13 DEF UploadAsset, UploadInterrupted, NoFault, Undisturbed
<1>14. CASE \E jobs : Again(jobs)
  BY <1>14 DEF Again, Undisturbed
<1>15. CASE \E j \in Jobs : Lost(j)
  BY <1>15 DEF Lost, Undisturbed
<1>16. CASE UNCHANGED vars
  BY <1>16 DEF vars, Undisturbed
<1>17. RerunAll \/ RerunFailed \/ (\E j \in Jobs : RerunJob(j)) => \E jobs : Again(jobs)
  BY Zenon DEF RerunAll, RerunFailed, RerunJob
<1> QED
  BY <1>3, <1>4, <1>5, <1>6, <1>7, <1>8, <1>9, <1>10, <1>11, <1>12, <1>13, <1>14, <1>15,
     <1>16, <1>17, Zenon DEF Next

\* A step that refuses no shard and lets no verifier pass.
LEMMA LanesStay ==
  ASSUME IInv, LanesInv, W' = W, Undisturbed,
         st'[Job("verify")] = "ok" => st[Job("verify")] = "ok"
  PROVE  LanesInv'
<1>1. refused' \cap MutationJobs # {} /\ ~tainted' => refused \cap MutationJobs # {} /\ ~tainted
  BY DEF Undisturbed, MutationJobs, Shards
<1> QED
  BY <1>1, LanesFixed DEF LanesInv

\* A shard: where no fault is behind it, it is refused only for what the local lane refuses.
LEMMA ShardsAgree ==
  ASSUME IInv, LanesInv, NEW shard \in Shards,
         RustShard(shard) \/ RustShardFault(shard) \/ CsharpShard(shard)
  PROVE  LanesInv'
<1> DEFINE rust == RunRustShard(W.co, Bind, shard, W.rust,
                                RustReport(ShardOf(W.rust, shard), W.fate))
           csharp == RunCsharpShard(W.co, Bind, shard, W.csharp,
                                    CsharpReport(RoundRobin(W.csharp, shard)))
<1>1. W \in Worlds
  BY DEF IInv, ShapeInv
<1>2. ~LanesDiffer /\ Admitted /\ RustSound => rust.ok
  BY <1>1, SoundRustShardPasses DEF LanesDiffer
<1>3. ~LanesDiffer /\ Admitted /\ CsharpSound => csharp.ok
  BY <1>1, SoundCsharpShardPasses
<1> HIDE DEF rust, csharp
<1>4. \E l \in {"rust", "csharp"} : \E good : W' = W /\ Ended(<<l, shard>>, good)
  BY Zenon DEF RustShard, RustShardFault, CsharpShard, RustShardWith
<1>5. PICK l \in {"rust", "csharp"} : \E good : W' = W /\ Ended(<<l, shard>>, good)
  BY <1>4
<1>6. st'[Job("verify")] = "ok" => st[Job("verify")] = "ok"
  <2>1. <<l, shard>> # Job("verify") /\ Job("verify") \in Jobs
    BY ChainJobs DEF Job, Single
  <2> QED
    BY <1>5, <2>1 DEF Ended, IInv, TypeOK
<1>7. CASE RustShard(shard)
  <2>1. W' = W /\ Ended(<<"rust", shard>>, rust.ok) /\ tainted' = tainted
    BY <1>7 DEF RustShard, RustShardWith, NoFault, rust
  <2>2. CASE rust.ok
    <3>1. Undisturbed
      BY <2>1, <2>2 DEF Ended, Undisturbed
    <3> QED
      BY <1>6, <2>1, <3>1, LanesStay
  <2>3. CASE ~rust.ok
    BY <1>2, <1>6, <2>1, <2>3, LanesFixed DEF LanesInv
  <2> QED
    BY <2>2, <2>3
<1>8. CASE RustShardFault(shard)
  <2>1. tainted' = TRUE
    BY <1>8 DEF RustShardFault
  <2> QED
    BY <1>5, <1>6, <2>1, LanesFixed DEF LanesInv
<1>9. CASE CsharpShard(shard)
  <2>1. W' = W /\ Ended(<<"csharp", shard>>, csharp.ok) /\ tainted' = tainted
    BY <1>9 DEF CsharpShard, NoFault, csharp
  <2>2. CASE csharp.ok
    <3>1. Undisturbed
      BY <2>1, <2>2 DEF Ended, Undisturbed
    <3> QED
      BY <1>6, <2>1, <3>1, LanesStay
  <2>3. CASE ~csharp.ok
    BY <1>3, <1>6, <2>1, <2>3, LanesFixed DEF LanesInv
  <2> QED
    BY <2>2, <2>3
<1> QED
  BY <1>7, <1>8, <1>9

\* The verifier passes only what the local lanes do.
LEMMA VerifierAgrees ==
  ASSUME IInv, IInv', GateInv, LanesInv, VerifyMutation, Undisturbed
  PROVE  LanesInv'
<1> DEFINE rust == VerifyRustEvidence(W.co, Bind, art.evidence["rust"])
           csharp == VerifyCsharpEvidence(W.co, Bind, W.csharp, art.evidence["csharp"])
<1>1. W \in Worlds
  BY DEF IInv, ShapeInv
<1>2. ~LanesDiffer /\ rust.ok /\ csharp.ok => RustSound /\ CsharpSound
  BY <1>1, VerifiedRustIsSound, VerifiedCsharpIsSound DEF GateInv, EvidenceInv
<1> HIDE DEF rust, csharp
<1>3. W' = W /\ Ended(Job("verify"), rust.ok /\ csharp.ok)
  BY DEF VerifyMutation, Finish, rust, csharp
<1>4. st'[Job("verify")] = "ok" => rust.ok /\ csharp.ok
  <2>1. Job("verify") \in Jobs
    BY ChainJobs DEF Single
  <2> QED
    BY <1>3, <2>1 DEF Ended, IInv, TypeOK
<1>5. refused' \cap MutationJobs # {} /\ ~tainted' => refused \cap MutationJobs # {} /\ ~tainted
  BY DEF Undisturbed, MutationJobs, Shards
<1> QED
  BY <1>2, <1>3, <1>4, <1>5, LanesFixed DEF LanesInv

\* Every step keeps it, and the first state has it.
LEMMA StepKeepsLanes ==
  IInv /\ IInv' /\ GateInv /\ LanesInv /\ [Next]_vars => LanesInv'
<1> SUFFICES ASSUME IInv, IInv', GateInv, LanesInv, [Next]_vars PROVE LanesInv'
  OBVIOUS
<1>1. CASE \E shard \in Shards : RustShard(shard) \/ RustShardFault(shard) \/ CsharpShard(shard)
  BY <1>1, ShardsAgree
<1>2. CASE ~\E shard \in Shards :
              RustShard(shard) \/ RustShardFault(shard) \/ CsharpShard(shard)
  <2>1. Undisturbed
    BY <1>2, OthersRefuseNoShard
  <2>2. CASE VerifyMutation
    BY <2>1, <2>2, VerifierAgrees
  <2>3. CASE ~VerifyMutation
    BY <1>2, <2>1, <2>3, OthersStay, LanesStay
  <2> QED
    BY <2>2, <2>3
<1> QED
  BY <1>1, <1>2

LEMMA InitHasLanes ==
  Init => LanesInv
<1> SUFFICES ASSUME Init PROVE LanesInv
  OBVIOUS
<1>1. st[Job("verify")] = "waiting" /\ refused = {}
  BY ChainJobs DEF Init, Single
<1> QED
  BY <1>1 DEF LanesInv

\* The local lanes being what they are, it says that the two agree.
LEMMA LanesInvAgree ==
  IInv /\ LanesInv => LanesAgree
<1> SUFFICES ASSUME IInv, LanesInv, ~LanesDiffer PROVE LanesAgree
  BY DEF LanesAgree
<1>1. W \in Worlds /\ W.ctl.baselines["rust"].accepted = << >>
  BY DEF IInv, ShapeInv, LanesDiffer
<1>2. (LocalRust <=> RustSound) /\ (LocalCsharp <=> CsharpSound)
  BY <1>1, LocalRustIsSound, LocalCsharpIsSound
<1> QED
  BY <1>2 DEF LanesInv, LanesAgree

\* LanesAgree: except where they are known to differ, the shards and their verifier pass a
\* commit exactly when the developer's own lanes do, however it is divided into shards and
\* whatever is lost, repeated or started again (mutation_ci.rs, mutation.rs).
THEOREM LanesJudgeAlike == Spec => []LanesAgree
BY RunKeepsItsInvariant, InitHasGate, StepKeepsGate, InitHasLanes, StepKeepsLanes,
   LanesInvAgree, PTL DEF Spec

\* GateIsRight: what passes the gate was tested as it is, and the two implementations of
\* the gate judge alike.
THEOREM GateJudgesRight == Spec => []GateIsRight
<1>1. VerifiedIsTested /\ LanesAgree => GateIsRight
  BY DEF GateIsRight
<1> QED
  BY <1>1, PassedGateIsTested, LanesJudgeAlike, PTL
=============================================================================
