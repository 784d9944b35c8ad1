----------------------------- MODULE Sbom -----------------------------
(* The two software bills of materials of a release (xtask/src/sbom.rs): which *)
(* component each file of the bundle comes from, and that the graph of         *)
(* components says so without a gap.  The Rust half merges what cargo-sbom     *)
(* wrote for each entry point; the .NET half resolves the published            *)
(* dependency file against the lock and against the restored package archives. *)
(* Documents are records: that a field is there and has its JSON type is taken *)
(* for granted, that names resolve and do not repeat is not.                   *)
EXTENDS Bundle

CONSTANTS
  CargoPackages,    \* CARGO_RAW_FILES: the entry points cargo-sbom is run for
  RustFiles,        \* the paths those entry points are shipped as
  AppFiles,         \* the other images of ours
  DeveloperCrates,  \* DEVELOPER_ONLY_CRATES
  NugetSource,      \* the one source packages may be restored from
  EngineRoot, AppRoot,   \* ENGINE_ROOT_NAME, APP_ROOT_NAME
  FileName,         \* a path in an archive |-> its last segment
  TopDirectory      \* a path in an archive |-> its first segment

ASSUME RootsAssumption == EngineRoot # AppRoot

\* Of two functions with no key in common on different values: the union.
Agreeing(fs) ==
  \A f, g \in fs : \A k \in DOMAIN f \cap DOMAIN g : f[k] = g[k]
Union(fs) ==
  [k \in UNION {DOMAIN f : f \in fs} |-> (CHOOSE f \in fs : k \in DOMAIN f)[k]]

\* validate_graph: every end of an edge is known and every component is reached from the
\* root.
Reached(root, edges) ==
  LET next(s) == s \cup UNION {edges[r] : r \in s \cap DOMAIN edges}
      after[n \in Nat] == IF n = 0 THEN {root} ELSE next(after[n - 1])
  IN after[Cardinality(DOMAIN edges)]
ValidGraph(root, refs, edges) ==
  /\ DOMAIN edges \subseteq {root} \cup refs
  /\ \A r \in DOMAIN edges : edges[r] \subseteq {root} \cup refs
  /\ Reached(root, edges) = {root} \cup refs

\* reject duplicates and unknown names of a list of dependency entries, then index it:
\* components without an entry depend on nothing.
EdgesOf(entries, refs) ==
  [r \in refs |-> UNION {Range(e.dependsOn) : e \in {x \in Range(entries) : x.ref = r}}]
ValidEntries(entries, refs) ==
  /\ \A i, j \in DOMAIN entries : entries[i].ref = entries[j].ref => i = j
  /\ \A e \in Range(entries) :
       /\ e.ref \in refs
       /\ Range(e.dependsOn) \subseteq refs
       /\ IsInjective(e.dependsOn)

(***************************************************************************)
(* The Rust half                                                           *)
(***************************************************************************)

\* parse_raw_cargo_bom: one nested root, named for the package asked for; references that
\* do not repeat; an entry for the root; everything within the closure of the root.
ParseRawCargoBom(package, bom) ==
  LET root == bom.roots[1]
      all == <<root>> \o bom.components
      components == [r \in {c.ref : c \in Range(all)} |->
                       CHOOSE c \in Range(all) : c.ref = r]
      edges == EdgesOf(bom.dependencies, DOMAIN components)
  IN IF /\ Len(bom.roots) = 1
        /\ bom.wrapper = package /\ root.name = package
        /\ \A i, j \in DOMAIN all : all[i].ref = all[j].ref => i = j
        /\ ValidEntries(bom.dependencies, DOMAIN components)
        /\ \E e \in Range(bom.dependencies) : e.ref = root.ref
        /\ ValidGraph(root.ref, DOMAIN components, edges)
     THEN [ok |-> TRUE, root |-> root, components |-> components, edges |-> edges]
     ELSE Fail

\* A BOM, with one entry for the root and for each component (build_bom, validate_final_bom).
FinalBom(root, components, edges) ==
  [root |-> root, components |-> components,
   edges |-> [r \in {root.ref} \cup DOMAIN components |->
                IF r \in DOMAIN edges THEN edges[r] ELSE {}]]

\* validate_final_bom: the right product at the right version, at least one component, the
\* root not among them, every reference resolved to a component and reached.
ValidFinalBom(bom, name, version) ==
  /\ bom.root.name = name /\ bom.root.version = version
  /\ DOMAIN bom.components # {}
  /\ bom.root.ref \notin DOMAIN bom.components
  /\ DOMAIN bom.edges = {bom.root.ref} \cup DOMAIN bom.components
  /\ \A r \in DOMAIN bom.edges : bom.edges[r] \subseteq DOMAIN bom.components
  /\ ValidGraph(bom.root.ref, DOMAIN bom.components, bom.edges)

\* file_properties: our images by their payload, so that signing them does not change what
\* the BOM says; every other file by its bytes.
FileEvidence(p, files) ==
  [path |-> p, source |-> "own",
   sha256 |-> IF files[p].payload = << >> THEN <<files[p].sha256>> ELSE << >>,
   payload |-> files[p].payload]

\* merge_cargo_boms: the union of the graphs of the entry points, under one root; they
\* share one version, the one released, agree on what they share, and hold no developer's
\* crate.
MergeCargoBoms(version, raw, files) ==
  LET graph == [p \in DOMAIN raw |-> ParseRawCargoBom(p, raw[p])]
      graphs == Range(graph)
      components == Union({g.components : g \in graphs})
      roots == {g.root.ref : g \in graphs}
      root == [ref |-> EngineRoot, name |-> EngineRoot, version |-> version,
               files |-> {FileEvidence(p, files) : p \in RustFiles}]
      edges == [r \in DOMAIN components \cup {EngineRoot} |->
                  IF r = EngineRoot THEN roots
                  ELSE UNION {g.edges[r] : g \in {x \in graphs : r \in DOMAIN x.edges}}]
  IN IF /\ DOMAIN raw = CargoPackages
        /\ \A p \in DOMAIN raw : graph[p].ok
        /\ \A p, q \in DOMAIN raw : graph[p].root.ref = graph[q].root.ref => p = q
        /\ Agreeing({g.components : g \in graphs})
        /\ {g.root.version : g \in graphs} = {version}
        /\ \A c \in Range(components) : c.name \notin DeveloperCrates
        /\ EngineRoot \notin DOMAIN components
        /\ \A p \in RustFiles : p \in DOMAIN files /\ files[p].sha256.magic
        /\ ValidFinalBom(FinalBom(root, components, edges), EngineRoot, version)
     THEN [ok |-> TRUE, bom |-> FinalBom(root, components, edges)]
     ELSE Fail

(***************************************************************************)
(* The .NET half                                                           *)
(***************************************************************************)

\* validate_download_dependency with is_exact_nuget_range: one download of the pack, whose
\* range is the one version.
LockedDownload(lock, name, version) ==
  LET downloads == SelectSeq(lock.downloads, LAMBDA d : d.name = name)
  IN Len(downloads) = 1 /\ downloads[1].range = <<version, version>>

\* dotnet_package_metadata: a package has the same content hash in the published file and
\* in the lock, at its own cache path; a runtime pack is locked as a download; a reference
\* has neither.
PackageMetadata(id, library, lock) ==
  CASE library.type = "reference" ->
         [ok |-> TRUE, cache |-> << >>, hash |-> << >>]
    [] library.type = "package" ->
         IF /\ id \in DOMAIN lock.libraries
            /\ lock.libraries[id].type = "package"
            /\ lock.libraries[id].path = id
            /\ lock.libraries[id].sha512 = library.sha512
         THEN [ok |-> TRUE, cache |-> <<id>>, hash |-> <<library.sha512>>]
         ELSE Fail
    [] library.type = "runtimepack" ->
         IF LockedDownload(lock, library.name, library.version)
         THEN [ok |-> TRUE, cache |-> <<id>>, hash |-> << >>]
         ELSE Fail
    [] OTHER -> Fail

\* parse_runtime_assets: managed and native files land in app/ under their own name, no two
\* of one package on the same; localised and per-runtime sections are not supported.
ValidRuntimeAssets(node) ==
  /\ node.unmapped = {}
  /\ \A a, b \in node.assets : Folded[a.output] = Folded[b.output] => a = b

\* parse_dotnet_graph with resolve_dotnet_dependencies: exactly one project, the app; every
\* other node of a supported kind with valid metadata and assets; every dependency on
\* another node, never on the project.
ParseDotnetGraph(deps, lock) ==
  LET roots == {id \in DOMAIN deps : deps[id].type = "project"}
      root == CHOOSE id \in roots : TRUE
      nodes == DOMAIN deps \ roots
      metadata == [id \in nodes |-> PackageMetadata(id, deps[id], lock)]
  IN IF /\ Cardinality(roots) = 1
        /\ deps[root].name = AppRoot
        /\ \A id \in nodes : metadata[id].ok /\ ValidRuntimeAssets(deps[id])
        /\ \A id \in DOMAIN deps : deps[id].dependencies \subseteq nodes
     THEN [ok |-> TRUE, version |-> deps[root].version,
           rootDependencies |-> deps[root].dependencies,
           nodes |-> [id \in nodes |->
                        [kind |-> deps[id].type, name |-> deps[id].name,
                         version |-> deps[id].version, assets |-> deps[id].assets,
                         dependencies |-> deps[id].dependencies,
                         cache |-> metadata[id].cache, hash |-> metadata[id].hash]]]
     ELSE Fail

\* load_package_inventory: the package is in one cache, from the one source, with the hash
\* the lock names and one archive; what is extracted beside the archive is what it holds.
LoadPackageInventory(node, caches) ==
  LET holding == {c \in DOMAIN caches : node.cache[1] \in DOMAIN caches[c]}
      dir == caches[CHOOSE c \in holding : TRUE][node.cache[1]]
  IN IF /\ Cardinality(holding) = 1
        /\ dir.source = NugetSource
        /\ node.hash # << >> => dir.contentHash = node.hash[1]
        /\ Len(dir.archives) = 1
        /\ LET files == dir.archives[1]
           IN /\ DOMAIN files # {}
              /\ \A p, q \in DOMAIN files : Folded[p] = Folded[q] => p = q
              /\ \A p \in DOMAIN files \cap DOMAIN dir.extracted :
                   dir.extracted[p] = files[p]
     THEN [ok |-> TRUE, hash |-> dir.contentHash, files |-> dir.archives[1],
           \* a FileVersion is read from the extracted file, so only where there is one
           versioned |-> DOMAIN dir.extracted]
     ELSE Fail

\* load_package_inventories: one for every node that is more than a reference.
LoadPackageInventories(graph, caches) ==
  LET owners == {id \in DOMAIN graph.nodes : graph.nodes[id].kind # "reference"}
      loaded == [id \in owners |-> LoadPackageInventory(graph.nodes[id], caches)]
  IN IF \A id \in owners : loaded[id].ok THEN [ok |-> TRUE, of |-> loaded] ELSE Fail

\* is_runtime_source_path: lib/, metadata/, runtimes/ and runtimes-framework/ of an archive.
IsRuntimeSource(p) == TopDirectory[p] \in {"lib", "metadata", "runtimes", "runtimes-framework"}

\* find_declared_source: the file of the archive an asset names, or else the one with its
\* name; in neither case one that is there for builds only.
FindDeclaredSource(inventory, asset) ==
  LET paths == DOMAIN inventory.files
      named == {p \in paths : FileName[p] = FileName[asset.source]}
      found == IF asset.source \in paths THEN {asset.source} ELSE named
  IN IF Cardinality(found) = 1 /\ \A p \in found : IsRuntimeSource(p)
     THEN [ok |-> TRUE, path |-> CHOOSE p \in found : TRUE] ELSE Fail

\* assign_first_party: every image of ours is an image and belongs to the app or to Rust.
FirstPartyAssignments(files) ==
  IF /\ Targets \subseteq DOMAIN files
     /\ \A p \in Targets : files[p].sha256.magic /\ files[p].payload # << >>
     /\ Targets = AppFiles \cup RustFiles
  THEN [ok |-> TRUE,
        of |-> [p \in Targets |-> [owner |-> IF p \in RustFiles THEN "rust" ELSE "app",
                                   id |-> << >>, source |-> << >>, transformed |-> FALSE]]]
  ELSE Fail

\* build_app_bom, attribution by bytes: a file that one package's runtime files hold
\* byte for byte is that package's; two packages holding it are an error.
HoldersOf(f, inventories) ==
  {id \in DOMAIN inventories :
     \E p \in DOMAIN inventories[id].files :
       IsRuntimeSource(p) /\ inventories[id].files[p] = f}
FirstHolderAssignments(files, taken, inventories) ==   \* Mutant: any holder will do.
  LET held == {p \in DOMAIN files \ DOMAIN taken :
                 HoldersOf(files[p].sha256, inventories) # {}}
      owner(p) == CHOOSE id \in HoldersOf(files[p].sha256, inventories) : TRUE
  IN [ok |-> TRUE,
      of |-> [p \in DOMAIN taken \cup held |->
                IF p \in DOMAIN taken THEN taken[p]
                ELSE [owner |-> "package", id |-> <<owner(p)>>,
                      source |-> <<files[p].sha256>>, transformed |-> FALSE]]]
HashAssignments(files, taken, inventories) ==
  LET held == {p \in DOMAIN files \ DOMAIN taken :
                 HoldersOf(files[p].sha256, inventories) # {}}
      owner(p) == CHOOSE id \in HoldersOf(files[p].sha256, inventories) : TRUE
      source(p) == CHOOSE s \in DOMAIN inventories[owner(p)].files :
                     IsRuntimeSource(s) /\ inventories[owner(p)].files[s] = files[p].sha256
  IN IF \A p \in held : Cardinality(HoldersOf(files[p].sha256, inventories)) = 1
     THEN [ok |-> TRUE,
           of |-> [p \in DOMAIN taken \cup held |->
                     IF p \in DOMAIN taken THEN taken[p]
                     ELSE [owner |-> "package", id |-> <<owner(p)>>,
                           source |-> <<inventories[owner(p)].files[source(p)]>>,
                           transformed |-> FALSE]]]
     ELSE Fail

\* reconcile_declared_assets, one asset: compiled ahead of time (ReadyToRun), the shipped
\* image is not the package's, but it has the metadata of the assembly the package declares,
\* and the declared, packaged and shipped file versions are one.
Transformed(asset, node, file, inventory) ==
  LET found == FindDeclaredSource(inventory, asset)
      source == inventory.files[found.path]
  IN /\ node.kind # "reference"
     /\ asset.managed /\ asset.assemblyVersion
     /\ asset.fileVersion # << >>
     /\ file.magic
     /\ found.ok
     /\ source.magic /\ source # file
     /\ source.il # "" /\ source.il = file.il
     /\ found.path \in inventory.versioned
     /\ source.version = asset.fileVersion[1] /\ file.version = asset.fileVersion[1]

\* The assets the nodes declare, each with its node, and one for an output.
Claims(graph) == UNION {{id} \X graph.nodes[id].assets : id \in DOMAIN graph.nodes}
ClaimOn(output, claims) == CHOOSE c \in claims : c[2].output = output

\* reconcile_declared_assets: nothing pruned ships; no two nodes declare one output; every
\* declared asset is pruned, is its node's already, or is its node's image transformed.
ReconcileDeclaredAssets(graph, inventories, files, taken) ==
  LET claims == Claims(graph)
      open == {c \in claims : c[2].output \in DOMAIN files \ DOMAIN taken}
      Source(c) == inventories[c[1]].files[FindDeclaredSource(inventories[c[1]], c[2]).path]
      Compiled(c) == [owner |-> "package", id |-> <<c[1]>>, source |-> <<Source(c)>>,
                      transformed |-> TRUE]
  IN IF /\ Pruned \cap DOMAIN files = {}
        /\ \A c, d \in claims : c[2].output = d[2].output => c[1] = d[1]
        /\ \A c \in claims : c[2].output \in DOMAIN files \cup Pruned
        /\ \A c \in claims :
             /\ c[2].output \in DOMAIN files => graph.nodes[c[1]].kind # "reference"
             /\ c[2].output \in DOMAIN taken => taken[c[2].output].id = <<c[1]>>
        /\ \A c \in open : Transformed(c[2], graph.nodes[c[1]], files[c[2].output].sha256,
                                       inventories[c[1]])
     THEN [ok |-> TRUE,
           of |-> [p \in DOMAIN taken \cup {c[2].output : c \in open} |->
                     IF p \in DOMAIN taken THEN taken[p] ELSE Compiled(ClaimOn(p, open))]]
     ELSE Fail

\* build_app_bom, the rest: a file nobody owns is the app's unless it is an image.
AssignTheRest(files, taken) ==
  IF \E p \in DOMAIN files \ DOMAIN taken : files[p].sha256.magic THEN Fail
  ELSE [ok |-> TRUE,
        of |-> [p \in DOMAIN files |->
                  IF p \in DOMAIN taken THEN taken[p]
                  ELSE [owner |-> "app", id |-> << >>, source |-> << >>,
                        transformed |-> FALSE]]]

\* build_app_bom, attribution: each file of the bundle gets exactly one owner.
Assignments(graph, inventories, files) ==
  LET Rest(declared) == IF declared.ok THEN AssignTheRest(files, declared.of) ELSE Fail
      Declared(hashed) ==
        IF hashed.ok THEN Rest(ReconcileDeclaredAssets(graph, inventories, files, hashed.of))
        ELSE Fail
      Hashed(own) ==
        IF own.ok THEN Declared(HashAssignments(files, own.of, inventories)) ELSE Fail
  IN Hashed(FirstPartyAssignments(files))

\* build_app_bom, the document: a component for each node that owns a shipped file, with
\* the files and where they came from; the other nodes and the edges to them are left out.
AppBom(version, graph, inventories, files, assigned) ==
  LET owned(id) == {p \in DOMAIN files : assigned[p].id = <<id>>}
      included == {id \in DOMAIN graph.nodes : owned(id) # {}}
      evidence(p) == [path |-> p, sha256 |-> <<files[p].sha256>>, payload |-> << >>,
                      source |-> IF assigned[p].transformed THEN "ready-to-run" ELSE "exact"]
      root == [ref |-> AppRoot, name |-> AppRoot, version |-> version,
               files |-> {FileEvidence(p, files) : p \in
                            {q \in DOMAIN files : assigned[q].owner = "app"}}]
  IN FinalBom(root,
       [id \in included |->
          [ref |-> id, name |-> graph.nodes[id].name, version |-> graph.nodes[id].version,
           hash |-> inventories[id].hash, files |-> {evidence(p) : p \in owned(id)}]],
       [r \in included \cup {AppRoot} |->
          included \cap (IF r = AppRoot THEN graph.rootDependencies
                         ELSE graph.nodes[r].dependencies)])

\* build_app_bom: the root is the app at the version released.
BuildAppBom(version, graph, inventories, files) ==
  LET Valid(bom) == IF ValidFinalBom(bom, AppRoot, version) THEN [ok |-> TRUE, bom |-> bom] ELSE Fail
      Attributed(assigned) ==
        IF assigned.ok THEN Valid(AppBom(version, graph, inventories, files, assigned.of))
        ELSE Fail
  IN IF graph.version = version THEN Attributed(Assignments(graph, inventories, files)) ELSE Fail

\* collect_dist_files: the unsigned bundle, without an empty file.
CollectDistFiles(tree) ==
  LET found == CollectBundleFiles(tree, "unsigned")
  IN IF found.ok /\ \A p \in DOMAIN tree : tree[p].length > 0 THEN found ELSE Fail

\* verify_final_pair_at: exactly the two documents, each of its product at the version.
VerifyFinalPair(boms, version) ==
  /\ DOMAIN boms = {"engine", "app"}
  /\ ValidFinalBom(boms["engine"], EngineRoot, version)
  /\ ValidFinalBom(boms["app"], AppRoot, version)

\* run: both BOMs of one bundle, written together and read back.
RunSbom(version, tree, raw, deps, lock, caches) ==
  LET Pair(boms) ==
        IF VerifyFinalPair(boms, version) THEN [ok |-> TRUE, boms |-> boms] ELSE Fail
      Both(engine, app) ==
        IF engine.ok /\ app.ok
        THEN Pair([d \in {"engine", "app"} |-> IF d = "engine" THEN engine.bom ELSE app.bom])
        ELSE Fail
      App(graph, inventories, files) ==
        IF inventories.ok THEN BuildAppBom(version, graph, inventories.of, files) ELSE Fail
      Graph(graph, files) ==
        IF graph.ok THEN App(graph, LoadPackageInventories(graph, caches), files) ELSE Fail
      Files(files) ==
        IF files.ok
        THEN Both(MergeCargoBoms(version, raw, files.files),
                  Graph(ParseDotnetGraph(deps, lock), files.files))
        ELSE Fail
  IN Files(CollectDistFiles(tree))
=============================================================================
