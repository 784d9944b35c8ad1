------------------------ MODULE MCReleasePipeline ------------------------
(* A small release: three images of ours, three packages, two entry points of    *)
(* Rust, two shards of each mutation lane; and the worlds it is tried in, one    *)
(* with nothing wrong and others that differ from it in one thing.               *)
EXTENDS ReleasePipeline

MCFirstParty ==
  [p \in {Launcher, Service, Managed} |->
     CASE p = Launcher -> "FindMyFiles.exe"
       [] p = Service -> "fmf-service.exe"
       [] p = Managed -> "app-FindMyFiles.dll"]

Xbf == "app/Main.xbf"
Pri == "app/resources.pri"
Native == "app/native.dll"
Lib == "app/lib.dll"
Runtime == "app/rt.dll"
Culture == "app/de/lib.mui"
Seams == "app/test-seams"
Cli == "app/fmf.exe"
Twin == "app/RESOURCES.pri"
Stray == "app/stray.dll"

LibDll == "lib/lib.dll"
NativeDll == "runtimes/native.dll"
NativeCopy == "build/native.dll"
RuntimeDll == "runtimes/rt.dll"

ArchivePaths == {LibDll, NativeDll, NativeCopy, RuntimeDll}
BundlePaths == {Launcher, Service, Managed, BuildInfo, Readme, Licence, Notices, Xbf, Pri,
                Native, Lib, Runtime, Culture, Seams, Cli, Twin, Stray}
MCFolded == [p \in ArchivePaths \cup BundlePaths |-> IF p = Twin THEN Pri ELSE p]
MCFileName == [p \in ArchivePaths |->
                 CASE p = LibDll -> "lib.dll" [] p = RuntimeDll -> "rt.dll"
                   [] OTHER -> "native.dll"]
MCTopDirectory == [p \in ArchivePaths |->
                     CASE p = LibDll -> "lib" [] p = NativeCopy -> "build"
                       [] OTHER -> "runtimes"]

Text(part) ==
  [kind |-> "file", part |-> part, build |-> 0, version |-> "", commits |-> << >>,
   pin |-> << >>, loads |-> "", magic |-> FALSE, length |-> 4, headers |-> 0, raw |-> {},
   table |-> [at |-> 0, size |-> 0], certs |-> << >>, il |-> ""]
Image(part) ==
  [Text(part) EXCEPT !.magic = TRUE, !.length = 6, !.headers = 2,
                     !.raw = {[at |-> 2, size |-> 4]}, !.version = "1.2.0"]
Assembly(part, il) == [Image(part) EXCEPT !.il = il]

Packaged == Image("native")
LibIl == Assembly("lib", "lib")
LibReady == Assembly("lib ready to run", "lib")
RuntimeImage == Image("rt")

Emitted ==
  [p \in {Managed, Xbf, Pri, Native, Lib, Runtime, Culture} |->
     CASE p = Managed -> Assembly("app", "app")
       [] p = Native -> Packaged
       [] p = Lib -> LibReady
       [] p = Runtime -> RuntimeImage
       [] OTHER -> Text(p)]

With(f, x, v) == [y \in DOMAIN f \cup {x} |-> IF y = x THEN v ELSE f[y]]
Without(f, x) == [y \in DOMAIN f \ {x} |-> f[y]]

Asset(output, source) ==
  [output |-> output, source |-> source, managed |-> output = Lib,
   assemblyVersion |-> output = Lib, fileVersion |-> IF output = Lib THEN <<"1.2.0">> ELSE << >>]
Node(type, name, dependencies, assets) ==
  [type |-> type, name |-> name, version |-> "1.2.0", dependencies |-> dependencies,
   assets |-> assets, unmapped |-> {}, sha512 |-> "hash of " \o name]
PackageDir(name, files) ==
  [source |-> NugetSource, contentHash |-> "hash of " \o name, archives |-> <<files>>,
   extracted |-> files]

Crate(name) == [ref |-> name \o "@1.2.0", name |-> name, version |-> "1.2.0"]
RawBom(package) ==
  [roots |-> <<Crate(package)>>, wrapper |-> package,
   components |-> <<Crate("fmf-core")>>,
   dependencies |-> <<[ref |-> package \o "@1.2.0", dependsOn |-> <<"fmf-core@1.2.0">>],
                      [ref |-> "fmf-core@1.2.0", dependsOn |-> << >>]>>]

RustMutant(path, line) == [path |-> path, line |-> line, column |-> 5, mutation |-> "m"]
RustMutants == <<RustMutant("a.rs", 1), RustMutant("a.rs", 2), RustMutant("b.rs", 1)>>
Accepted(m) == [m EXCEPT !.column = <<m.column>>]
CsharpMutant(path, n) == [path |-> path, at |-> n]
Stryker(path, n, status) ==
  [id |-> path \o ToString(n), mutant |-> CsharpMutant(path, n), status |-> status,
   ran |-> FALSE]

Tracked ==
  [p \in {"a.rs", "b.rs", "c.rs", "A.cs", "B.cs", "C.cs", "engine/.cargo/config.toml",
          "engine/Cargo.lock", "stryker-config.json"} |-> "code"]
TheController ==
  [commit |-> "main", files |-> Tracked,
   baselines |-> [l \in {"rust", "csharp"} |->
                    IF l = "rust" THEN [files |-> <<"a.rs", "b.rs">>, accepted |-> << >>]
                    ELSE [files |-> <<"A.cs", "B.cs">>,
                          accepted |-> <<CsharpMutant("B.cs", 1)>>]],
   patterns |-> <<"A.cs", "B.cs">>]

Clean ==
  [sound |-> TRUE, faulty |-> TRUE, tag |-> "1.2.0", target |-> "rel", head |-> <<"rel">>,
   manifest |-> "1.2.0", workspace |-> "1.2.0", csproj |-> <<"1.2.0">>,
   members |-> {"fmf-core", "fmf-service"},
   lock |-> {[name |-> n, source |-> "local", version |-> "1.2.0"] :
               n \in {"fmf-core", "fmf-service"}}
            \cup {[name |-> "serde", source |-> "registry", version |-> "1.0.0"]},
   engine |-> [p \in {Launcher, Service} |->
                 IF p = Service THEN [Image(p) EXCEPT !.loads = "system32"] ELSE Image(p)],
   Emit |-> [s \in BOOLEAN |-> IF s THEN With(Emitted, Seams, Text(Seams)) ELSE Emitted],
   texts |-> [p \in {BuildInfo, Readme, Licence, Notices} |->
                IF p = Readme THEN Text("readme") ELSE Text(p)],
   xaml |-> {Xbf},
   raw |-> [p \in CargoPackages |-> RawBom(p)],
   deps |-> [id \in {"app", "native", "lib", "rt", "ref"} |->
               CASE id = "app" -> Node("project", AppRoot, {"native", "lib", "ref"}, {})
                 [] id = "native" -> Node("package", "native", {}, {Asset(Native, NativeDll)})
                 [] id = "lib" -> Node("package", "lib", {"rt"}, {Asset(Lib, LibDll)})
                 [] id = "rt" -> Node("runtimepack", "rt", {}, {Asset(Runtime, "rt.dll")})
                 [] id = "ref" -> Node("reference", "ref", {}, {})],
   nuget |-> [libraries |-> [id \in {"native", "lib"} |->
                               [type |-> "package", path |-> id, sha512 |-> "hash of " \o id]],
              downloads |-> <<[name |-> "rt", range |-> <<"1.2.0", "1.2.0">>]>>],
   caches |-> [c \in {"global", "offline"} |->
                 IF c = "offline" THEN << >>
                 ELSE [id \in {"native", "lib", "rt"} |->
                         PackageDir(id,
                           CASE id = "native" -> (NativeDll :> Packaged) @@ (NativeCopy :> Packaged)
                             [] id = "lib" -> LibDll :> LibIl
                             [] id = "rt" -> RuntimeDll :> RuntimeImage)]],
   co |-> [commit |-> "rel", dirty |-> FALSE, tracked |-> Tracked],
   ctl |-> TheController,
   rust |-> RustMutants,
   fate |-> [m \in Range(RustMutants) |-> IF m.line = 2 THEN "Unviable" ELSE "CaughtMutant"],
   csharp |-> <<"A.cs", "B.cs">>,
   stryker |-> [p \in {"A.cs", "B.cs", "C.cs"} |->
                  CASE p = "A.cs" -> <<Stryker(p, 1, "Killed"), Stryker(p, 2, "Redundant")>>
                    [] p = "B.cs" -> <<Stryker(p, 1, "Survived"), Stryker(p, 2, "CompileError")>>
                    [] p = "C.cs" -> <<Stryker(p, 1, "Killed")>>]]

\* A world in which nothing is wrong although it is unlike Clean: one reviewed C# file, so
\* that a shard has none; no culture to prune; sources that were not built.
Other ==
  [Clean EXCEPT !.faulty = FALSE,
     !.ctl.baselines["csharp"] = [files |-> <<"A.cs">>, accepted |-> << >>],
     !.ctl.patterns = <<"A.cs">>,
     !.csharp = <<"A.cs">>,
     !.Emit = [s \in BOOLEAN |-> Without(@[s], Culture)]]

ShippedWith(p, f) == [Clean EXCEPT !.Emit = [s \in BOOLEAN |-> With(@[s], p, f)]]
ShippedWithout(p) == [Clean EXCEPT !.Emit = [s \in BOOLEAN |-> Without(@[s], p)]]

BundleWorlds ==
  <<[Clean EXCEPT !.manifest = "1.1.0"],
    [Clean EXCEPT !.workspace = "1.1.0"],
    [Clean EXCEPT !.csproj = <<"1.2.0", "1.1.0">>],
    [Clean EXCEPT !.lock = {[p EXCEPT !.version = "1.1.0"] : p \in @}],
    [Clean EXCEPT !.head = << >>],
    [Clean EXCEPT !.engine[Launcher].version = "1.1.0"],
    [Clean EXCEPT !.engine[Service].loads = "anywhere"],
    [Clean EXCEPT !.engine[Service].length = 5],
    ShippedWithout(Xbf),
    ShippedWithout(Managed),
    ShippedWith(Twin, Text("twin")),
    ShippedWith(Cli, Image("cli")),
    ShippedWith(Seams, Text(Seams)),
    ShippedWith(Pri, [Text(Pri) EXCEPT !.kind = "link"])>>

SbomWorlds ==
  <<ShippedWith(Stray, Image("stray")),
    ShippedWith(Lib, Assembly("lib ready to run", "another lib")),
    ShippedWith(Lib, [LibReady EXCEPT !.version = "1.1.0"]),
    [Clean EXCEPT !.caches["global"]["rt"] =
       PackageDir("rt", (RuntimeDll :> RuntimeImage) @@ (NativeDll :> Packaged))],
    [Clean EXCEPT !.caches["global"] = Without(@, "lib")],
    [Clean EXCEPT !.caches["offline"] = "lib" :> Clean.caches["global"]["lib"]],
    [Clean EXCEPT !.caches["global"]["native"].source = "elsewhere"],
    [Clean EXCEPT !.caches["global"]["native"].contentHash = "another"],
    [Clean EXCEPT !.caches["global"]["native"].extracted = NativeDll :> Image("patched")],
    [Clean EXCEPT !.nuget.downloads = << >>],
    [Clean EXCEPT !.nuget.libraries["lib"].sha512 = "another"],
    [Clean EXCEPT !.deps["app"].dependencies = {"native"}],
    [Clean EXCEPT !.deps["app"].version = "1.1.0"],
    [Clean EXCEPT !.deps["ref"].assets = {Asset(Native, NativeDll)}],
    [Clean EXCEPT !.raw["fmf-service"].components = @ \o <<Crate("fmf-cli")>>],
    [Clean EXCEPT !.raw["fmf-service"].components = @ \o <<Crate("xtask")>>,
                  !.raw["fmf-service"].dependencies =
                    <<[@[1] EXCEPT !.dependsOn = @ \o <<"xtask@1.2.0">>], @[2]>>]>>

MutationWorlds ==
  <<[Clean EXCEPT !.fate[RustMutants[3]] = "MissedMutant"],
    [Clean EXCEPT !.fate[RustMutants[3]] = "MissedMutant",
                  !.ctl.baselines["rust"].accepted = <<Accepted(RustMutants[3])>>],
    [Clean EXCEPT !.ctl.baselines["rust"].accepted = <<Accepted(RustMutant("b.rs", 9))>>],
    [Clean EXCEPT !.co.tracked["c.rs"] = "skip"],
    [Clean EXCEPT !.co.tracked["engine/Cargo.lock"] = "other"],
    [Clean EXCEPT !.co.tracked = With(@, "global.json", "tools")],
    [Clean EXCEPT !.co.dirty = TRUE],
    [Clean EXCEPT !.co.tracked = Without(@, "b.rs"), !.rust = SubSeq(@, 1, 2)],
    [Clean EXCEPT !.rust = SubSeq(@, 1, 2)],
    [Clean EXCEPT !.rust = @ \o <<RustMutant("c.rs", 1)>>,
                  !.fate = With(@, RustMutant("c.rs", 1), "CaughtMutant")],
    [Clean EXCEPT !.stryker["A.cs"] = << >>],
    [Clean EXCEPT !.stryker["A.cs"][1].status = "Survived"],
    [Clean EXCEPT !.stryker["A.cs"][1].status = "NoCoverage"],
    [Clean EXCEPT !.stryker["A.cs"][1].status = "Ignored"],
    [Clean EXCEPT !.stryker["B.cs"][1].status = "Killed"],
    [Clean EXCEPT !.stryker["C.cs"][1].ran = TRUE]>>

MCWorlds ==
  {Clean, Other} \cup
  {[w EXCEPT !.sound = FALSE, !.faulty = FALSE] :
     w \in Range(BundleWorlds \o SbomWorlds \o MutationWorlds)}
MCCopiedFor == [l \in {"rust", "csharp"} |-> {"a.rs", "b.rs", "c.rs", "A.cs", "B.cs", "C.cs"}]
=============================================================================
