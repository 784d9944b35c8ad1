SPECIFICATION Spec
CONSTANTS
  FirstParty <- MCFirstParty
  Required = {"app/FindMyFiles.dll", "app/resources.pri", "app/fmf-service.exe"}
  Pruned = {"app/de/lib.mui"}
  TestOnly = {"app/test-seams"}
  Developer = {"app/fmf.exe"}
  Folded <- MCFolded
  Canonical = {"1.1.0", "1.2.0"}
  Commits = {"rel", "main"}
  CargoPackages = {"fmf-service", "fmf-launcher"}
  RustFiles = {"FindMyFiles.exe", "app/fmf-service.exe"}
  AppFiles = {"app/FindMyFiles.dll"}
  DeveloperCrates = {"xtask"}
  NugetSource = "nuget.org"
  EngineRoot = "fmf-engine"
  AppRoot = "FindMyFiles"
  FileName <- MCFileName
  TopDirectory <- MCTopDirectory
  ShardCount = 2
  RustProduction = {"a.rs", "b.rs", "c.rs"}
  ForbiddenConfigs = {"global.json", "engine/.cargo/config.toml"}
  TrustedConfigs = {"engine/.cargo/config.toml"}
  RustControls = {"engine/.cargo/config.toml", "engine/Cargo.lock"}
  CsharpControls = {"stryker-config.json"}
  CopiedFor <- MCCopiedFor
  Worlds <- MCWorlds
  MaxAttempts = 3
  MaxFaults = 1
  SignerName = "P4suta"
CHECK_DEADLOCK FALSE
INVARIANTS
  PublishedIsSound
  SbomMatchesShipped
  
  
