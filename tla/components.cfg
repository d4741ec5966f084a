SPECIFICATION Spec
CHECK_DEADLOCK FALSE
CONSTANTS
  ChunkJobs <- MCJobs
  MaxFrames = 4
  ChunkFrames = 2
  ChunkFaults = {"gpu", "cut", "short", "run", "oom", "cancel"}
  Targets = {3, 4}
  Native = 4
  RunChunks = 3
  RunFaults = {"oom", "gpu", "short", "kill"}
  Routes = {"resident", "plain"}
  Layers = {"still", "loop", "fast", "once"}
  Media <- MCMedia
  Frames = 5
  MaxExports = 2
  ExportFaults = {"gpu", "decode", "encode", "disk", "bench"}
  MaxEdits = 2
  WindowFaults = {"render", "export", "profile"}
  Counts = {2, 5}
  Radius = 1
  RestoreFaults = {"count", "media", "short", "disk"}
  MaxRuns = 2
  LoopFaults = {"media", "unlink"}
  Pids = {1, 2, 3, 4}
  MaxScans = 2
  TreeFaults = {"table", "taskkill", "stubborn", "group", "unkillable"}
  TimedStages = {"x", "y"}
  MaxEvents = 3
  MaxTime = 3
  MaxSamples = 2
  Join = 1
  Renders = {"p", "q"}
  Stems = {"bass", "drums"}
  Quota = 3
  CacheStarts = 3
  CacheFaults = {"disk", "demucs", "kill"}
  Lengths = {1, 2}
  MaxCrashes = 2
  CopyFaults = {"space", "tamper"}
  Parts = {"launcher", "code"}
  Launcher = "launcher"
  MaxStages = 2
  UpdateFaults = {"network", "launch", "apply", "second"}
  Versions = {"v1", "v2"}
  SizeOf <- MCSizes
  MaxCalls = 3
  InstallFaults = {"network", "corrupt", "disk", "tamper"}
  Processes = {"p", "q"}
  MaxStarts = 4
  HistoryStarts = 2
  HistoryFaults = {"disk", "store", "rot", "render", "crash"}
  Kinds = {"rife", "esrgan", "cpu", "media", "encode", "trt"}
  Keys = {"a", "b"}
  Benchmarks = {"b"}
  EvidenceRenders = {"r"}
  Seconds = {100, 115}
  EvidenceFaults = {"rot", "kill", "store", "gpu"}
  ListEdits = 3
  StateCrashes = 1
  StateFaults = {"rot", "disk", "newer"}
INVARIANTS
  TypesOK
  FramesWhole
  DoneIsWhole
  
  RecordsTrue
  PoliciesEarned
  NothingOutlives
PROPERTIES
  
  NothingThrownAway
  OneInstance
  PreviewSettles
  EverythingEnds
