SPECIFICATION ServicesSpec
CONSTANTS
  Proc = {p1, p2, p3}
  Pid = {i1, i2, i3, i4}
  NoFile = NoFile
  NoPid = NoPid
  WarnDie = 78
  MaxDie = 84
  WarnBoard = 85
  MaxBoard = 90
  ThermalLaneMin = 2
  BatchMinScale = 60
  Reference = 1100
  FullPackRatio = 35
  HighDiffStart = 150
  HighDiffFull = 190
  MaxTighten = 12
  TotalMib = 32768
  TargetMib = 27852
  EmergencyMib = 31129
  MinHeadroomMib = 1024
  HeadroomMib = 2048
  Degrees = {0, 65, 74, 76, 79, 82, 84, 87, 90}
  Used = {20000, 29000, 30800, 31129}
  Difficulties = {100, 700, 1800, 2100}
  Planned = {1, 5}
  Batch = 1000
  CpuLanes = 2
  RampStep = 1
  Sampled = {0, 20000, 27000, 29000}
  MaxLanes = 2
  MaxRounds = 2
  TargetPct = 90
  MinPct = 75
  LowDifficulty = 100
  DerateRatio = 150
  MinLimit = 200000
  MaxLimit = 600000
  OwnLimit = 520000
  Felt = {65, 70, 75, 80}
  MaxBoosts = 2
  HourLen = 2
  KeepHours = 2
  KeepOutages = 6
  MaxOutages = 2
  DayHours = 2
  DisplayHours = 1
  LastProbe = 8
  Template = "example"
  MaxStarts = 3
  QueueMax = 2
  BackfillRows = 2
  WeekLen = 2
  LastDay = 1
  MaxAccepts = 2
  MaxBeats = 1
  MaxSessions = 2
  Token = {"XNM", "XUNI"}
  DayLen = 2
  Interval = 1
  LastTick = 4
  Latest = 11
  Rows = 2
  MaxCrashes = 2
  Cards = {4096, 12288}
  Engines = {"native", "copies"}
  TargetShare = 6909
  HeadroomShare = 2512
  EmergencyShare = 9278
  MinHeadroomShare = 368
  OverheadShare = 628
  HeadroomFloor = 512
  OverheadFloor = 256
  EmergencyFloor = 256
  Margin = 512
  LaneLimit = 3
  MinBatch = 2048
  FillLow = 60
  FillRef = 95
  FillHigh = 85
  VramMinScale = 55
  Context = 300
  OtherUse = {500, 3000}
  MaxChanges = 3
  Retargets = {100, 700, 1800}
  Worker = {w1, w2}
  Wallet = {a1, a2}
  NoWallet = NoWallet
  Keep = 1
  Snapshots = 3
  MaxEvents = 4
CONSTRAINT FirstComers
SYMMETRY Alike
INVARIANTS ServicesTypeOK SerialStartsExclude HolderOnRecord DeratesInOrder IdleMeansHit LimitKept RecordAddsUp IdentityKept AcceptsCountedOnce SnapshotsAreRead MigrationKept PlanFitsCard ChartAddsUp
PROPERTIES MoreHeatNeverMoreWork HotNeverRaises NeverGoesBack PastDaysFixed
CHECK_DEADLOCK FALSE
