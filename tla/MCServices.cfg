SPECIFICATION Spec
CONSTANTS
  \* spoken files
  clip = clip
  lasting = lasting
  Streams <- AllStreams
  Lasting = {lasting}
  DefaultLife = 2
  MaxClock = 2
  Nothing = Nothing
  Nodes = {n1, n2}
  Keys = {k1}
  Texts = {t1}
  Namespace <- OneNamespace
  Takes = {1, 2}
  MaxRevisions = 2
  \* setup
  Cores = {core}
  NoCore = NoCore
  MaxSessions = 2
  NoBundle = NoBundle
  Slots = {s1}
  \* speaker profiles
  Publics = {anna, bert}
  ProfileIds = {1, 2}
  NoProfile = NoProfile
  Providers = {signal, ecapa, other}
  Installed = {signal, ecapa}
  Signal = signal
  Candidates = {candidate}
  MaxLearned = 2
  \* pairing
  Devices = {d1, d2}
  NoDevice = NoDevice
  PairingSessions = {pairing}
  NoSession = NoSession
  Addresses = {a1}
  NoAddress = NoAddress
  Networks = {w1}
  NoNetwork = NoNetwork
  MaxLeases = 1
  MaxOffers = 2
  \* intents
  builtin = builtin
  weatherIntent = weatherIntent
  Builtins <- OneBuiltin
  Admin = {builtin}
  Confirmations = {}
  GlobalShort = {weatherIntent}
  Services = {weatherIntent}
  Slotted = {builtin}
  Turns = {turn}
  Loop = loop
  NoIntentId = NoIntentId
  MaxUses = 1
  \* media
  MediaAssets = {logo, beep}
  Beep = beep
  MediaFiles <- SomeFiles
  MediaTakes = {1, 2}
  Uploaders = {u1, u2}
  Panels = {panel}
  MaxTransfers = 2
  \* placement
  Durations = {1, 2}
  Retentions = {1}
  MaxWindows = 2
  MaxSamples = 1
  MaxRecords = 2
  Month = 1
  MaxDate = 2
  MaxOpened = 3
  MaxSessionId = 2
INVARIANTS
  FilesInv
  GrantsInv
CHECK_DEADLOCK FALSE
