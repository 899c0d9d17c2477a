SPECIFICATION Spec
CONSTANTS
  N = 2
  QueueSize = 1
  Pending = 2
  Links = 2
  Failures = 1
  Nothing = Nothing
  Spoken = {t1}
  Touched = {t2}
  Remembered = 1
  InFlight = 3
  \* the panels
  panel = panel
  sunny = sunny
  windy = windy
  fine = fine
  failed = failed
  Forecasts <- TwoForecasts
  Place <- TwoPlaces
  FetchedAt <- FetchTimes
  NoForecast = NoForecast
  Results <- TwoResults
  NamedBy <- Naming
  PanelOf <- OnePanel
  Panels = {panel}
  Waitless = Waitless
  Pressed = Pressed
  MaxSeen = 2
  TouchPanels = {panel}
  Dialogs = {x1, x2}
  NoDialog = NoDialog
  MaxPrompts = 2
INVARIANTS
  EventsTypeOK
  CacheAgreesWhenSettled
  DisplayAgreesWhenSettled
  HeardOnce
  PanelInv
CHECK_DEADLOCK FALSE
