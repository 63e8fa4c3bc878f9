SPECIFICATION ConsoleSpec
CONSTANTS
  None = None
  NoRequest = NoRequest
  Unset = Unset
  Tenants = {t1}
  Definitions = {d1}
  Granted <- AllGranted
  MaxWrites = 1
  MaxVisits = 2
  Credentials = {c1, c2}
  NoOne = NoOne
  MaxChanges = 3
  Watched = {"session_idle_minutes", "default_locale"}
  MaxEdits = 1
  MaxSaves = 2
  MaxStays = 2
  RowCounts = {6, 11}
  MaxChoices = 2
  NotStored = NotStored
  MaxPicks = 3
  Blank = Blank
  Payloads = {p1, p2}
  MaxSends = 3
  MaxTurns = 4
  Endpoints = {"tenants", "overview"}
  Surfaces = {"tenants"}
  Sizes = {250, 500}
  Volumes = {499, 500, 2000}
  Missing = Missing
  MaxStarts = 3
  MaxBreaches = 2
CONSTRAINT FewAtOnce
INVARIANTS
  OneEffectPerIntent
  EachSuccessIsItsOwn
  KeyMeansContents
  GateOpensOnConfirmed
  FreshIsCurrent
  RevealedIsCurrent
  NothingFromBefore
  PageBelongsToCredential
  PreferencesStick
  PageInRange
  ChoiceIsShown
PROPERTY
  NoUnseenOverwrite
CHECK_DEADLOCK FALSE
