SPECIFICATION SettingsSpec
CONSTANTS
  Watched = {"session_absolute_hours", "session_idle_minutes"}
  Unset = Unset
  MaxEdits = 2
  MaxSaves = 1
  MaxStays = 1
PROPERTY NoSilentOverwrite
CHECK_DEADLOCK FALSE
