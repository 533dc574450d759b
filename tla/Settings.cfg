SPECIFICATION SettingsSpec
CONSTANTS
  Caller = {caller}
  Provider = {1, 2, 3}
  NoProvider = 0
  Local = {}
  Azure = {}
  Gemini = {}
  Structured = {summary}
  Chat = {}
  Estimate = 1
  PerCall = 1
  DayLimit = 1
  MonthLimit = 1
  MaxDays = 0
  Kind = {openai, gemini}
  NoKind = none
  Save = {first, second}
  Value = {off, on}
  MaxEdits = 2
SYMMETRY Alike
CHECK_DEADLOCK FALSE
INVARIANTS
  SavedIsUsable
  ShownIsKept
PROPERTY
  EditsProviders
