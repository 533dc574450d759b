SPECIFICATION Spec
CONSTANTS
  Caller = {first, second}
  Provider = {openai}
  NoProvider = none
  Local = {}
  Azure = {}
  Gemini = {}
  Structured = {summary}
  Chat = {question}
  Estimate = 1
  PerCall = 1
  DayLimit = 2
  MonthLimit = 3
  MaxDays = 1
INVARIANTS
  OverspendBounded
  OnlyValidCached
