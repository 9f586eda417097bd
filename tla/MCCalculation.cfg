SPECIFICATION Spec

CONSTANTS
  MaxInt = 20000
  MaxTaxableIncome = 16000
  MaxIntegerDigits = 4
  None = None
  OrdinaryBrackets = "irs.ordinary_brackets"
  Formats = {"csv", "json"}
  Https = {"https"}
  Hex64 = {"hex64"}
  ArchivePaths = {"archived"}
  Blank = {"", " "}
  Statuses <- MCStatuses
  YearOf <- MCYearOf
  MonthOf <- MCMonthOf
  LiteralOf <- MCLiteralOf
  DateOf <- MCDateOf
  SpellingOf <- MCSpellingOf
  Builds <- MCBuilds
  Requests <- MCRequests

\* A server that refuses its parameters does not start
CHECK_DEADLOCK FALSE

INVARIANT Reconciles
INVARIANT EveryLineIsAudited
INVARIANT TaxIsMonotone
INVARIANT WorksheetIsTotal
INVARIANT ProjectedOnce
INVARIANT IndexedTablesAreComplete
INVARIANT OnlyKnownDefects
PROPERTY WorksheetSpec
