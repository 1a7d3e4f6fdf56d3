\* Three days and a gap of one, up to three events of which two are clicks or
\* two postbacks, one submission with rows for the middle day after any number
\* of empty ones.
CONSTANTS
  ad = ad
  geo = geo
  v1 = v1
  v2 = v2
  c1 = c1
  c2 = c2
  LastDay = 2
  ClickId = {c1, c2}
  Parameter = {ad, geo}
  Value = {v1, v2}
  Submitted = {1}
  Labels <- MCLabels
  Distribution <- MCDistributions
  Cost = {100}
  Status = {"accept", "expect"}
  Null = Null
  NoRequest = NoRequest
  MaxClicks = 2
  MaxPostbacks = 2
  MaxEvents = 3
  MaxItems = 2
  MaxSubmissions = 1
  Gap = 1
  Cent = 10
  NotANumber = NotANumber
  FloatSum <- MCFloatSum
  Noise = 2
  MaxGroup = 1
SYMMETRY Ids
SPECIFICATION Spec
INVARIANTS TypeOK ExpensesHaveParameter PrefixIsStored ReportAnswers TotalsAreTrue PartsMakeTheTotal ProfitsAddUp
PROPERTY ClosedPeriodIsFinal
