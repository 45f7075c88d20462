CONSTANTS
  d1 = d1
  p1 = p1
  Downloader = {d1}
  Parser = {p1}
  FileSeq <- MCFileSeq
  StepSeq <- MCStepSeq
  MaxAttempts = 2
  MaxEvents = 2
  LastMonth <- MCLastMonth
SPECIFICATION Spec
INVARIANTS TypeOK CompletedHasAllSteps DownloadingIsOwned CompletedIsLoaded OnlyGenresLostByCrash
PROPERTIES NoTakeover MonthsStayApart CompletedInTheEnd
CHECK_DEADLOCK FALSE
