SPECIFICATION MCSpec
CONSTANTS
  Nothing = Nothing
  MaxTime = 2
  Texts <- ShortTexts
  t1 = t1
  t2 = t2
  RagTurns = {t1, t2}
  Posed <- ThreeQuestions
  VerdictTTL = 1
  MaxVerdicts = 1
  Docs = {1, 2, 3, 4, 5, 6}
  TopK = 3
  RankOffset = 60
  FallbackTopN = 2
  Contents <- ThreeMessages
  Counts = {4, 5, 7}
  Summaries <- SomeSummaries
  Written <- NewSummaries
  MaxTokens = 80
  Keys <- ThreeKeys
  Alike <- SameMeaning
  Streamed <- OneStreamed
  MaxWorking = 2
  MaxExact = 2
  MaxSemantic = 1
  ExactTTL = 1
  Jitter = 0
  RefusalTTL = 1
  RefusalJitter = 1
  SemanticTTL = 1
INVARIANTS PartsTypeOK DocumentsUnlessLost DocumentsFound StoresSound TextsKept EveryCutShortens
\* A turn, a search and a compression come to their end.
CHECK_DEADLOCK FALSE
