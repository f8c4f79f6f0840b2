SPECIFICATION Spec
CONSTANTS
  SourceTexts <- Articles
  HandWritten <- Corrections
  Threshold = 50
  MaxVersions = 3
  MaxTasks = 2
\* The bounds end the exploration.
CHECK_DEADLOCK FALSE
INVARIANT ParagraphsHaveOrigin
PROPERTIES
  IncrementIsTranslation
  ResultIsParallel
