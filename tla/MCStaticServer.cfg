SPECIFICATION Spec
CONSTANTS
  Character <- Characters
  Texts <- AllTexts
  Intents <- MCIntents
  Path <- TheFile
  Sizes = {0, 1}
  MaxChanges = 2
\* A request that is answered is the end.
CHECK_DEADLOCK FALSE
INVARIANTS TypeOK PrintsBack IntentKept AnswerWasTrue
