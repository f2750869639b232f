SPECIFICATION SpecPrompt
CONSTANTS
  Programs = {}
  Exports <- MCPromptExports
  Specs <- MCNoInputs
  Lines <- MCLines
  HostValues <- MCHostValues
  MaxTyped = 4
  Functions <- MCFunctions
  FilledCall <- FilledLine
  Readable <- IsReadable
  WitTypes <- MCTypes
  Size <- MCSize
  Inside <- MCInside
  Outside <- MCOutside
  Generated <- MCGenerated
  ToHost <- MCToHost
  FromHost <- MCFromHost
  IsOf <- MCIsOf
INVARIANTS PromptTypeOK CompletedAccepted OffersEveryCall KeptOffered AnswersTyped FilledCross
PROPERTY SpecEdit
CHECK_DEADLOCK FALSE
