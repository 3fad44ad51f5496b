\* A screen on which a full line takes more than a row; the line scrolls.
SPECIFICATION Spec
CONSTANTS
  W = 3
  H = 4
  MAX = 3
  HIST_SIZE = 2
  Chars = {"a", "tab"}
  Banner <- MCBanner
  Prompt <- MCPrompt
  Outputs <- MCOutputs
  Texts <- MCTexts
INVARIANTS InBounds LineShown AboveKept HistoryOrder
