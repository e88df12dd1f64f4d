SPECIFICATION FairSpec
CONSTANTS
  Pcs = {0, 1, 2}
  Succ <- MCSucc
  Counts = {0, 1, 3}
  Wrap = 3
  Interactive = FALSE
INVARIANTS PromptSigint StepCount ClockExcludesPrompt
PROPERTIES SigintLeadsToPrompt BreakpointsHold
\* the process ends with quit or with its input
CHECK_DEADLOCK FALSE
