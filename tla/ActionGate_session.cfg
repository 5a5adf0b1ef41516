\* Two calls against a quota of one, over two windows: every refusal, the
\* sliding of the rate window and every race of answer, timeout and cancellation.
SPECIFICATION FairSpec
CONSTANTS
  Calls = {c1, c2}
  Participants = {op, guest}
  Operator = op
  Namespaces = {btf, sparc}
  Beamline = btf
  NoNamespace = NoNamespace
  Tails = {"none", "more"}
  Sessions <- AllSessions
  Timeout = 2
  RateWindow = 2
  MaxPerMinute = 1
  Horizon = 4
INVARIANT RunsOnlyWhatTheOperatorConfirmed
INVARIANT RateLimited
INVARIANT OnePendingAndNoneLeaked
PROPERTY DecidedOnce
PROPERTY KeepsPromise
PROPERTY PromptSettles
PROPERTY ConfirmationHonoured
