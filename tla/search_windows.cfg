\* Windows of two rows: several skiptokens are uploaded in one batch.  Once
\* a history is not orderly it stays so, and nothing is asked of it.
SPECIFICATION Spec
CONSTANTS
  Keys <- TwoKeys
  MaxToken = 3
  MaxEvents = 6
  BatchSize = 2
CONSTRAINT WhileOrderly
INVARIANTS
  ExactIfOrderly
