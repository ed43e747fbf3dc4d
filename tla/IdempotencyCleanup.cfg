SPECIFICATION Spec
CONSTANTS
  Workers = {w1, w2}
  Fingerprints = {f1}
  TTL = 3
  Timeout = 2
  Backoff = 1
  MaxWait = 1
  MaxRun = 2
INVARIANT OneExecutor
