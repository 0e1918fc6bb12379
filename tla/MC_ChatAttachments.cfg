SPECIFICATION FairSpec
CONSTANTS
  a = a
  b = b
  d = d
  s = s
  q = q
  t1 = t1
  Uploads = {a, b}
  Removals = {d}
  Sends = {s}
  Readers = {q}
  Threads = {t1}
  None = None
  Size <- Mixed
  Quota = 3
  MaxFailures = 1
INVARIANTS LiveHaveBytes LedgerMatchesRows SentAttachmentsStay StoreMatchesRows
PROPERTIES RequestsEnd
CHECK_DEADLOCK FALSE
