SPECIFICATION MailboxSpec
CONSTANTS
  t1 = t1  t2 = t2  t3 = t3  m1 = m1  m2 = m2
  Posters = {t1, t2}
  Fetchers = {t3}
  Msgs = {m1, m2}
  Size = 3
  PostOps <- AllPostOps
  FetchOps <- AllFetchOps
  MaxLast = 4
SYMMETRY Symmetry
INVARIANTS NoLostWakeup NoStrandedPoster
PROPERTIES ImplementsFifo
