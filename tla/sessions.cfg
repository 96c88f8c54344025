CONSTANTS
  w1 = w1
  w2 = w2
  t1 = t1
  t2 = t2
  Nobody = Nobody
  Windows = {w1, w2}
  Tasks = {t1, t2}
  WindowOf <- OneEach
  HasLocks = TRUE
  MaxSessions = 4
  MaxFaults = 1
  Mails = {1, 2, 3}
  Unreadable = {3}
  Refused = {1}
  Runs = {1, 2}
  Limit = 2
  MAX_MAIL_ATTEMPTS = 2
  MaxCrashes = 1
SPECIFICATION SmallSpec
INVARIANTS SessionsHold CookieIsCurrent SentOnce
PROPERTIES EverythingIsSettled
CHECK_DEADLOCK FALSE
