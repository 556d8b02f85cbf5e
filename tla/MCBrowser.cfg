\* Two screens, three forms, four requests, two questions; two tabs and four
\* token requests; two sign-in requests with four credentials.
SPECIFICATION BrowserSpec
SYMMETRY Symmetric
CHECK_DEADLOCK FALSE
CONSTANTS
  Slots = {s1, s2}
  Texts = {a, b}
  NoText = NoText
  MaxQuestions = 2
  MaxScreens = 2
  MaxTurns = 3
  MaxSends = 4
  Tabs = {t1, t2}
  BrowserOf <- MCBrowserOf
  MaxRequests = 4
  Posts = {p1, p2}
  Emails = {"a", "b"}
  Credentials <- MCCredentials
  MaxFailures = 2
INVARIANTS
  BrowserTypeOK
  AcceptedIsRecorded
  OneAnswerPerQuestion
  OneScreenIsFaithful
  RotationIsSound
  SignInIsSound
PROPERTIES
  SubmittedIsFinal
