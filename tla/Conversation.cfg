SPECIFICATION MCSpec
CONSTANTS
  Kinds = {"run", "retry", "start", "tap", "withdraw", "confirm", "stop"}
  Endings = {"done", "failed"}
  PageSize = 1
  MaxUpdates = 2
  MaxFinished = 2
  MaxFaults = 1
  N = 3
  Outside = Outside
  Ranks = {1, 2, 4}
  Decompositions <- MCDecompositions
  Documents <- MCDocuments
  Utterances <- MCUtterances
  Completer = TRUE
  Home = home
  Away = away
  MaxSaid = 2
  MaxDropouts = 1
  Mails <- MCMails
  MaxMails = 3
  MaxDrops = 1
  Outcomes <- MCOutcomes
  MaxAttempts = 3
  MaxRewrites = 1
  Files = {page, style, notes}
  Committed = {style}
  Promised = {page}
  Lookalikes = {style}
  Unsent = unsent
  c1 = c1
  c2 = c2
  Viewers <- MCViewers
  Blank = blank
  MaxTurns = 2
  MaxMishaps = 1
  w1 = w1
  w2 = w2
  w3 = w3
  gone = gone
  Works = {w1, w2, w3}
  WaitsOn <- MCWaitsOn
  Readers = {c1, c2}
  Silence = silence
  QuietFor = 2
  RepeatAfter = 2
  MaxQuiet = 3
  MaxRefusals = 1
  Groups = {g1, g2}
  Other = other
  Chats = {c1}
  MaxRecords = 3
  MaxRotations = 1
  MaxRuns = 3
  n1 = n1
  r1 = r1
  r2 = r2
  f1 = f1
  Notes = {n1}
  RunNotes = {r1, r2}
  ScanFacts = {f1}
  Refused = {r2}
  Nothing = Nothing
  BodyLength <- MCLength
  LineFrame = 4
  Budgets = {25, 40}
  MaxNotes = 2
  MaxSlips = 1
  Root = Root
  dir = dir
  note = note
  link = link
  inner = inner
  Entries <- MCEntries
  Above <- MCAbove
  Folders = {dir}
  Skipped = {link}
  Missing = Missing
  MaxMoves = 2
  MaxScans = 2
  MaxReadFaults = 1
CHECK_DEADLOCK FALSE
INVARIANTS
  ConversationTypeOK
  HandledOnce
  NoticesAreTrue
  GraphIsSound
  EdgesAreSound
  ModelIsHeld
  ReadAsMeant
  DeliveredOnce
  AttemptsAreFair
  ReportIsTrue
  AdviceIsEarned
  MemoryIsWhole
  IndexIsTrue
PROPERTIES
  StrandedNeverRuns
  DecisionsHold
  MCRequestsStart
  MCMessagesAreAnswered
  MCChatsAreTold
  MCPassesCatchUp
