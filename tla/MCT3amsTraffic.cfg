SPECIFICATION Spec
INVARIANTS ContextFollows
PROPERTIES DeletedStaysDeleted ReadyIsHeard SendsSucceed
CHECK_DEADLOCK FALSE
CONSTANTS
  alice = alice
  bob = bob
  bot = bot
  channel = channel
  Owner = alice
  Others = {bob}
  Bot = bot
  Channels = {channel}
  Private = {channel}
  Announcements = {}
  CreatorOf <- Creators
  Rosters <- MoreRosters
  FirstRoster <- Invitation
  Budgets <- WsBudgets
  m1 = m1
  m2 = m2
  m3 = m3
  ann = ann
  ben = ben
  a1 = a1
  a2 = a2
  a3 = a3
  e1 = e1
  t1 = t1
  None = none
  Remarks = {m1, m2, m3}
  AuthorOf <- Authors
  RootOf <- Threads
  RecordCap = 2
  ContextCap = 2
  SenderCap = 1
  Talks <- TalkPlans
  Outgoing = {a1, a2, a3, e1, t1}
  KindOf <- Kinds
  BackfillCap = 2
  QueueCap = 2
  Attempts = 2
  Burst = 4
  Sendings <- SendPlans
