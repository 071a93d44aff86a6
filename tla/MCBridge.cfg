CONSTANTS
  Msgs = {o1, s1}
  Openers = {o1}
  FileCommands = {}
  Consumers = {c1, c2}
  Limit = 2
  InboundCap = 2
  MaxOwed = 2
  MaxFaults = 2
  k1 = k1
  k2 = k2
  Nil = Nil
  Deliveries = {1, 2, 3}
  Chats = {k1, k2}
  ChatOf <- DeliveryChats
  Workers = 2
  MaxPending = 2
  Deals <- DeliveryPlans
SPECIFICATION ConsumersSpec
INVARIANTS NothingTakenIsLost RepliesAreTheirOwn
PROPERTIES TakenIsFinished BubbleIsRetired
CHECK_DEADLOCK FALSE
