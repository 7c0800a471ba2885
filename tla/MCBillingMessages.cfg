SPECIFICATION MessagesSpec
CONSTANTS
  user = user
  admin1 = admin1
  admin2 = admin2
  Chat = {user, admin1, admin2}
  N = 4
  Kind <- Rows
  Audience <- Chats
  Handler = {h1, h2}
  Batch = 1
  MaxFaults = 1
  P = 2
  Requester = {r1}
  Worker = worker
  MaxAttempts = 2
  ListLimit = 1
  MaxRows = 3
  MaxFailures = 1
INVARIANTS DeliveryTypeOK RecordIsFaithful RetrievalTypeOK OneCheckOrOneAlert
PROPERTIES SentStays ReachableIsTold EveryCheckIsSettled
CHECK_DEADLOCK FALSE
