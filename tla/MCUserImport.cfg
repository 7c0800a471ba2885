SPECIFICATION ImportSpec

CONSTANTS
  Word = {"w"}
  Core = {}
  N = 2
  WordOf <- MCWordOf
  OwnerOf <- MCOwnerOf
  Importer = {"request", "sched", "bot"}
  Builder = {"b1", "admin"}
  Stages <- MCStages
  Mortal = {"request", "sched", "b1"}
  MaxFaults = 1
  MaxOrders = 1
  J = 2
  JobOf <- MCJobOf
  Duties <- MCDuties
  Poller = {"sched", "bot"}
  Crews <- MCCrews

INVARIANTS ImportTypeOK SummaryIsWhole NobodyWaitsForAReadyWord AssignedWordsExist ItemsShowTheirWord
PROPERTIES FinalStays JobEnds WaitingEnds

CHECK_DEADLOCK FALSE
