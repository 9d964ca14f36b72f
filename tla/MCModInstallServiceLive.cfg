\* One calling thread, three requests, under fairness: every request ends.
SPECIFICATION FairSpec
CONSTANTS
  Callers = {ui}
  MaxGen = 3
  MaxPlans = 2
PROPERTY
  EveryRequestFinishes
