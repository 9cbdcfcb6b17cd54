CONSTANTS
  NoOne = NoOne
  Order = {first}
  Rider = {own, third}
  InHouse = {own}
  MaxJobs = 1
  MaxDeclines = 2
  OfferId = {1, 2, 3, 4, 5}
  Desk = {desk}
  Engine = {1, 2}
  MaxIncidents = 3
SPECIFICATION FairSpec
CHECK_DEADLOCK FALSE
INVARIANTS
  RefusalsStand
PROPERTIES
  KeepsTheJob
  FindsARider
