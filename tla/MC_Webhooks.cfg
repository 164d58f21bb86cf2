\* Two deliveries of one subscription and two workers, one of which may die.
SPECIFICATION FairDeliverySpec
CONSTANTS
  NoEvent = NoEvent
  Events = {e1, e2}
  Workers = {w1, w2}
  MaxAttempts = 2
  MaxDeaths = 1
INVARIANT DeliveryTypeOK
PROPERTIES OutcomesAreFinal DeliveriesSettle
CHECK_DEADLOCK FALSE
