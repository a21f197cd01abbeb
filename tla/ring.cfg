SPECIFICATION Spec
CONSTANTS
  Producers = {p1, p2}
  Consumers = {c1, c2}
  Capacity = 2
  NoItem = NoItem
  MaxPush = 2
INVARIANTS TypeOK PopsInClaimOrder NoValueRace RingInv
PROPERTIES ImplementsTicketQueue FailsOnlyWhenBlocked
