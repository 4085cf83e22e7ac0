SPECIFICATION FairPublisherSpec
CONSTANTS
  Messages = {m1, m2, m3}
  NoMessage = NoMessage
  Ping = Ping
  Nobody = Nobody
INVARIANTS DeliveredIsNotReturned
PROPERTIES ImplementsContract EveryPublishReturns
