SPECIFICATION FairSpec
CONSTANT Prompt = {p1, p2, p3}
INVARIANTS
  Conservation
  QueueDiscipline
PROPERTIES
  ImplementsInbox
  AcceptedIsSubmitted
  RunStartReturns
