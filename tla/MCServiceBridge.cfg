CONSTANTS
  Callers = {"c1", "c2"}
  AllowedCallers = {"c1"}
  Workers = {"w1", "w2"}
  QueueCapacity = 1
  MaxCalls <- MCCalls
SPECIFICATION Spec
INVARIANTS
  TypeOK
  AnswerIsOwn
  ResultIsTruthful
  AcceptedIsAnswered
PROPERTIES
  ReplyWhileSessionOpen
