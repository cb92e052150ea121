CONSTANTS
  Callers = {"c1", "c2"}
  AllowedCallers = {"c1", "c2"}
  Workers = {"w1", "w2"}
  QueueCapacity = 1
  MaxCalls <- OneCall
SPECIFICATION ResponsiveSpec
PROPERTIES
  QueuedIsAnswered
  CloseReturns
