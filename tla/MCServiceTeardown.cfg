CONSTANTS
  Callers = {"c1"}
  AllowedCallers = {"c1"}
  Workers = {"w1"}
  QueueCapacity = 1
  MaxCalls <- OneCall
SPECIFICATION Spec
INVARIANTS
  HandlerOutlivesTasks
