CONSTANTS
  Self = "ground"
  Peers = {"drone1"}
  Configured = {"ground"}
  Tabs = {"Overview", "Topics", "Hosts"}
  Health = {TRUE}
  FreshAge = 2
  QueueSize = 1
SPECIFICATION FairSpec
INVARIANTS
  FrameIsCurrent
PROPERTY
  ScreenFollows
