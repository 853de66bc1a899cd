SPECIFICATION Spec
CONSTANTS
  None = None
  KeepAlive = 2
  Timeout = 2
  SubscribeTimeout = 1
  Outgoing = 2
  MaxInbound = 2
  Troubles = {"closed"}
INVARIANT IInv
INVARIANT OwnAnswers
INVARIANT NoticesSilence
INVARIANT BrokerKeepsClient
PROPERTY Redials
