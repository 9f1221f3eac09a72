SPECIFICATION FairSpec
CONSTANT MaxAcks = 3
CHECK_DEADLOCK FALSE
INVARIANT OneAckEach
PROPERTIES SuccessMeansDone RequestAnswered
