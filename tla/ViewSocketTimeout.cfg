SPECIFICATION Spec
CONSTANTS
  Sockets = {w1, w2, w3}
  NoSocket = NoSocket
  MaxAttempts = 2
INVARIANT ConnectingMeansTrying
CHECK_DEADLOCK FALSE
