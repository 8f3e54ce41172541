SPECIFICATION ServerSpec
CONSTANTS
  Fds = {f1, f2}
  Addrs = {a1, a2}
  NoFd = NoFd
  NoAddr = NoAddr
  IdleTimeout = 2
  IdlePoll = 1
  MaxBurst = 1
  MaxConnections = 1
INVARIANTS
  DeadlinesCovered
  WakesInTime
  NoStaleEvent
PROPERTIES
  ClosesExpired
  IdleClosed
