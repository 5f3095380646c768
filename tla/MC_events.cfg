SPECIFICATION MCSpec
CONSTANTS Sessions = {s1}
          Addrs = {a1, a2}
          None = None
          MaxQueue = 2
          MaxRegs = 2
          MaxEvents = 2
          MaxWork = 3
          MaxFaults = 1
INVARIANTS NoLostWakeup InOrder RegistrationsAgree
PROPERTIES EventsDelivered ConnectedThreadEnds
CHECK_DEADLOCK FALSE
