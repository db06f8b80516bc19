SPECIFICATION Spec
CONSTANTS
  o1 = o1
  o2 = o2
  Operators = {o1, o2}
  Streams = {"stream"}
  Worlds = {"faulty", "healthy"}
  Sound = {"healthy"}
PROPERTY
  NotAwaitingIsRefused
