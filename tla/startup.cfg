SPECIFICATION FairSpec
CONSTANTS
  Procs = {p1, p2, p3}
  Binds = {b1, b2}
  Nobody = Nobody
  None = None
INVARIANTS
  OneTrainer
  SomeoneAnswers
PROPERTIES
  SecondStartHarmless
  SocketComesBack
