SPECIFICATION FairSpec
CONSTANTS
  Threads <- TwoThreads
  NoThread = NoThread
  Loggers <- ThreeLoggers
  NoLogger = NoLogger
  First = l1
  Safe <- SafeOnes
  Streams <- TwoStreams
  Sink <- Sinks
  Levels = {0, 1}
  DefaultLevel = 0
  t1 = t1
  t2 = t2
  l1 = l1
  l2 = l2
  l3 = l3
  cout = cout
  file = file
\* A program that has used a destroyed logger takes no step.
CHECK_DEADLOCK FALSE
INVARIANTS TypeOK StaticCallsAreSafe LinesAreWhole
PROPERTIES MutexIsLetGo
