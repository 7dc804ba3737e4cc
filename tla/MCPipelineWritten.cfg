SPECIFICATION Spec
CONSTANTS
  Threads = 2
  Files = 2
INVARIANT WrittenMeansWritten
