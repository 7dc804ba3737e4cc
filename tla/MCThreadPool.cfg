SPECIFICATION FairSpec
CONSTANTS
  Workers = {w1, w2, w3}
  Main = main
  Nobody = nobody
  Files = 3
  Calls = 2
  MaxSpurious = 2
INVARIANTS TypeOK CountExact FirstInFirstOut CapturesAlive ReturnedMeansFinished NoLostWakeup
PROPERTIES KeepsPromise KeepsPromiseFairly
