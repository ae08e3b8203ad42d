SPECIFICATION Spec
CONSTANTS
  main = main
  t1 = t1
  t2 = t2
  pay1 = pay1
  pay2 = pay2
  pay3 = pay3
  log1 = log1
  log2 = log2
  Main <- main
  Thread <- MCThread
  Payment <- MCPayment
  Event <- MCEvent
INVARIANT BuffersOwned
