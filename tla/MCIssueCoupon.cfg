CONSTANTS
  Requests = {r1, r2, r3}
  Free = Free
  MaxCount = 2
  NoCoupon = NoCoupon
SPECIFICATION Spec
INVARIANTS TypeOK StockCounted NoOversell AnswersTrue LockNotLeft
PROPERTY RequestsEnd
CHECK_DEADLOCK FALSE
