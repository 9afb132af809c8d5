SPECIFICATION FairSpec
CONSTANTS
  p1 = p1
  k1 = k1
  k2 = k2
  r1 = r1
  r2 = r2
  Payments = {p1}
  Calls = {k1, k2}
  PaymentOf <- MCPaymentOf
  Relays = {r1, r2}
  BatchSize = 2
  MaxRetries = 2
  MaxSends = 2
  MaxRows = 2
  MaxFaults = 4
INVARIANTS
  HandedLinksArePayable
  SettledPaymentsKeepTheirEvent
  DuplicatesComeFromFaults
PROPERTIES
  CompletionsAreAnnounced
  KeepsPromise
