SPECIFICATION Spec
CONSTANTS
  system = system
  pending = pending
  cash = cash
  usd = usd
  s1 = s1
  s2 = s2
  t1 = t1
  t2 = t2
  t3 = t3
  k1 = k1
  k2 = k2
  Accounts <- MCAccounts
  Currencies = {"PKR", "USD"}
  CurrencyOf <- MCCurrencyOf
  TxnIds = {t1, t2, t3}
  Keys = {k1, k2}
  NoKey = NoKey
  NoTxn = NoTxn
  Sessions = {s1, s2}
  Requests <- MCRequests
  NoSession = NoSession
  NoSavepoint = NoSavepoint
SYMMETRY Symmetry
INVARIANTS
  BalanceMatchesEntries
  BooksAddUp
  KeyUsedOnce
  ReversedMeansCompensated
PROPERTIES
  ImplementsLedger
