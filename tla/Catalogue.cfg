SPECIFICATION Spec
CONSTANTS
  Products = {1, 2, 3}
  Stores = {1, 2}
  ProductId <- MCProductId
  StoreInitial <- MCStoreInitial
  Sells <- MCSells
  SeededActive = {1, 2}
  Demo <- MCDemo
  Kinds <- MCKinds
  Times = {1, 7, 8}
  MaxInserted = 2
  Switchable = {2}
  DayLength = 4
  PageSize = 1
INVARIANTS ViewsAgree OffersAreInHistory SharesAddUp DashboardAgrees ListingMissesNothing
CHECK_DEADLOCK FALSE
