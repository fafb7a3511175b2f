\* Three categories writing pages that share keys in any order.
SPECIFICATION FairSpec
CONSTANTS
  Persoon = Persoon
  Fractie = Fractie
  Zetel = Zetel
  Writers <- MCWriters
  Keys <- MCKeys
  Category <- MCCategory
  Pages <- MCPages
  MaxToken = 2
CHECK_DEADLOCK FALSE
INVARIANTS
  TypeOK
  LocksOrdered
  NoWaitCycle
  StoreConsistent
  ViewsConsistent
PROPERTIES
  RefinesPageStore
  RefinesCategoryStore
  PagesFinish
