SPECIFICATION Spec
CONSTANTS
  Urls = {blank, u1, u2}
  Blank = blank
  Controls = {c1}
  NoControl = none
  NoDocument = nodoc
  MaxTab = 3
  MaxNav = 3
  MaxEntries = 2
CONSTRAINT
  FewTabsOrLoads
INVARIANTS
  ShellInv
  LoadsMeetTheirTabs
  AddressesAreTrue
PROPERTIES
  HistoriesFollowPages
  ClosingKeepsActiveTab
  ImplementsTabLoads
  EndedLoadsSettle
