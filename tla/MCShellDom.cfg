SPECIFICATION Spec
CONSTANTS
  Urls = {blank, u1}
  Blank = blank
  Controls = {c1}
  NoControl = none
  NoDocument = nodoc
  MaxTab = 2
  MaxNav = 2
  MaxEntries = 1
INVARIANTS
  DomBesideDocument
