SPECIFICATION Spec
CONSTANTS
  MaxPrice = 10000000
  MaxRedirects = 3
  PagesOf <- MCPagesOf
  FakePrices <- MCFakePrices
  Switched = {"sercoplus.com"}
  OtherDomain = "other"
INVARIANT UnavailableIsNoOffer
