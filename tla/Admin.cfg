CONSTANTS
  Dbs = {"abuse_keys", "limits"}
  Ids = {1, 2, 3}
  Times = {1, 2}
  Queries = {{1, 2, 3}, {1, 3}}
  Pages = {0, 3}
  PageSize = 2
  MaxInt = 127
  MaxEvents = 2
SPECIFICATION Spec
INVARIANTS TypeOK ListingComplete NoGhostOfPresent PagesCoverAll RendersEveryPage
 
