CONSTANTS
  Dbs = {"limits"}
  Ids = {1, 2, 3}
  Times = {1}
  Queries = {{1, 2, 3}}
  Pages = {0, 1, 2, 3, 127}
  PageSize = 2
  MaxInt = 127
  MaxEvents = 0
SPECIFICATION Spec
INVARIANTS RendersEveryPage
