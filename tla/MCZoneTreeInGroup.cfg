\* The same client; layouts with a unit tree below a group are among those read.
SPECIFICATION Spec
CONSTANTS
  Refused = Refused
  Absent = Absent
  Identity = Identity
  Low = 8
  MaxRows = 16
  Printable = {"one b", "four", "four a", "five", "five a", "six", "six a", "seven", "seven a"}
  MaxDepth = 8
  Paired = 2
  Q = 8
  Align = 4
  MaxNesting = 6
  MaxVertices = 6
  MaxTriangles = 4
  MaxCells = 120
  Bias = 4
  Range1 = 8
  Top = 15
  Leaf = 2
  MaxStart = 7
  Capacity = 8
  MaxTrees = 2
  CatalogKey = 100
  Clients <- MCClients
  Stacks <- MCStacks
  Packages <- MCPackages
  Appends <- MCAppends
  MaxOverlays = 4
  InputsOf <- FloorInputs
  Admits <- FloorAdmitted
  FloorOf <- PreparedFloors
  SafeStem <- MCSafeStem
  StemRank <- MCStemRank
  Layouts <- MCLayouts
  Models <- MCModels
  Texts <- MCTexts
  Factors <- MCFactors
  Templates <- MCTemplates
  Geometries <- MCGeometries
  Queries <- MCQueries
  Trees <- MCTrees
  MaxImports = 3
CHECK_DEADLOCK FALSE
INVARIANT PlacedAsDocumented
