SPECIFICATION Spec
CONSTANTS
  Products = 3
  BatchSize = 2
  MaxMigrations = 3
  MaxIngests = 2
INVARIANTS TypeOK SpecsOfOneRun RowsOncePerIngest
