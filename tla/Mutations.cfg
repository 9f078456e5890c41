SPECIFICATION Spec
CONSTANTS
  NULL = NULL
  FKs <- MCFKs
  Filters <- MCFilters
  FiltersOf <- MCFiltersOf
  Columns <- MCColumns
  Default <- MCDefault
  NotNull <- MCNotNull
  Keys <- MCKeys
  Seeds <- MCSeeds
  CreateInputs <- MCCreateInputs
  Patches <- MCPatches
  KeyValues = {1, 2}
INVARIANTS
  FilterSelects
  CreateManyIsCreates
  UpsertIsUpdateOrCreate
  BulkIsEach
