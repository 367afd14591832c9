\* A build over each small service, with every order in which its extractors
\* resolve or throw.
SPECIFICATION Spec
CONSTANTS
  Units <- MCUnits
  Alphabet <- MCAlphabet
  Overview <- MCOverview
  SectionOrder <- MCSections
  Weights <- MCWeights
  TopN = 3
  LastN = 1
  Depth = 2
  MinFiles = 2
  KnownRoles <- MCKnownRoles
  Custom <- MCCustom
  EnumBases = {"Enum"}
  BaseClass = "Model"
  MigrationsDir <- MCMigrations
  WorkerNames = {"Client"}
  Null = Null
INVARIANTS
  TypeOK
  DocumentIsReproducible
  HeadingsTellTypesApart
  MembersAreTheTypesOwn
\* A build ends when its document is rendered.
CHECK_DEADLOCK FALSE
