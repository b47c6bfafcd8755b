\* The compilation of the tables, then one request or one query.
SPECIFICATION AppSpec
CONSTANTS
   ProtobufRoutes <- MCProtobufRoutes
   FlaskRoutes <- MCFlaskRoutes
   FastApiRoutes <- MCFastApiRoutes
   NewRoutes <- MCNewRoutes
   Probes <- MCProbes
   StaticPrefix <- MCStaticPrefix
   RootPath <- MCRootPath
   Documents <- MCDocuments
   Schemas <- MCSchemas
INVARIANTS
   ServedRoutesAreGoverned
   NestedRoutesWin
   ParamsFromGoverningRoute
   EveryRootFieldIsSeen
   RegistryReadNeedsRegistry
   UnreadCollectionsAreNarrowed
   NamedObjectsAreReviewed
PROPERTY
   WalkEnds
CHECK_DEADLOCK FALSE
