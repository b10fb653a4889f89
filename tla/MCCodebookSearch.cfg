SPECIFICATION SearchSpec
INVARIANTS BuffersRespected SameVector WindowComplete
