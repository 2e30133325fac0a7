SPECIFICATION SpecMapping
CONSTANTS
  Files <- MCFiles
  Values <- MCValues
  MaxFrames = 2
  Yamls <- MCYamls
  Mappers <- MCMappers
INVARIANTS
  MappingTypeOK
  DatabaseIsTheFile
  DecodesWhatWasSent
  MapsAgree
  StoreFollowsBus
PROPERTY
  OnlyItsPaths
\* No more frames come.
CHECK_DEADLOCK FALSE
