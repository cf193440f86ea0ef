\* CHECK_DEADLOCK is off: the program ends with the file.
SPECIFICATION Spec
CONSTANTS
  TagSets <- MCTagSets
  MaxChunks = 3
  MaxApiRetries = 2
  MaxFileRetries = 2
INVARIANTS TypeOK ReaderAgrees Grounded OutputComplete SpacePerRun
PROPERTIES Settles ImplementsWalk
CHECK_DEADLOCK FALSE
