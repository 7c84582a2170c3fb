\* Two requests at a time over two files of one resource, deleted one by one.
CONSTANTS
  Keys = {k1, k2}
  Handlers = {h1, h2}
  Resources = {r1}
  ResourceOf <- OneResource
  ChunkSize = 1
SPECIFICATION Spec
INVARIANTS LiveRecordHasObject
PROPERTIES RemovedStaysRemoved RemovedObjectsGo
CHECK_DEADLOCK FALSE
