\* UploadLocalFile alone, with the bounds of MCCos.cfg.
CONSTANTS
  Bytes = {"a", "b"}
  Zero = "0"
  Slice = 2
  MaxUnSlice = 3
  FileSizeLimit = 5
  MaxLen = 6
  Kinds = {"local"}
  MaxCalls = 2
SPECIFICATION Spec
\* A behaviour ends after MaxCalls calls.
CHECK_DEADLOCK FALSE
INVARIANT UploadStoresSource
