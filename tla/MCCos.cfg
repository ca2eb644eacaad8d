\* Both uploads; sizes 0..6 over two byte values with slices of 2 bytes:
\* one Put below 3 bytes, 2 to 4 parts from 3 bytes on (4 and 6 are whole
\* multiples of the slice), and 6 bytes over the size limit.
CONSTANTS
  Bytes = {"a", "b"}
  Zero = "0"
  Slice = 2
  MaxUnSlice = 3
  FileSizeLimit = 5
  MaxLen = 6
  Kinds = {"local", "content"}
  MaxCalls = 2
SPECIFICATION Spec
\* A behaviour ends after MaxCalls calls.
CHECK_DEADLOCK FALSE
INVARIANTS
  TypeOK
  ContentUploadStoresContent
