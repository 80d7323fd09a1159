\* A directory of three pages, one of a single page and a name that is no
\* directory; the byte never wraps.  The second listing meets the cursor and
\* the late answers of the first.
CONSTANTS
  MaxTries = 2
  MaxStale = 1
  ReqRoom = 2
  RespRoom = 2
  Size <- Small
  Asked = {"a", "b", "none of these"}
  PageRoom = 2
  Wrap = 6
  MaxLists = 2
SPECIFICATION Spec
INVARIANTS ListingExact
PROPERTIES RetrySamePage
