\* A server, a location and an "if" in it, with up to four directives: each
\* block can have a default query and queries for one, the other or both of two
\* methods, a target with or without variables, and sizes that are zero, too
\* large or too small for the default of the other one. A refused configuration
\* is the end of nginx, so there is no deadlock check.
CONSTANTS
  Methods = {"GET", "PUT"}
  Upstreams = {"a", "b"}
  Ifs = {3}
  BufSizes = {0, 9}
  MaxSizes = {1, 9}
  PageSize = 2
  MaxDirectives = 4
SPECIFICATION Spec
CHECK_DEADLOCK FALSE
INVARIANTS
  TypeOK
  QueryAsWritten
  TargetAsWritten
  SizesUsable
  HandlerHasTarget
