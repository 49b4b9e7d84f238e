SPECIFICATION FairSpec
CONSTANTS
  Modules = {1, 2, 3, 4}
  Names = {1, 2}
  Default = 2
  Star = Star
  pkg = pkg
  alias = alias
  rel1 = rel1
  rel2 = rel2
  rel3 = rel3
  rel4 = rel4
  Packages = {pkg, alias}
  InternalSpecifiers = {rel1, rel2, rel3, rel4}
  Programs <- MCPrograms
  MaxRequests = 4
  CacheCapacity = 2
  MaxExportDepth = 2
  MaxSccSize = 3
  Absent = Absent
  Miss = Miss
  Unknown = Unknown
  Ambiguous = Ambiguous
  Unresolvable = Unresolvable
INVARIANTS
  AcyclicIsExact
  NamespaceIsExact
PROPERTIES
  EveryLinkEnds
