SPECIFICATION MCSpec
CONSTANTS
  Callers = {1, 2}
  Handles = {h1, h2}
  Sizes = {1, 4}
  MaxChanges = 1
  Nil = Nil
  Kinds = {"local", "restricted", "noLetter", "gone"}
  Buffers = {b1, b2, b3}
  MinWStringCap = 3
  Roots = {r1}
  FirstPath = 2
  FirstCount = 2
  Versions = {1, 2}
  Entries = {e1}
  Packages = {"vhd", "security", "sd", "process", "backup", "fs", "bindfilter"}
  Goroutines = {g1, g2}
  Threads = {t1, t2}
  Names = {a, b}
  Assigned = {a}
  MaxDepth = 2
  Absent = Absent
INVARIANTS HandlesAreOwn ResultIsWhole GrantKeepsEntries PrivilegesAreScoped FnHasPrivileges
PROPERTY QueriesEnd
CHECK_DEADLOCK FALSE
