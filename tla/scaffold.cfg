\* Three runs over one chain directory, cut anywhere, with edits in between.
CONSTANTS
  Generated = {"go.mod", "README.md", "app"}
  Project = {"configs", "scripts"}
  Versions = {1, 2}
  IgniteVersion = 0
  Paths = {"default", "elsewhere"}
  MaxRuns = 3
SPECIFICATION Spec
INVARIANTS TypeOK ReportsTrue
PROPERTY EditsKept
CHECK_DEADLOCK FALSE
