SPECIFICATION Spec
CONSTANTS
  Script = {s}
  Page = {p}
  Label = {a, b}
  Value = {0, 1, 2}
  DefaultValue = 1
  Default = Default
  Absent = Absent
  Settable = {a}
  MaxFlows = 2
  MaxEdits = 1
  MaxCommits = 3
  SliderDefault = 2
  MaxAnswers = 1
  Snap <- MCSnap
CHECK_DEADLOCK FALSE
INVARIANTS
  ViewsAgree
  EditsStickUnlessRaced
PROPERTY
  PagesConverge
