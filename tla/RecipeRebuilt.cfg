SPECIFICATION Spec
CONSTANTS
  p1 = p1  p2 = p2
  msi = msi  chocolatey = chocolatey  bare = bare
  win = win  linux = linux
  Proc = {p1, p2}
  Recipe = {msi, chocolatey, bare}
  Plain = {bare}
  Base = {win, linux}
  BaseOf <- OneBase
  Menu <- OneEach
  Images = 5
  Commands = 3
  None = None
PROPERTIES PresentIsReused
CHECK_DEADLOCK FALSE
