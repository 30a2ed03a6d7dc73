SPECIFICATION GraphsSpec
CONSTANTS
  Contents <- SomeContents
  app = app
  tests = tests
  math = math
  stdlib = stdlib
  main = main
  util = util
  extra = extra
  mathlib = mathlib
  io = io
  x = x
  y = y
  Lib = lib
  Std = stdlib
  NoPackage = NoPackage
  InvalidPackage = InvalidPackage
  NoDir = NoDir
  Dirs <- MCDirs
  Names <- MCNames
  Reserved = {io}
  Items = {x, y}
  Programs <- SmallPrograms
  left = left
  right = right
  appMod = appMod
  leftMod = leftMod
  rightMod = rightMod
  e1 = e1
  e2 = e2
  Roots = {app, left, right}
  Main = app
  Modules = {appMod, leftMod, rightMod}
  Editions = {e1, e2}
  Aliases = {1, 2}
  NoManifest = NoManifest
  BadManifest = BadManifest
  NoLock = NoLock
  MaxEdits = 2
CHECK_DEADLOCK FALSE
INVARIANTS
  FreshIffSame
  PackagesAreSound
  LoadedInOrder
  ModulesAreSound
PROPERTIES
  BothEnd
