\* Two concurrent calls, a deployment between them, a snapshot that expires.
SPECIFICATION FairSpec
CONSTANTS
  getDevice = getDevice
  listIocs = listIocs
  setPv = setPv
  newTool = newTool
  magnet = magnet
  bpm = bpm
  current = current
  x = x
  y = y
  NoDevice = NoDevice
  NoTool = NoTool
  Calls = {c1, c2}
  Tools = {getDevice, listIocs, setPv, newTool}
  ReadOnly = {getDevice, listIocs}
  Writes = {setPv}
  Highlighted = {getDevice}
  DirectContent = {listIocs}
  WidgetContent = {getDevice}
  Devices = {magnet, bpm}
  Pvs = {current, x, y}
  Embeddable = {magnet}
  ChartPvs <- MCChartPvs
  MaxVersion = 2
  Listed <- MCListed
  CatalogTtl = 1
  Horizon = 2
INVARIANT OnlyAllowedTools
INVARIANT ExtrasNeverChangeTheAnswer
INVARIANT ShowsAFreshDevice
PROPERTY CallEnds
CHECK_DEADLOCK FALSE
