SPECIFICATION Spec
CONSTANTS
  None = None
  application_json = application_json
  application_octet = application_octet
  text_plain = text_plain
  utf8 = utf8
  TextTypes = {text_plain, application_json}
  StatusCodes <- Codes
  LongBodies = {}
  CACHE_LEN = 1
  Slash = Slash
  Space = Space
  Open = Open
  Close = Close
  Routes <- SmallRoutes
  Conns = {c1}
  Clones <- TwoClones
  Heap <- TwoBlocks
  Wire = Wire
  Junk = Junk
  InlineLen = 12
  StructLen = 2
  Percent = Percent
  Question = Question
  CloseToken = CloseToken
  KeepAliveToken = KeepAliveToken
  Connection <- Connection1
  HexByte <- Hex
  Lower <- Lowercase
  Requests <- SmallRequests
  Answers <- SmallAnswers
  NotFound <- Missing
  MaxEntries = 2
  Attributes = {"query_string", "headers"}
  PoolSizes = {0, 1}
  o1 = o1
  o2 = o2
  b1 = b1
  b2 = b2
  g = g
  p = p
  u = u
  x = x
  y = y
  two = two
  three = three
  five = five
  F = F
  f = f
  H = H
  h = h
  w = w
SYMMETRY Symmetric
INVARIANTS
  FieldsReadTheirBytes
  SameAsPython
  OneOwner
  AnsweredForItself
