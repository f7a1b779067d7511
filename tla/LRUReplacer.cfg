\* Five frames: every length of list, with a neighbour on each side.
CONSTANTS
  Frames = {f1, f2, f3, f4, f5}
  NoFrame = NoFrame
  DummyStart = DummyStart
  DummyEnd = DummyEnd
  Null = Null
SPECIFICATION Spec
INVARIANT TypeOK
INVARIANT LinksMatchOrder
PROPERTY ImplementsReplacer
