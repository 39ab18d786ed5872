\* Every file of one or two documents against every render.
SPECIFICATION OwnershipSpec
CONSTANTS
  f1 = f1
  f2 = f2
  m1 = m1
  m2 = m2
  m3 = m3
  i1 = i1
  i2 = i2
  NoLabel = NoLabel
  NotAName = NotAName
  Manifests <- MCManifests
  Renders <- MCRenders
INVARIANTS DeletionIsOwned WritersTakeBackTheirOwn ReplacementIsOwned
