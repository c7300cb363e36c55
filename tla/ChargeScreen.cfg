CONSTANTS
  Width = 8
  Height = 5
  Colors <- Palette
  Background = "bg"
  MaxRectangles = 20
  AtX <- SampleX
  AtY <- SampleY
  Margin = 1
  NoCapacity = NoCapacity
  Capacities <- Readings
  Frames = 2
  BandStep = 2
  Artwork <- Pictures2
  PainterFails = TRUE
SPECIFICATION SSpec
INVARIANTS ExactCover Merged ScreenTrue
CHECK_DEADLOCK FALSE
