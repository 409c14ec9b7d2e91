CONSTANTS
  Row = {0, 1, 2}
  Biomes = {"Forest", "Taiga", "Desert", "Rainforest", "SeasonalForest", "Plains", "Swampland"}
  TreeSamples = {0, 3}
SPECIFICATION PopulationSpec
INVARIANT FootprintInSquare
CHECK_DEADLOCK FALSE
