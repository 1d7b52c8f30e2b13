SPECIFICATION Spec
CONSTANTS
  Particles = {2, 3, 4}
  MaxThreads = 2
  N_steps = 2
  MinParticles = 3
  Chunk = 2
  Geometries <- MCGeometries
PROPERTIES KickedByWholeForces LostOnlyAcrossChunks SimulationEnds
CHECK_DEADLOCK FALSE
