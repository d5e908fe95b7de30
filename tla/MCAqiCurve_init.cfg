SPECIFICATION Spec
CONSTANTS
  Ratios <- MCRatios
  Coeffs = {0, 1, 2, 7}
INVARIANTS
  MinusOneMeansInitializing
