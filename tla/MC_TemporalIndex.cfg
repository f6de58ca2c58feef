SPECIFICATION Spec
CONSTANTS
  Fields <- MCFields
  ResolutionWidth = 3
  Resolutions = {7}
  Objects = {a, b}
  a = a
  b = b
SYMMETRY Symmetry
INVARIANTS
  WordsAreSound
  CarriesAdd
PROPERTIES
  ChangesStayTogether
