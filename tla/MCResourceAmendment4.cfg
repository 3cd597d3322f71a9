SPECIFICATION Spec
CONSTANTS
  Callers = {c1, c2}
  Size = 1
PROPERTIES FreeUnitsAreTaken
