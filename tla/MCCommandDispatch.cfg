CONSTANTS
  Hundredths <- Numbers
  Window = 1
SPECIFICATION Spec
PROPERTY ImplementsSettings
