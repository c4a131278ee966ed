SPECIFICATION Spec
CONSTANTS
  Services = {s1}
  Rules <- DropRule
  Rates = {0, 3}
  GoneAfter = 2
  Global = Global
  None = None
PROPERTIES
  DropsFromPreviousEvaluation
