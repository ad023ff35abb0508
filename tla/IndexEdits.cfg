SPECIFICATION Spec
CONSTANTS
  Bsl = {module1}
  Descr = {descriptor}
  MaxVersion = 1
  Lost = Lost
  None = None
  Interrupts = FALSE
  EditsDuring = TRUE
  Outages = FALSE
PROPERTIES OneMoreUpdateIsEnough
