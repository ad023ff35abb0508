SPECIFICATION Spec
CONSTANTS
  Bsl = {module1}
  Descr = {descriptor}
  MaxVersion = 1
  Lost = Lost
  None = None
  Interrupts = FALSE
  EditsDuring = FALSE
  Outages = TRUE
PROPERTIES OneMoreUpdateIsEnough
