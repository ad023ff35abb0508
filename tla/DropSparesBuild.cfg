SPECIFICATION Spec
CONSTANTS
  Paths = {"p"}
  CommandLines = {}
  Clients = {"c", "d"}
  Asks = {"register", "check drop"}
  MaxFiles = 2
PROPERTIES DropSparesBuild
