SPECIFICATION Spec
CONSTANTS
  Names = {"sam", "devil"}
  Passwords = {p, q}
  Requests = {1, 2}
  MaxAccounts = 3
  Processes = {1, 2}
  Length <- ByName
  SaltOf <- Whole16
  MaxCommands <- TwoAndThree
  Elevatable = {"devil"}
  CommandsOf <- Divided
  Faults = {}
SYMMETRY AnyPassword
INVARIANT KeyFitsAccount
CHECK_DEADLOCK FALSE
