SPECIFICATION Spec
CONSTANTS
  UserIds = {"u1", "u2", "u3"}
  SessionIds = {"s1", "s2", "s3"}
  PortfolioIds = {"p1", "p2", "x1"}
  Reserved = {"x1"}
  Address <- Spelled
  Trimmed <- Texts
  Clients = {"i"}
  Slots = {1, 2}
  Kinds = {"register", "login", "logout", "create", "list", "trade", "view"}
  Burst = 2
  Ttl = 1
  RevokeFails = FALSE
  Users0 <- AnnsAccount
  Sessions0 <- AnnsSession
  Owner0 <- AnnsPortfolio
  MaxRequests = 3
  MaxNow = 2
CHECK_DEADLOCK FALSE
INVARIANTS OneAccountPerAddress OnlyOwnersAreServed LogoutIsFinal RegisteredCanLogIn AdmittedUpToTheBound
