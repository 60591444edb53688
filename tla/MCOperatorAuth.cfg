\* Two sessions, two failures within the window of two steps, one restart.
CONSTANTS
  admin = admin
  viewer = viewer
  r1 = r1
  Admin = admin
  Viewer = viewer
  Totp <- MCTotp
  RecoveryCodes = {r1}
  LoginWindow = 2
  MaximumLoginFailures = 2
  IdleTimeout = 1
  AbsoluteTimeout = 3
  MaxClock = 3
  MaxSessions = 2
  MaxAttempts = 4
  MaxCrashes = 1
SPECIFICATION Spec
INVARIANTS FactorsAreUsedOnce DenialsAreBounded
PROPERTY EndedSessionsStayEnded
CHECK_DEADLOCK FALSE
