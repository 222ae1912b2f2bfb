SPECIFICATION Spec
CONSTANTS
  p1 = p1
  p2 = p2
  Callers = {p1, p2}
  Pairs = {"bg-en"}
  Scripts <- MCScripts
  Latest = 1
  Purposes <- MCPurposes
  System <- MCSystem
  Warm = {"server-info", "models"}
INVARIANTS AnswerCurrent UpdatesSettle ListedIsInstallable
