CONSTANTS
  Clients = {c1, c2}
  Parent = Parent
  ServerBuilds <- MCServerBuilds
  ClientBuilds <- MCClientBuilds
  Tries = 2
  Backlog = 2
  Failures = {"accept", "fork", "bind", "kill"}
SPECIFICATION FairSpec
INVARIANTS PrivateSockets CompatibleOnly OneAnswer EventsAgree
PROPERTIES ClientsComeBack ServerKeepsAccepting NothingLeftBehind
