\* A second instance fails to start and removes the socket of the first.
SPECIFICATION Spec
CONSTANTS
  Processes = {p1, p2}
  NoProcess = NoProcess
PROPERTY
  HealthyKeepsSocket
