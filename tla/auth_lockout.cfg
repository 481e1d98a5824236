SPECIFICATION Spec
CONSTANTS
  server = server
  cli = cli
  configured = configured
  env = env
  admin = admin
  other = other
  s1 = s1
  s2 = s2
  s3 = s3
  p1 = p1
  p2 = p2
  p3 = p3
  None = None
  Torn = Torn
  Processes <- MCProcesses
  Configured <- MCConfigured
  Email <- MCEmail
  Secrets <- MCSecrets
  Passwords <- MCPasswords
  Faults = {"crash"}
SYMMETRY Alike
INVARIANTS
  CredentialsPublished
