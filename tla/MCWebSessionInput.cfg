CONSTANTS
  fd1 = fd1
  fd2 = fd2
  Fd <- MCFd
  Nobody = Nobody
  MaxClients = 1
  MaxTokens = 3
  MaxWork = 2
SPECIFICATION Spec
INVARIANT InputAuthorised
