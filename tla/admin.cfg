SPECIFICATION Spec
CONSTANTS
   Calls = {"c1", "c2"}
   Hosts = {"h1", "h2"}
   Addresses = 2
   MaxRedirects = 2
   MaxFaults = 1
   MaxAges = 2
   Samples <- OffloadPolicies
   Plans <- SetterAndOther
INVARIANTS EndpointsRight AnswersAreTrue CredentialsLive
PROPERTY CallsReturn
CHECK_DEADLOCK FALSE
