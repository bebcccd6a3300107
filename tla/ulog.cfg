SPECIFICATION Spec
CONSTANTS
  post = post
  get = get
  uri = uri
  none = none
  Verb <- MCVerb
  Key <- MCKey
  None = none
  PageSlots = 2
  MaxTs = 3
  MaxRows = 3
  CrashAfterCut = FALSE
INVARIANTS
  TypeOK
  Monotone
  IndexFaithful
  TrustSound
  CleanCloseTrusted
PROPERTY Implements
