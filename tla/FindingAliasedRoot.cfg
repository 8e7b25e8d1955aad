\* The root that `ccc-agent setup' configures in user mode.
CONSTANTS
  Paths <- MCHomePaths
  Names <- MCHomeNames
  Canon <- MCHomeCanon
  Static <- MCHomeCode
  Dynamic = {}
  MayEnd = FALSE
  DenyMatched = {}
  Deniable = {}
  Vanishing = {}
  Tokens = {t1}
  MaxVersion = 1
SPECIFICATION Spec
PROPERTIES UnderlayNeedsScopeOrConsent
CHECK_DEADLOCK FALSE
