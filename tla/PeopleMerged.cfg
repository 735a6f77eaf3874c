SPECIFICATION Spec
CONSTANTS
  h1 = h1
  h2 = h2
  c1 = c1
  c2 = c2
  Human = {h1, h2}
  Caller = {c1, c2}
  Hides = {h2}
  Cased = {h1}
  Plugins = {"atlassian", "ldap_ad"}
  Wanted <- OneKnown
  MaxMishaps = 1
  NoEmail = NoEmail
INVARIANTS
  TypeOK
  NobodyMixedUp
PROPERTIES
  NeverForgets
  RacesEnd
