CONSTANTS
  Hosts = {"h", "g"}
  Paths = {"", "a", "b"}
  Pages <- ThreePages
  Answers <- Everything
  Outputs = {None, "o"}
  Cookies <- UserCookies
  Connections = 3
  None = None
SPECIFICATION FairSpec
INVARIANTS
  CldTypeOK
  DownloadsLastPage
  NamedByFirstPage
  OpensOnlyForAPage
  ReadsEveryHeader
  CarriesFirstCookie
PROPERTIES
  EndsUnlessCircular
