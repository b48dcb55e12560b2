SPECIFICATION MCSpec
CONSTANTS
  Wizards = {c1, c2}
  Operator = op
  Processes = {x1, x2}
  Domains = {d1}
  Nil = Nil
  Plugs = {"pay", "shop", "club"}
  Requires <- Needed
  Majors <- Published
  Clients = {c1, c2}
  Orgs = {"a", "b", "www"}
  ReservedLabels = {"www"}
  Names = {"n"}
  Rows = {x1, x2}
  Absent = Absent
  Pictures = {x1, x2}
  Variants = {"thumb", "full"}
  Uploaders = {c1, c2}
  NoPicture = NoPicture
  Callers = {"caller", "other"}
  Typed = {"account"}
  Limit <- Allowed
  Window <- Periods
  SweepAt = 1
  SweepEvery = 1
  MaxEntries = 2
  MaxNow = 5
  People = {author, x1, x2}
  PostAuthor = author
  Replies = {e1}
  NoOne = NoOne
  MailAttempts = 2
  Posts = {c1, c2}
  Checkers = {c1, c2}
  Grace = 1
  LastBuild = 3
  Unknown = Unknown
  Skins = {"dark"}
  Servers = {x1, x2}
  Admins = {c1, c2}
  NoSkin = NoSkin
SYMMETRY Symmetric
INVARIANTS CompleteIsSeeded LinksLand FilesBehindRows BurstBounded HeardOnce OwnSettings
PROPERTIES RequirementsKept TenantKept UnsubscribeStands BannerKept
CHECK_DEADLOCK FALSE
