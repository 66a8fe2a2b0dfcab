SPECIFICATION MCSpec
CONSTANTS
  Proc = {"p", "q"}
  Newest = 3
  Repeatable = {2}
  Starts <- Usual
  MaxSets = 2
  MaxLines = 3
  MaxBoots = 2
  LogLimit = 1
  QueueCap = 1
  Frames <- MCFrames
  Statuses = {200, 400, 429, 500, 0, 1}
  MaxFrames = 4
  MaxMessages = 3
  MaxParts = 2
  Models = {{"claude", "gpt-4"}}
  Process = {"p", "q"}
  Id = {"default", "a", "b"}
  Default = "default"
  Name = {"default", "n"}
  NoName = ""
  NameRank <- MCRank
  MaxCommands = 3
  Call = {1, 2, 3}
  Arguments <- MCArguments
  FileOf <- MCFileOf
  Texts <- MCTexts
  Word = {"x", "y", "z", "w"}
  Fallback = {"q"}
  Probes = {{}, {"l"}}
  Answers <- MCAnswers
  Configs <- MCConfigs
  MaxStarts = 3
  Field = {"model", "agent"}
  Value = {"m1"}
  Path = {"a.md"}
  Unset = "unset"
  EnvOf <- MCEnvOf
  Patch <- MCPatch
  Provider = {"p", "q"}
  Keys = {"k2"}
  EnvKey <- MCEnvKey
  ConfigKey <- MCConfigKey
  AuthRequest <- MCAuthRequest
  Tool <- MCTool
  Part = {p1, p2, p3}
  Owner <- MCOwner
  Absent = Absent
  FieldsOf <- MCFieldsOf
  Delta = {"x"}
  Seed = "s"
  Listings <- MCListings
  MaxText = 2
  TypedLines <- MCTypedLines
  SlashCommands <- MCCommands
  Files <- MCFiles
  MaxHistory = 2
  DraftRetentionMin = 2
  MaxSends = 4
  MaxKeys = 5
  Letters <- MCLetters
  Session = {s1, s2, s3}
  None = None
  Nil = Nil
  Matching = {s1, s3}
  Updated <- MCUpdated
  Midnight = 2
  Heights = {1, 3}
  MaxChanges = 2
  MaxPresses = 3
  Overrides <- MCOverrides
  LeaderTimeout = 3
  MaxClock = 7
  MaxLeaders = 3
  Parts = {"driver", "request", "directory", "profiles", "tools", "catalogue", "settings", "store", "prompt", "picker", "keymap"}
  m1 = m1
  m2 = m2
  p1 = p1
  p2 = p2
  p3 = p3
  s1 = s1
  s2 = s2
  s3 = s3
INVARIANTS StreamAgrees RequestsAreSendable SchemaMatchesVersion FilesHold MarkerUsable EditsAreKept CatalogueOutlivesOutage PatchesShow WalkKeepsDraft LeaderWindow
PROPERTIES ImplementsTranscript EventsKeepTheSelection
CHECK_DEADLOCK FALSE
