SPECIFICATION MCSpec
CONSTANTS
  Nil = Nil
  Callers = {"c1", "c2"}
  Readers = {"u1", "u2", "u3"}
  Users = {"u1", "u2"}
  UserOf <- MCUserOf
  PromptNames = {"n1", ""}
  PromptIds = {"p1", "p2"}
  VersionIds = {"v1"}
  SessionIds = {"s1"}
  MaxEvents = 3
  MaxSessions = 2
  FileSessions = {"s1", "s2"}
  Files = {"f1"}
  UserFiles = {"f2"}
  FileContents = {"d1", "d2"}
  MaxSaves = 2
  ModelNames = {"n1", "n2", "n3"}
  Patterns = {"p1", "p2"}
  Matching <- MCMatching
  Creators = {"c1", "c2"}
  CacheSize = 2
  Types = {"code_interpreter"}
  Configured = {"code_interpreter"}
  MaxExtensions = 2
  CorpusConfigs = {{"managed", "vertex"}}
  MaxFiles = 2
  MaxPending = 2
  Corpora = {"a", "b"}
  MaxDocuments = 2
  Regions = {"us-central1", "europe-west1"}
  MaxObjects = 2
  MaxContent = 2
  Contexts = {"x", "y", "t", "u"}
  ToolContexts = {"t", "u"}
  Prepared = {"x", "t"}
  StateKeys = {"app"}
  MaxValues = 3
  Processors = 2
  Callbacks = 2
  MaxSteps = 3
  MaxYields = 4
  MaxResponses = 2
INVARIANTS
  ServicesTypeOK
  MetricsSound
  PromptsSound
  SessionsSound
  ArtifactsKept
  RegistrySound
  CredentialsSound
  StepsInOrder
  HistoryCanBeResent
  SchemasSound
CHECK_DEADLOCK FALSE
