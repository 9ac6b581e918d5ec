SPECIFICATION MessagesSpec
CONSTANTS
  t1 = t1
  t2 = t2
  b1 = b1
  b2 = b2
  TokenFields <- TokenValues
  Notes = {"hello"}
  Builders <- TwoBuilders
  MaxObjects = 2
  MaxData = 2
  MaxEntries = 2
  FCMBatch = 3
  ExpoBatch = 2
  MaxMessages = 2
  Engines = {"mailer", "pusher"}
  Ids = {"welcome"}
  Locales = {"en", "fr"}
  Contents = {"hello", "bonjour"}
  DefaultLocale = "en"
  Directories <- WelcomeFiles
  Codes = {"en", "fr"}
  Keys = {"title", "body"}
  Texts = {"Hello"}
  FallbackLocale = "en"
  DefaultCode = "fr"
  LocaleFiles <- TableFiles
  MaxCalls = 4
SYMMETRY Symmetric
INVARIANTS ResultsMatchTargets OwnContent RendersLatest TranslatesLatest
CHECK_DEADLOCK FALSE
