SPECIFICATION Spec
CONSTANTS
  SourceTexts <- SampleTexts
  Identifiers = {"a", "b"}
  Numbers = {"1"}
  TreesWritten <- SampleTrees
  TokensWritten <- SampleTokens
  Scripts <- SampleScripts
  MaxScriptsRun = 1
  InstructionBudget = 90
  MaxCallDepth = 3
  Pieces <- SamplePieces
  MaxPieces = 3
  StyledElements <- SampleElements
  RuleLists <- SampleRuleLists
  BaseSheets <- SampleBases
  CssomScripts <- SampleCssom
  HostMutations <- SampleHostMutations
  MaxStyleWork = 2
  Snapshots <- SampleSnapshots
  DetachedNodes = {"d"}
  StyleNames = {"color", "marginTop"}
  StyleValues = {"x"}
  SheetRules <- SampleSheetRules
  MaxStyleCalls = 3
  MaxSheets = 2
  PageSlots = {p, q}
  Visits <- SampleVisits
  UrlLiterals <- SampleUrlLiterals
  CookieLiterals <- SampleCookieLiterals
  OversizedTexts = {"long"}
  MaxCookies = 2
  MaxItems = 1
  MaxHistoryEntries = 2
  MaxEffects = 6
  MaxApiFetches = 2
  MaxVisits = 2
  MaxTime = 2
  SelectorLiterals <- SampleSelectors
  TextLiterals <- SampleTextLiterals
  DocumentUrl <- ShopPage
  WorkerSources <- SampleWorkerSources
  NamesWithSlashes <- SampleNamesWithSlashes
  MaxWorkerEffects = 4
  MaxPrecacheUrls = 2
  PagesWithScripts <- SamplePagesWithScripts
  RenderDocuments <- SampleRenderDocuments
  FetchedSources <- InlineCodes
  MaxScripts = 3
  InteractiveDocuments <- SampleInteractive
  Viewports <- SampleViewports
  CharsTyped = {"x"}
  MaxTyped = 1
  LayoutTrees <- SampleLayoutTrees
  PageSizes <- SamplePageSizes
  LayoutConfig <- SampleLayoutConfig
  ParsedPages <- SampleParsedPages
  Sheets <- SampleSheets
  MaxStylesheets = 2
  MaxImportDepth = 1
  PageTasks = {t1, t2}
  Answers <- SampleAnswers
  PagePlans <- SamplePagePlans
  Batches <- SampleBatches
  MaxRedirects = 1
  MaxBatchItems = 2
  MaxImages = 1
  ImageLimit = 2
  ScriptsAllowed = TRUE
  CacheIsEnabled = TRUE
  MaxLoadsBegun = 2
INVARIANTS
  TokensAreTheSource
  ParserReadsWhatIsWritten
  ScriptsMeanTheirText
  PagesKeepTheirContent
  StylesFollowTheCascade
  StoresServeTheirOwners
  BlocksKeepTheirElements
  ScriptPassIsSound
  ShownPagesAreLaidOut
  FlexGridTreesAreLaidOut
  PageIsExtractedWhole
  ResourceLoadsAreSound
PROPERTIES
  PageAnswersItsUser
  RestyledPagesAreLaidOut
  StyleChangesAreReported
\* A source, a script or a page comes to its end.
CHECK_DEADLOCK FALSE
