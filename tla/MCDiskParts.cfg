SPECIFICATION MCSpec
CONSTANTS
  Texts <- MCTexts
  Rules <- MCRules
  Trees <- MCTrees
  Commands <- MCCommands
  MaxVanish = 1
  Hosts <- MCHosts
  Searches <- MCSearches
  Candidates <- MCCandidates
  Guesses <- MCGuesses
  Components <- MCComponents
  Deployments <- MCDeployments
  SystemDirs <- MCSystemDirs
  MaxReported = 2
  MaxHops = 2
  MaxComponents = 12
  Plaintexts = {"a", "b", "c", "empty"}
  Corpora <- MCCorpora
  Empty = "empty"
  MaxDepth = 2
  MaxLayers = 3
  MaxOutput = 4
  MaxInflate = 2
  MaxFoldInput = 2
  MaxFoldPasses = 2
  Names = {"a", "b", "o"}
  Pages <- MCPages
  MaxRounds = 2
  Roots <- MCRoots
  Disks <- MCDisks
  Asides <- MCAsides
  Contents <- MCContents
  Limits <- MCLimits
  Locals = {"request", "servletContext", "a", "b"}
  Statements <- MCStatements
  MaxStatements = 5
  Archives <- MCArchives
  Full = 99
  Signature = 7
  HeaderLen = 2
  ReadLimits <- MCReadLimits
INVARIANTS
  DiskIsHonest
  RenamedIsAsNamed
  EveryProposalIsAnswered
  MechanismsAreCredited
  DiscoveryIsConfined
  UnwrappingIsClosed
  ProvenMeansAFlow
  IncludesMissNothing
  CompleteIsTrue
  ScopesAreLexical
  ViewsAgree
CHECK_DEADLOCK FALSE
