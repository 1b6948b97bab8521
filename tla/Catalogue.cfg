SPECIFICATION CatalogueSpec
CONSTANTS
    Off = Off
    None = None
    theOne = theOne
    theOther = theOther
    fam = fam
    Models = {1, 2}
    Machines <- ScoredMachines
    Unknown = Unknown
    CpuTable <- CpuRows
    GpuTable <- GpuRows
    Confidence <- FuzzyScore
    PartNumber <- QualcommPart
    Placeholders = {"odd"}
    Anchored = {"rtx60", "rtx50", "rtx99"}
    Canonical <- PlainName
    Suffixed = {"rtx60 laptop", "rtx50 4gb laptop"}
    Overrides <- ByHand
    AppleRow <- AppleGpu
    IntegratedRow <- FusedGpu
    CpuThreshold = 90
    GpuThreshold = 85
    Profiles <- UseCases
    Boosts <- PurposeBoosts
    Wishes <- Wished
    Products = {1, 2, 3}
    Family = {11, 12}
    Key <- SeedKey
    Names = {"k"}
    Editors = {theOne, theOther}
    MaxRefs = 1
    Laptops = {1, 2}
    Tags = {"thin"}
    Slots = {theOne, theOther}
    TagLimit = 2
    MaxRev = 2
    MaxStarts = 2
    Sizes = {"13"}
    Chips = {"small", "big", "twin"}
    Named <- ChipsNamed
    OnSpecs <- ChipsListed
    Configurator <- Shop
    Configs <- StandardConfigs
    Fetchers = {theOne, theOther}
    Reviewed = {1, 2, 3}
    Lines = {fam}
    Columns <- Tracked
    Specs <- TrackedSpecs
    LabelColumns <- Labelled
    Unstateable = {"ram"}
    Probed = {"cpu", "ram"}
    Links <- ReviewLinks
    Sayings = {"cool"}
    Praise = {"cool"}
    TopPoints = 1
    LabelParts = 2
    MaxClaims = 2
    MaxEdits = 2
    Targets = {"x", "xy"}
    Canonicals = {"x", "www:x"}
    BrandOf <- PageBrands
    Brands = {"acer"}
    Slug <- Slugs
    Longer <- LikeFinds
    Documents <- SavedFiles
    Requests = {theOne, theOther}
    MaxBatch = 2
    MaxUploads = 2
INVARIANTS CountedIsStored  DominanceHolds MeasuredComesFirst
           QuotesAreApples ReadersAgree QueuedHasPage
PROPERTIES NeverGuesses SummaryIsTrue
SYMMETRY Symmetry
CHECK_DEADLOCK FALSE
