----------------------------- MODULE MCCatalogue -----------------------------
(* The components that keep the catalogue: families, the jobs over it, the    *)
(* general PickScore, Apple's options, what reviews say of which machine, and *)
(* saved pages. Each is a part of its own.                                    *)
EXTENDS MCParts, PickScore

CONSTANTS
    Products, Family, Key, Names, Editors, MaxRefs,          \* Families
    Laptops, Tags, Slots, TagLimit, MaxRev, MaxStarts,       \* CatalogJobs
    Sizes, Chips, Named, OnSpecs, Configurator, Configs, Fetchers,    \* AppleOptions
    Reviewed, Lines, Columns, Specs, LabelColumns, Unstateable, Probed, Links, Sayings, Praise,
    TopPoints, LabelParts, MaxClaims, MaxEdits,              \* ReviewPages
    Targets, Canonicals, BrandOf, Brands, Slug, Longer, Documents, Requests,
    MaxBatch, MaxUploads                                     \* SavedPages

VARIABLES filed, families, blocked, editing,
          laptop, vector, tagged, categories, marks, score, job, refreshed, started,
          offer, options, fetcher,
          line, suspended, claims, waiting, pass, tick, edited,
          queued, pages, batch, parse, uploads

(* Three products of one seed key, two families.                              *)
SeedKey == [l \in {1, 2, 3} |-> "k"]
Fa == INSTANCE Families WITH laptops <- filed, Laptops <- Products

Cj == INSTANCE CatalogJobs

-----------------------------------------------------------------------------
(* PickScore: rows that match exactly, closely and not; two names of one      *)
(* Qualcomm part; a desktop card with a laptop row and one without; Apple's.  *)

BenchmarkRows == {"i5", "i7", "x1", "rtx60", "rtx60 laptop", "rtx50 4gb laptop", "arc"}
PartNames == BenchmarkRows \cup {"i7 oem", "x1 hp", "rtx99", "radeon graphics", "apple 10", "odd", "rtx50"}

FuzzyScore ==
    [n \in PartNames |-> [r \in BenchmarkRows |->
        CASE n = r -> 100
          [] n = "i7 oem" /\ r = "i7" -> 92
          [] n = "rtx99" /\ r = "rtx60" -> 80
          [] n = "x1 hp" /\ r = "i5" -> 91
          [] n = "x1 hp" /\ r = "x1" -> 85
          [] OTHER -> 40]]

Weights(price, cpu, gpu, memory, carry, battery, size, brand) ==
    [price |-> price, cpu |-> cpu, gpu |-> gpu, ram_storage |-> memory,
     portability |-> carry, battery |-> battery, screen_size |-> size, brand |-> brand]

Machine(price, cpu, gpu, ram, hdd, weight, family) ==
    [price |-> price, cpu |-> cpu, gpu |-> gpu, ram |-> ram, storage |-> 1, hdd |-> hdd,
     weight |-> weight, battery |-> 50, size |-> 1, brand |-> "acer", line |-> family]

ScoredMachines ==
    {Machine(2, "i7 oem", "rtx60", 2, FALSE, weight, fam) : weight \in {1, 2}}
    \cup {Machine(4, "i7 oem", "rtx60", ram, ram = 1, 2, fam) : ram \in {1, 2}}
    \cup {Machine(4, parts[1], parts[2], 1, FALSE, 2, Unknown) :
            parts \in {<<"i5", "rtx99">>, <<"i5", "radeon graphics">>, <<"odd", "rtx99">>, <<"i5", "apple 10">>}}
    \cup {Machine(0, "x1 hp", "rtx50", 1, FALSE, 1, Unknown)}

Wished ==
    {[budget |-> budget, size |-> 1, brands |-> {"acer"}, purposes |-> {"gaming", "office"},
      carry |-> carry, priorities |-> [portability |-> 8, price |-> 5]] :
        budget \in {Unknown, 0, 3}, carry \in {"Yes", "No"}}

CpuRows == [i5 |-> 20, i7 |-> 30, x1 |-> 22]
GpuRows == "rtx60" :> 99 @@ "rtx60 laptop" :> 90 @@ "rtx50 4gb laptop" :> 70 @@ "arc" :> 20
QualcommPart == [n \in PartNames |-> IF n \in {"x1", "x1 hp"} THEN "x126100" ELSE Unknown]
PlainName == [n \in PartNames |-> IF n = "rtx60 laptop" THEN "rtx60" ELSE n]
ByHand == [rtx50 |-> "rtx50 4gb laptop"]
AppleGpu == "apple 10" :> "rtx50 4gb laptop"
FusedGpu == [i5 |-> "arc"]
UseCases == [gaming |-> Weights(4, 8, 10, 7, 1, 1, 4, 1),
             office_study |-> Weights(9, 6, 2, 5, 7, 8, 2, 1)]
PurposeBoosts == [gaming |-> [gpu |-> 13, cpu |-> 12, ram_storage |-> 11],
                  office |-> [price |-> 13, battery |-> 12, portability |-> 12, cpu |-> 11]]

-----------------------------------------------------------------------------
(* Apple: two chips, and a twin that the configure pages name and the specs   *)
(* page does not; a second version in which a value is blocked, another is    *)
(* new and the prices moved.                                                  *)

AppleSizes == {"13"}
Option(delta, selected, isBlocked) == [delta |-> delta, selected |-> selected, blocked |-> isBlocked]
SmallMemory(delta, isBlocked) == "16gb" :> Option(0, TRUE, FALSE) @@ "24gb" :> Option(delta, FALSE, isBlocked)
BigMemory == "24gb" :> Option(0, TRUE, FALSE) @@ "32gb" :> Option(4, FALSE, FALSE)
NewBigMemory == "24gb" :> Option(3, FALSE, FALSE) @@ "48gb" :> Option(9, TRUE, FALSE)
Keyboard == "us" :> Option(None, TRUE, FALSE)

Shop ==
    << [small |-> [price |-> 10, offers |-> "memory" :> SmallMemory(2, FALSE)],
        big   |-> [price |-> 20, offers |-> "memory" :> BigMemory @@ "keyboard" :> Keyboard]],
       [small |-> [price |-> 11, offers |-> "memory" :> SmallMemory(3, TRUE) @@ "keyboard" :> Keyboard],
        big   |-> [price |-> 22, offers |-> "memory" :> NewBigMemory]] >>

ChipsNamed == [s \in AppleSizes |-> {"small", "big", "twin"}]
ChipsListed == [s \in AppleSizes |-> {"small", "big"}]
StandardConfigs == {[size |-> "13", chip |-> "small", own |-> "memory" :> "16gb"],
                    [size |-> "13", chip |-> "big", own |-> "memory" :> "24gb"]}

Ao == INSTANCE AppleOptions WITH rows <- options

-----------------------------------------------------------------------------
(* Two machines that a review can tell apart, and one that only its price     *)
(* tells from the second; in one product line or not.                         *)

Tracked == <<"price", "cpu", "ram", "panel">>
Labelled == <<"cpu", "ram">>
TrackedSpecs == <<[price |-> "low", cpu |-> "a", ram |-> "16gb", panel |-> "ips"],
                  [price |-> "mid", cpu |-> "b", ram |-> "16gb", panel |-> "ips"],
                  [price |-> "high", cpu |-> "b", ram |-> "16gb", panel |-> "ips"]>>
ReviewLinks == {{<<fam, None>>}, {<<fam, 2>>}, {<<fam, 1>>, <<fam, 2>>}}

Rp == INSTANCE ReviewPages WITH clock <- tick, Machines <- Reviewed

(* A page under two hosts, and a product whose slug begins with the other's.  *)
Saved(canonical, html, specs) ==
    [canonical |-> canonical, override |-> None, size |-> "fits", html |-> html,
     local |-> FALSE, photos |-> 1, specs |-> specs]

Slugs == [x |-> "x", xy |-> "xy"] @@ "www:x" :> "x"
PageBrands == [t \in {"x", "xy"} |-> "acer"]
SavedFiles == {Saved("x", TRUE, TRUE), Saved("www:x", TRUE, FALSE), Saved("xy", FALSE, TRUE)}

LikeFinds == {<<"x", "xy">>, <<"www:x", "xy">>}

Sp == INSTANCE SavedPages

ASSUME CatalogueAssumption ==
    /\ Fa!KeyAssumption /\ Fa!NoneAssumption
    /\ Cj!CatalogAssumption
    /\ Ao!OptionsAssumption
    /\ Rp!PagesAssumption
    /\ Sp!SavedPagesAssumption

-----------------------------------------------------------------------------

FamiliesOff == filed = Off /\ families = Off /\ blocked = Off /\ editing = Off
JobsOff == /\ laptop = Off /\ vector = Off /\ tagged = Off /\ categories = Off /\ marks = Off
           /\ score = Off /\ job = Off /\ refreshed = Off /\ started = Off
ScoresOff == machine = Off /\ onSale = Off /\ scoreRows = Off /\ served = Off
OptionsOff == offer = Off /\ options = Off /\ fetcher = Off
ReviewsOff == /\ line = Off /\ suspended = Off /\ claims = Off /\ waiting = Off /\ pass = Off
              /\ tick = Off /\ edited = Off
PagesOff == queued = Off /\ pages = Off /\ batch = Off /\ parse = Off /\ uploads = Off
CatalogueOff == FamiliesOff /\ JobsOff /\ ScoresOff /\ OptionsOff /\ ReviewsOff /\ PagesOff

CatalogueInit ==
    /\ part \in {"families", "jobs", "scores", "options", "reviews", "pages"}
    /\ IF part = "families" THEN Fa!CatalogInit ELSE FamiliesOff
    /\ IF part = "jobs" THEN Cj!CatalogInit ELSE JobsOff
    /\ IF part = "scores" THEN ScoreInit ELSE ScoresOff
    /\ IF part = "options" THEN Ao!OptionsInit ELSE OptionsOff
    /\ IF part = "reviews" THEN Rp!PagesInit ELSE ReviewsOff
    /\ IF part = "pages" THEN Sp!SavedInit ELSE PagesOff

filing == <<filed, families, blocked, editing>>
jobs == <<laptop, vector, tagged, categories, marks, score, job, refreshed, started>>
scores == <<machine, onSale, scoreRows, served>>
shop == <<offer, options, fetcher>>
reviews == <<line, suspended, claims, waiting, pass, tick, edited>>
saved == <<queued, pages, batch, parse, uploads>>
catalogues == <<filing, jobs, scores, shop, reviews, saved>>

CatalogueNext ==
    \/ part = "families" /\ Fa!CatalogNext /\ UNCHANGED <<part, jobs, scores, shop, reviews, saved>>
    \/ part = "jobs" /\ Cj!CatalogNext /\ UNCHANGED <<part, filing, scores, shop, reviews, saved>>
    \/ part = "scores" /\ ScoreNext /\ UNCHANGED <<part, filing, jobs, shop, reviews, saved>>
    \/ part = "options" /\ Ao!OptionsNext /\ UNCHANGED <<part, filing, jobs, scores, reviews, saved>>
    \/ part = "reviews" /\ Rp!PagesNext /\ UNCHANGED <<part, filing, jobs, scores, shop, saved>>
    \/ part = "pages" /\ Sp!SavedNext /\ UNCHANGED <<part, filing, jobs, scores, shop, reviews>>

CatalogueSpec == CatalogueInit /\ [][CatalogueNext]_<<part, catalogues>>

-----------------------------------------------------------------------------
(* The properties of the parts, on the behaviours of their part               *)

(* Families: what is assigned by evidence never picks a side.                 *)
NeverGuesses == [][part = "families" => Fa!NeverGuessesStep]_filing
(* CatalogJobs: a run's counts are what it stored.                            *)
CountedIsStored == part = "jobs" => Cj!CountedIsStored
(* CatalogJobs: a refresh of the benchmarks is followed by its scores.        *)
ScoresFollowMarks == part = "jobs" => Cj!ScoresFollowMarks
(* PickScore: a machine that is better in everything never scores lower.      *)
DominanceHolds == part = "scores" => Dominance
(* PickScore: in the gaming ranking no guess stands before a measured GPU.    *)
MeasuredComesFirst == part = "scores" => MeasuredFirst
(* AppleOptions: every quote is one that Apple's configurator gave.           *)
QuotesAreApples == part = "options" => Ao!QuotesAreApples
(* ReviewPages: three readers agree whether a laptop has reviews.             *)
ReadersAgree == part = "reviews" => Rp!ReadersAgree
(* SavedPages: a queued target has a page behind it.                          *)
QueuedHasPage == part = "pages" => Sp!QueuedHasPage
(* SavedPages: the numbers a batch reports are what its commit did.           *)
SummaryIsTrue == [][part = "pages" => Sp!SummaryIsTrueStep]_saved
=============================================================================
