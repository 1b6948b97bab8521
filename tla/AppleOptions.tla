---------------------------- MODULE AppleOptions ----------------------------
(* Apple's build-to-order options: the step that fetches them kit by kit, as  *)
(* a job of its own or at the end of an Apple scrape, the table it fills, and *)
(* the prices the configurator answers from that table. A kit is one chip on  *)
(* one size. Two Apple scrapes may run together.                              *)
EXTENDS Naturals, FiniteSets, Sequences, SequencesExt, FiniteSetsExt

CONSTANTS Sizes, Chips,
          Named,      \* the chips the configure pages of a size name
          OnSpecs,    \* the chips the specs page section of a size lists
          Configurator, \* per version and chip: [price, offers], see below
          Configs,    \* the standard configs: [size, chip, own]
          Fetchers, None

(* offers: group -> value -> [delta, selected, blocked]; a delta is Apple's,  *)
(* on a scale of its own, or None for a group without prices. The chip is no  *)
(* option of a kit: parse_kit leaves its group out.                           *)
OptionsAssumption ==
    /\ IsFiniteSet(Sizes) /\ IsFiniteSet(Chips)
    /\ Named \in [Sizes -> SUBSET Chips] /\ OnSpecs \in [Sizes -> SUBSET Chips]
    /\ Len(Configurator) \in Nat \ {0} /\ None \notin Chips
    /\ \A v \in 1..Len(Configurator) :
          \A chip \in UNION {Named[s] \cap OnSpecs[s] : s \in Sizes} :
              LET offers == Configurator[v][chip].offers IN
              /\ "chip" \notin DOMAIN offers
              /\ \A g \in DOMAIN offers : IsFiniteSet(DOMAIN offers[g])

VARIABLES offer,     \* the version of the configurator that Apple shows now
          rows,      \* laptop_options
          fetcher    \* the jobs that fetch

options == <<offer, rows, fetcher>>

\* at: "free", "scrape", "read", "page", "kit", "write", "commit"
Unused == [at |-> "free", scrape |-> FALSE, sizes |-> <<>>, chips |-> <<>>, kits |-> {}, saw |-> {}]

OptionsInit ==
    /\ offer = 1
    /\ rows = {}
    /\ fetcher = [f \in Fetchers |-> Unused]

Turn(f, j) == fetcher' = [fetcher EXCEPT ![f] = j]

Reprice ==
    /\ offer < Len(Configurator)
    /\ offer' = offer + 1
    /\ UNCHANGED <<rows, fetcher>>

-----------------------------------------------------------------------------
(* Reading Apple                                                              *)

(* What parse_kit accepts: one selected value per group, a group priced       *)
(* throughout or not at all, and a memory or a storage group.                 *)
Readable(offers) ==
    /\ \A g \in DOMAIN offers :
          /\ Cardinality({v \in DOMAIN offers[g] : offers[g][v].selected}) = 1
          /\ {offers[g][v].delta = None : v \in DOMAIN offers[g]} # BOOLEAN
    /\ DOMAIN offers \cap {"memory", "storage"} # {}

Selected(group) == CHOOSE v \in DOMAIN group : group[v].selected

(* The rows of a kit: the chip's with the price of the kit, and one per       *)
(* option with its price against the selected one of its group.               *)
KitRows(size, chip, kit) ==
    LET Row(g, v, add, inc, blk, price) ==
            [size |-> size, chip |-> chip, group |-> g, value |-> v, add |-> add,
             included |-> inc, blocked |-> blk, price |-> price]
        Add(group, v) == IF group[v].delta = None THEN None
                         ELSE <<group[v].delta, group[Selected(group)].delta>>
    IN  {Row("chip", chip, None, TRUE, FALSE, kit.price)} \cup
        UNION {{Row(g, v, Add(kit.offers[g], v), kit.offers[g][v].selected,
                    kit.offers[g][v].blocked, None) : v \in DOMAIN kit.offers[g]}
               : g \in DOMAIN kit.offers}

-----------------------------------------------------------------------------
(* Who may start                                                              *)

ActiveApple == {f \in Fetchers : fetcher[f].at # "free"}
FetchesNow == {f \in ActiveApple : ~fetcher[f].scrape}

FetchNow(f) ==
    /\ fetcher[f] = Unused /\ ActiveApple = {}
    /\ Turn(f, [Unused EXCEPT !.at = "read"])
    /\ UNCHANGED <<offer, rows>>

(* A scrape is refused by a fetch only, not by another scrape.                *)
StartAppleScrape(f) ==
    /\ fetcher[f] = Unused /\ FetchesNow = {}
    /\ Turn(f, [Unused EXCEPT !.at = "scrape", !.scrape = TRUE])
    /\ UNCHANGED <<offer, rows>>

(* The options step follows unless the run was cancelled or no buy page of it *)
(* succeeded.                                                                 *)
AfterBuyPages(f) ==
    /\ fetcher[f].at = "scrape"
    /\ \E step \in BOOLEAN : Turn(f, IF step THEN [fetcher[f] EXCEPT !.at = "read"] ELSE Unused)
    /\ UNCHANGED <<offer, rows>>

-----------------------------------------------------------------------------
(* The options step                                                           *)

(* A size without a stored buy page or without a section is no target.        *)
ReadTargets(f) ==
    /\ fetcher[f].at = "read"
    /\ \E T \in SUBSET Sizes : Turn(f, [fetcher[f] EXCEPT !.at = "page", !.sizes = SetToSeq(T)])
    /\ UNCHANGED <<offer, rows>>

(* parse_configure_page: the standard kit's chip and the chips with a label.  *)
OnConfigurePages(size) == Named[size]
(* chip_strings: the chips that the size's section lists with their cores.    *)
Listed(size) == OnSpecs[size]

(* Apple names every chip of the collection on every size.                    *)
Asked(size) == OnConfigurePages(size) \cap Listed(size)

NextSize(j) == [j EXCEPT !.at = "page", !.sizes = Tail(@)]
Refused(j) == [j EXCEPT !.at = "write"]     \* 403, 429 or a captcha: nothing more is asked

(* The configure pages of a size: one that fails costs the size, and its rows *)
(* stay.                                                                      *)
FetchPages(f) ==
    LET j == fetcher[f] IN
    /\ j.at = "page"
    /\ \/ j.sizes = <<>> /\ Turn(f, Refused(j))
       \/ /\ j.sizes # <<>>
          /\ \/ Turn(f, [j EXCEPT !.at = "kit", !.chips = SetToSeq(Asked(Head(j.sizes)))])
             \/ Turn(f, NextSize(j))
             \/ Turn(f, Refused(j))
    /\ UNCHANGED <<offer, rows>>

(* One kit: what fails to be read is listed, and the others carry on. The     *)
(* kits of a size that Apple refuses half way are dropped with the exception. *)
FetchKit(f) ==
    LET j == fetcher[f]
        kit == Configurator[offer][Head(j.chips)]
        rest == [j EXCEPT !.chips = Tail(@)]
    IN  /\ j.at = "kit"
        /\ \/ j.chips = <<>> /\ Turn(f, NextSize(j))
           \/ /\ j.chips # <<>>
              /\ \/ /\ Readable(kit.offers)
                    /\ Turn(f, [rest EXCEPT !.kits = @ \cup KitRows(Head(j.sizes), Head(j.chips), kit)])
                 \/ Turn(f, rest)
                 \/ Turn(f, Refused([j EXCEPT !.kits = {r \in @ : r.size # Head(j.sizes)}]))
        /\ UNCHANGED <<offer, rows>>

KitsOf(R) == {<<r.size, r.chip>> : r \in R}
KeyOf(r) == <<r.size, r.chip, r.group, r.value>>

(* The DELETEs: they see the committed rows of the kits that were fetched.    *)
DeleteOld(f) ==
    /\ fetcher[f].at = "write"
    /\ Turn(f, [fetcher[f] EXCEPT !.at = "commit",
                    !.saw = {r \in rows : <<r.size, r.chip>> \in KitsOf(fetcher[f].kits)}])
    /\ UNCHANGED <<offer, rows>>

UpsertRows(j, R) ==          \* mutant: a row that is there already is updated
    {r \in R \ j.saw : \A n \in j.kits : KeyOf(r) # KeyOf(n)} \cup j.kits

(* The INSERTs: a row that another fetch has put there since breaks the       *)
(* unique key, and the whole write is rolled back.                            *)
Breaks(j, R) == {KeyOf(r) : r \in R \ j.saw} \cap {KeyOf(n) : n \in j.kits} # {}
WriteRows(j, R) == IF Breaks(j, R) THEN R ELSE (R \ j.saw) \cup j.kits

(* The commit. What it put there are new rows, whatever they say: the DELETE  *)
(* of another fetch saw those before them.                                    *)
CommitOptions(f) ==
    LET j == fetcher[f]
        written == IF Breaks(j, rows) THEN {} ELSE j.kits
    IN  /\ j.at = "commit"
        /\ rows' = WriteRows(j, rows)
        /\ fetcher' = [g \in Fetchers |-> IF g = f THEN Unused
                                          ELSE [fetcher[g] EXCEPT !.saw = @ \ written]]
        /\ UNCHANGED offer

OptionsNext ==
    \/ Reprice
    \/ \E f \in Fetchers :
          \/ FetchNow(f) \/ StartAppleScrape(f) \/ AfterBuyPages(f) \/ ReadTargets(f)
          \/ FetchPages(f) \/ FetchKit(f) \/ DeleteOld(f) \/ CommitOptions(f)

-----------------------------------------------------------------------------
(* The configurator: pure, over the rows of one read                          *)

(* kits_from_rows: the chips of a size that have a price.                     *)
Offering(R, size) == {r.chip : r \in {r \in R : r.size = size /\ r.group = "chip"}}
Of(R, size, chip, g) == {r \in R : r.size = size /\ r.chip = chip /\ r.group = g}
GroupsOf(R, size, chip) == {r.group : r \in {r \in R : r.size = size /\ r.chip = chip}} \ {"chip"}
Allows(R, size, chip, g, v) == \E r \in Of(R, size, chip, g) : r.value = v /\ ~r.blocked
Included(R, size, chip, g) == (CHOOSE r \in Of(R, size, chip, g) : r.included).value

(* A config can be configured if the kit of its own chip is stored. Its own   *)
(* choices are its memory and storage; for the rest what that kit includes.   *)
Configurable(R, c) == c.chip \in Offering(R, c.size)
OwnChoice(R, c, g) ==
    IF g \in DOMAIN c.own THEN c.own[g]
    ELSE IF Of(R, c.size, c.chip, g) # {} THEN Included(R, c.size, c.chip, g) ELSE None

(* A request that names one option.                                           *)
Given(g, v) == [x \in {g} |-> v]

(* What was given, else the config's own where the chip allows it, else what  *)
(* the kit includes. A group that the kit lacks is left out, given or not.    *)
ChoicesFor(R, c, chip, given) ==
    [g \in GroupsOf(R, c.size, chip) |->
        IF g \in DOMAIN given THEN given[g]
        ELSE IF Allows(R, c.size, chip, g, OwnChoice(R, c, g)) THEN OwnChoice(R, c, g)
        ELSE Included(R, c.size, chip, g)]

(* Totals are kept as the kit's price and the pair (option, selected) of each *)
(* group, whose difference is the add-on.                                     *)
TotalOf(R, c, chip, choices) ==
    [kit |-> (CHOOSE r \in Of(R, c.size, chip, "chip") : TRUE).price,
     adds |-> [g \in DOMAIN choices |->
                  (CHOOSE r \in Of(R, c.size, chip, g) : r.value = choices[g]).add]]

(* GET configure: 404 without options, 422 for what the chip does not allow;  *)
(* the chip is never switched.                                                *)
Configure(R, c, asked, given) ==
    LET chip == IF asked = None THEN c.chip ELSE asked
        choices == ChoicesFor(R, c, chip, given)
    IN  IF ~Configurable(R, c) THEN [status |-> 404]
        ELSE IF chip \notin Offering(R, c.size) THEN [status |-> 422]
        ELSE IF \E g \in DOMAIN choices \cap DOMAIN given : ~Allows(R, c.size, chip, g, given[g])
        THEN [status |-> 422]
        ELSE [status |-> 200, chip |-> chip, choices |-> choices,
              total |-> TotalOf(R, c, chip, choices)]

(* The listing the assistant reads: every unblocked option of every chip, at  *)
(* the total that one change makes.                                           *)
Listing(R, c) ==
    {[chip |-> r.chip, group |-> r.group, value |-> r.value,
      total |-> TotalOf(R, c, r.chip, ChoicesFor(R, c, r.chip, Given(r.group, r.value)))]
     : r \in {r \in R : r.size = c.size /\ r.group # "chip" /\ ~r.blocked}}

-----------------------------------------------------------------------------
(* Properties                                                                 *)

(* What Apple asked for a configuration in one version of its configurator.   *)
Sold(version, chip, choices) ==
    LET kit == Configurator[version][chip] IN
    /\ DOMAIN choices = DOMAIN kit.offers
    /\ \A g \in DOMAIN choices : choices[g] \in DOMAIN kit.offers[g]
Price(version, chip, choices) ==
    LET kit == Configurator[version][chip] IN
    [kit |-> kit.price,
     adds |-> [g \in DOMAIN choices |->
        IF kit.offers[g][choices[g]].delta = None THEN None
        ELSE <<kit.offers[g][choices[g]].delta, kit.offers[g][Selected(kit.offers[g])].delta>>]]

(* Whatever fetches ran over each other, failed or were cut off, a configured *)
(* price is what Apple asked for exactly that configuration at one time, and  *)
(* no sum of two times; the chip is the one asked for, and what the assistant *)
(* lists at a price is charged at that price.                                 *)
QuotesAreApples ==
    \A c \in Configs :
    /\ \A asked \in Chips \cup {None}, r \in {r \in rows : r.size = c.size /\ r.group # "chip"} :
          LET a == Configure(rows, c, asked, Given(r.group, r.value)) IN
          a.status = 200 =>
              /\ a.chip = IF asked = None THEN c.chip ELSE asked
              /\ r.group \in DOMAIN a.choices => a.choices[r.group] = r.value
              /\ \E v \in 1..offer : Sold(v, a.chip, a.choices) /\ a.total = Price(v, a.chip, a.choices)
    /\ Configurable(rows, c) =>
          \A e \in Listing(rows, c) :
              LET a == Configure(rows, c, e.chip, Given(e.group, e.value)) IN
              a.status = 200 /\ a.total = e.total
=============================================================================
