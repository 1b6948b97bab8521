----------------------------- MODULE ReviewPages -----------------------------
(* What a review says of which machine: the candidates a processing run       *)
(* offers to the model, where each window's claim is stored, and the three    *)
(* readers of the stored claims: the public page of a laptop, the assistant's *)
(* evidence and the admin's coverage numbers.                                 *)
(* ReviewClaims has the windows and the staging of one review in full.        *)
EXTENDS Naturals, FiniteSets, Sequences, SequencesExt, FiniteSetsExt

CONSTANTS Machines,        \* numbers, in the order of name and id
          Lines,           \* the product lines (laptop_family)
          Columns, Specs,  \* the tracked columns in order; Specs[m][column]
          LabelColumns,    \* what a person names a configuration by, in order
          Unstateable,     \* RAM and storage: a review hardly states them
          Probed,          \* the columns whose values a text is searched for
          Links,           \* the effective links a review may have
          Sayings, Praise, \* texts of claims, and those that are strengths
          TopPoints, LabelParts,
          None,
          MaxClaims, MaxEdits     \* bounds: claims ever written; catalogue edits

PagesAssumption ==
    /\ Machines \subseteq Nat /\ IsFiniteSet(Machines) /\ None \notin Machines /\ None \notin Lines
    /\ {TopPoints, LabelParts, MaxClaims, MaxEdits} \subseteq Nat
    /\ Unstateable \cup Probed \cup ToSet(LabelColumns) \subseteq ToSet(Columns)

VARIABLES line, suspended,     \* of each machine; the suspended ones
          claims,              \* laptop_review_chunks
          waiting,             \* review_claims_staging
          pass,                \* the run in progress: what it read, or None
          clock, edited

pages == <<line, suspended, claims, waiting, pass, clock, edited>>

PagesInit ==
    /\ line \in [Machines -> Lines \cup {None}]
    /\ \E f \in Lines : \A m \in Machines : m # Min(Machines) => line[m] = f
    /\ suspended = {} /\ claims = {} /\ waiting = {}
    /\ pass = None
    /\ clock = 0 /\ edited = 0

-----------------------------------------------------------------------------
(* What differs within a family                                               *)

Members(f) == {m \in Machines : line[m] = f}
Linkable(f) == Members(f) \ suspended

(* differing_columns: a missing value is a value. They stay in the order of   *)
(* Columns.                                                                   *)
Differing(M) == {c \in ToSet(Columns) : Cardinality({Specs[m][c] : m \in M}) > 1}

(* separability: the price never decides, RAM and storage alone cannot.       *)
Separability(columns, members) ==
    IF members = 0 THEN "no_configs"
    ELSE IF members = 1 THEN "single_config"
    ELSE IF columns \ {"price"} = {} THEN "identical_specs"
    ELSE IF columns \ {"price"} \subseteq Unstateable THEN "ram_storage_only"
    ELSE "separable"

(* config_label: the columns that people name a machine by, else any other.   *)
LabelOf(m, columns) ==
    LET named == SelectSeq(LabelColumns, LAMBDA c : c \in columns)
        rest == SelectSeq(Columns, LAMBDA c : c \in columns \ (ToSet(LabelColumns) \cup {"price"}))
        used == IF named # <<>> THEN named ELSE rest
        parts == [i \in 1..(IF Len(used) < LabelParts THEN Len(used) ELSE LabelParts) |-> Specs[m][used[i]]]
    IN  SelectSeq(parts, LAMBDA v : v # None)

(* mark_indistinguishable: the rows equal to another in every shown column.   *)
Indistinguishable(M, columns) ==
    {m \in M : columns # {} /\ \E n \in M \ {m} :
        \A c \in columns : Specs[m][c] = Specs[n][c]}

(* What is searched: the values that differ, where they have a part number or *)
(* a size; nothing general, and no value that every row shares.               *)
Probes(M, columns) ==
    {<<c, Specs[m][c]>> : c \in columns \cap Probed, m \in M}

(* scan_config_evidence: the rows that each value found (matched: the probes  *)
(* that occur in the description or the transcript) speaks for.               *)
Evidence(M, columns, matched) ==
    {[column |-> p[1], machines |-> {m \in M : Specs[m][p[1]] = p[2]}]
     : p \in {p \in Probes(M, columns) : p[2] # None /\ p \in matched}}

(* GET families/{id}/configs: computed over the rows that are not suspended.  *)
FamilyConfigs(f, matched) ==
    LET columns == Differing(Linkable(f)) IN
    [rows |-> Linkable(f),
     excluded |-> Cardinality(Members(f) \cap suspended),
     separable |-> Separability(columns, Cardinality(Linkable(f))),
     evidence |-> Evidence(Linkable(f), columns, matched),
     doubtful |-> Indistinguishable(Linkable(f), columns)]

-----------------------------------------------------------------------------
(* What a run offers, and where an answer goes                                *)

(* build_candidates: a family's configurations are offered if a review could  *)
(* tell them apart; of those that share a label the first only.               *)
OfferedOf(f) ==
    LET M == Linkable(f)
        columns == Differing(M) \ {"price"}
    IN  IF Separability(columns, Cardinality(M)) # "separable" THEN {}
        ELSE {m \in M : \A n \in M : n < m => LabelOf(n, columns) # LabelOf(m, columns)}

TheOnly(S) == IF Cardinality(S) = 1 THEN CHOOSE x \in S : TRUE ELSE None

CandidatesOf(links) ==
    LET families == {k[1] : k \in links} IN
    [ids |-> {<<f, None>> : f \in families} \cup UNION {{f} \X OfferedOf(f) : f \in families},
     linked |-> [f \in families |-> TheOnly({k[2] : k \in {k \in links : k[1] = f}} \ {None})],
     sole |-> [f \in families |-> TheOnly(Linkable(f))]]

PlaceUnnamed(about, scope, cands) ==     \* mutant: a claim of an unknown configuration is kept on the family
    [line |-> about[1], scope |-> scope,
     machine |-> IF about[2] # None THEN about[2] ELSE cands.linked[about[1]]]

(* place: a claim that depends on the configuration needs one; None: it is    *)
(* not attached to any machine.                                               *)
Place(about, scope, cands) ==
    LET f == about[1]
        config == IF cands.linked[f] # None THEN cands.linked[f] ELSE cands.sole[f]
    IN  IF about[2] # None THEN [line |-> f, machine |-> about[2], scope |-> scope]
        ELSE IF scope = "family" THEN [line |-> f, machine |-> cands.linked[f], scope |-> scope]
        ELSE IF config # None THEN [line |-> f, machine |-> config, scope |-> scope]
        ELSE None

StartPass(links) ==
    /\ pass = None
    /\ \A k \in links : k[2] # None => line[k[2]] = k[1]
    /\ pass' = [cands |-> CandidatesOf(links), staging |-> claims # {}]
    /\ waiting' = {}        \* dropped when the links changed
    /\ UNCHANGED <<line, suspended, claims, clock, edited>>

(* One window: answered for a candidate; a price claim is stored, never shown.*)
StoreClaim(about, scope, text, hidden) ==
    LET where == Place(about, scope, pass.cands)
        claim == [id |-> clock, at |-> clock, line |-> where.line, machine |-> where.machine,
                  scope |-> where.scope, text |-> text, hidden |-> hidden]
    IN  /\ pass # None /\ clock < MaxClaims
        /\ about \in pass.cands.ids
        /\ where # None
        /\ clock' = clock + 1
        /\ claims' = IF pass.staging THEN claims ELSE claims \cup {claim}
        /\ waiting' = IF pass.staging THEN waiting \cup {claim} ELSE waiting
        /\ UNCHANGED <<line, suspended, pass, edited>>

(* The end: staged claims replace the live ones and keep their time.          *)
FinishPass ==
    /\ pass # None
    /\ pass' = None
    /\ claims' = IF pass.staging /\ waiting # {} THEN waiting ELSE claims
    /\ waiting' = {}
    /\ UNCHANGED <<line, suspended, clock, edited>>

-----------------------------------------------------------------------------
(* Catalogue edits beside it                                                  *)

EditCatalogue == edited < MaxEdits /\ edited' = edited + 1

MoveMachine(m, f) ==     \* its claims keep the family they were written for
    /\ EditCatalogue
    /\ line[m] # f
    /\ line' = [line EXCEPT ![m] = f]
    /\ UNCHANGED <<suspended, claims, waiting, pass, clock>>

SetSuspended(m) ==
    /\ EditCatalogue
    /\ suspended' = SymDiff(suspended, {m})
    /\ UNCHANGED <<line, claims, waiting, pass, clock>>

-----------------------------------------------------------------------------
(* The readers                                                                *)

Shown(C) == {c \in C : ~c.hidden}

(* Newest first (the channel's tier comes before, one channel here).          *)
Ordered(C) == SetToSortSeq(C, LAMBDA a, b : a.at > b.at \/ (a.at = b.at /\ a.id < b.id))

(* SQL: an unknown machine is not "another machine".                          *)
OwnTier(m) ==
    Shown({c \in claims : c.machine = m
                          \/ (line[m] # None /\ c.line = line[m] /\ c.scope = "family")})
SiblingTier(m) ==
    Shown({c \in claims : line[m] # None /\ c.line = line[m] /\ c.machine \notin {m, None}})

(* The public page: the siblings' claims only when there is nothing else.     *)
PageTier(m) == IF OwnTier(m) # {} THEN OwnTier(m) ELSE SiblingTier(m)

AppliesTo(m, c) ==
    IF c.machine = m THEN "this_configuration"
    ELSE IF c.machine = None THEN "configuration_not_stated"
    ELSE "other_configuration"

Distinct(texts) ==
    SelectSeq([i \in DOMAIN texts |-> <<i, texts[i]>>],
              LAMBDA p : \A k \in 1..(p[1] - 1) : texts[k] # p[2])
Top(C) ==
    LET all == Distinct([i \in DOMAIN Ordered(C) |-> Ordered(C)[i].text])
    IN  [i \in 1..(IF Len(all) < TopPoints THEN Len(all) ELSE TopPoints) |-> all[i][2]]

ReviewPage(m) ==
    [source |-> IF PageTier(m) = {} THEN "none"
                ELSE IF OwnTier(m) # {} THEN "this_laptop" ELSE "other_configurations",
     strengths |-> Top({c \in PageTier(m) : c.text \in Praise}),
     weaknesses |-> Top({c \in PageTier(m) : c.text \in Sayings \ Praise})]

(* get_review_evidence: tiers decided by what is near the question.           *)
AssistantEvidence(m, near) ==
    LET own == {c \in OwnTier(m) : c.text \in near}
        siblings == {c \in SiblingTier(m) : c.text \in near}
    IN  IF own # {} THEN [answer |-> "cited", from |-> own]
        ELSE IF siblings # {} THEN [answer |-> "cited", from |-> siblings]
        ELSE IF OwnTier(m) # {} \/ SiblingTier(m) # {} THEN [answer |-> "not relevant", from |-> {}]
        ELSE [answer |-> "no evidence", from |-> {}]

(* shows_reviews: what the coverage numbers count.                            *)
ShowsReviews(m) ==
    \E c \in Shown(claims) : c.machine = m \/ (line[m] # None /\ c.line = line[m])

Coverage ==
    LET active == Machines \ suspended IN
    [laptops |-> Cardinality(active),
     with_reviews |-> Cardinality({m \in active : ShowsReviews(m)}),
     families |-> Cardinality({line[m] : m \in active} \ {None}),
     families_with_reviews |-> Cardinality({line[m] : m \in {m \in active : ShowsReviews(m)}} \ {None})]

PagesNext ==
    \/ \E links \in Links : StartPass(links)
    \/ \E f \in Lines, m \in Machines \cup {None}, scope \in {"family", "config"},
          text \in Sayings, hidden \in BOOLEAN : StoreClaim(<<f, m>>, scope, text, hidden)
    \/ FinishPass
    \/ \E m \in Machines, f \in Lines \cup {None} : MoveMachine(m, f)
    \/ \E m \in Machines : SetSuspended(m)

-----------------------------------------------------------------------------
(* Properties                                                                 *)

(* Three readers decide on their own whether a laptop has reviews: its page,  *)
(* the assistant and the coverage numbers. They never contradict each other;  *)
(* a page that says "other configurations" shows nothing else.                *)
PagesAgree ==
    /\ \A m \in Machines :
        /\ ShowsReviews(m) <=> ReviewPage(m).source # "none"
        /\ \A near \in SUBSET Sayings :
              LET e == AssistantEvidence(m, near) IN
              /\ e.answer = "no evidence" <=> ~ShowsReviews(m)
              /\ e.answer = "cited" /\ near = Sayings => e.from = PageTier(m)
        /\ ReviewPage(m).source = "other_configurations" =>
              \A c \in PageTier(m) : AppliesTo(m, c) = "other_configuration"
    /\ Coverage.with_reviews =
          Cardinality({m \in Machines \ suspended : ReviewPage(m).source # "none"})

AllFound == {<<c, Specs[m][c]>> : m \in Machines, c \in Probed}

(* The screen on which a person links a review and the run that offers the    *)
(* configurations to the model agree on which families can be told apart,     *)
(* although one counts the price as a difference and the other leaves it out; *)
(* the screen cites evidence for configurations it lists.                     *)
ScreenAndRunAgree ==
    \A f \in Lines :
        LET screen == FamilyConfigs(f, AllFound) IN
        /\ screen.separable = "separable" <=> OfferedOf(f) # {}
        /\ \A e \in screen.evidence : e.machines # {} /\ e.machines \subseteq screen.rows

(* Both, wherever claims were placed and machines moved or suspended since.   *)
ReadersAgree == PagesAgree /\ ScreenAndRunAgree
=============================================================================
