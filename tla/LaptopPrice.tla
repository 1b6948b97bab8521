----------------------------- MODULE LaptopPrice -----------------------------
(***************************************************************************)
(* One laptop's price: its row in laptops, the newest row of its price     *)
(* history, and everyone who writes them.                                  *)
(*                                                                         *)
(* Code: app/processor/engine.py and apple_buy.py (extraction runs),       *)
(* app/laptops/laptop_router.py (admin create and edit),                   *)
(* price_guide_service.py (apply, use guide price), laptop_models.py.      *)
(*                                                                         *)
(* The history's newest source says who set the price, and so who may      *)
(* replace it; but a run and an edit commit the price first and its        *)
(* history row after, and a guide and an Apple run decide on rows they     *)
(* read earlier, an Apple run before minutes of LLM calls.  Nothing locks  *)
(* a row.  An ORM UPDATE writes the columns whose value in memory differs  *)
(* from the one that was read, and no others.                              *)
(***************************************************************************)
EXTENDS Naturals

CONSTANTS
    Batch,              \* batches over pending records; no lock keeps two apart
    Single,             \* requests to process this record
    Editor,             \* admin requests that create or edit the laptop
    Apply,              \* the guide apply job (one, by its job lock)
    User,               \* "use guide price" requests
    Form,               \* the [price, status] forms admins send
    First,              \* what is stored at first: brand, row, newest history row
    MaxPrice,           \* prices are 1..MaxPrice; 0 is "price unknown"
    MaxEdits,           \* bound: edits
    MaxGuides,          \* bound: applies and uses
    MaxSingles,         \* bound: records processed by request
    MaxFaults           \* bound: LLM failures and crashes

Brand == {"asus", "apple"}
Amount == 0..MaxPrice
Status == {"active", "inactive", "discontinued", "suspended"}
Source == {"none", "null", "page", "apple-buy-page", "guide", "manual"}
Row == [price : Amount, status : Status \cup {"absent"}]
Newest == [price : Amount, source : Source]
Absent == [price |-> 0, status |-> "absent"]

Run == Batch \cup Single

ASSUME PriceAssumption ==
    /\ Batch \cap Single = {} /\ Run \cap Editor = {} /\ Run \cap User = {} /\ Editor \cap User = {}
    /\ Apply \notin Run \cup Editor \cup User
    /\ {MaxPrice, MaxEdits, MaxGuides, MaxSingles, MaxFaults} \subseteq Nat
    /\ Form \subseteq [price : Amount, status : Status]
    /\ First \subseteq [brand : Brand, row : Row, newest : Newest]
    /\ \A f \in First :
          /\ f.row.price = 0 => f.row.status # "active"
          /\ f.row.price # 0 => f.row.price = f.newest.price
          /\ f.newest.price = 0 <=> f.newest.source = "none"

VARIABLES
    brand,              \* "asus" (guides, LLM prices) or "apple" (buy-page prices)
    row,                \* the laptop: [price, status]
    newest,             \* the newest history row: [price, source]
    raw,                \* processing_status of the laptop's raw row
    op,                 \* op[a]: where a is, and what it has in memory
    edits, guides, singles, faults,
    origin,             \* history: who set the price; "raced" once a commit was made on
                        \* outdated reads or between another writer's price and its
                        \* history row, or a crash lost that row
    fresh               \* history: actors whose reads no commit has outdated

history == <<origin, fresh>>
bounds == <<edits, guides, singles, faults>>
vars == <<brand, row, newest, raw, op, bounds, history>>

Guide == User \cup {Apply}
Actor == Run \cup Editor \cup Guide
\* seen: the row as read; found, goal: the price and status to write ("keep": none);
\* pay: an Apple run's write_price.
Idle == [at |-> "idle", seen |-> Absent, found |-> 0, goal |-> "keep", pay |-> FALSE]

Init ==
    /\ \E f \in First : brand = f.brand /\ row = f.row /\ newest = f.newest
    /\ raw = "pending"
    /\ op = [a \in Actor |-> Idle]
    /\ edits = 0 /\ guides = 0 /\ singles = 0 /\ faults = 0
    /\ origin = newest.source /\ fresh = {}

-----------------------------------------------------------------------------
(* Reads and commits.                                                      *)

\* a has committed a price whose history row is still to come.
Owes(a) == op[a].at \in {"refresh", "record"}

Raced == origin = "raced"

Reads(a) ==
    fresh' = IF Raced \/ \E b \in Actor : Owes(b) THEN fresh \ {a} ELSE fresh \cup {a}

Overlaps(a) == a \notin fresh \/ \E b \in Actor \ {a} : Owes(b)

\* Mutant of Demoted: the event is gone.
DemotedNever(r) == r

\* _deactivate_unpriced, the mapper event: it sees the row in the session's memory.
Demoted(r) ==
    IF r.price = 0 /\ r.status = "active" THEN [r EXCEPT !.status = "inactive"] ELSE r

\* The UPDATE of a: the columns of target that differ from what a read.
Update(a, target) ==
    [c \in {"price", "status"} |->
        IF target[c] # op[a].seen[c] THEN target[c] ELSE row[c]]

\* The commit writes something: a column, or an Apple run's history row.
Writes(a, target) == target # op[a].seen \/ op[a].pay

\* a commits the row as target; source is who sets the price, if it is set.
Commit(a, target, source) ==
    /\ row' = Update(a, target)
    /\ origin' = IF Raced \/ (Writes(a, target) /\ Overlaps(a)) THEN "raced"
                 ELSE IF target.price # op[a].seen.price THEN source ELSE origin
    /\ fresh' = IF Writes(a, target) THEN {} ELSE fresh \ {a}

\* model_code is unique: only an insert where there is no row commits.
Insert(a, new, source) ==
    /\ op[a].seen = Absent
    /\ row = Absent
    /\ Commit(a, Demoted(new), source)

Stop(a) == op' = [op EXCEPT ![a] = Idle]
Goto(a, place) == op' = [op EXCEPT ![a].at = place]
GoOn(a, place) == op' = [op EXCEPT ![a] = [Idle EXCEPT !.at = place]]
Owe(a, price) == op' = [op EXCEPT ![a] = [Idle EXCEPT !.at = "record", !.found = price]]

\* The writing is done: a run has its record to mark, a request is over.
Settle(a) == IF a \in Run THEN GoOn(a, "mark") ELSE Stop(a)

\* session.refresh after a commit: the history row will state the price read now.
Refresh(a) ==
    /\ op[a].at = "refresh"
    /\ IF row.price # 0 THEN Owe(a, row.price) ELSE Settle(a)
    /\ UNCHANGED <<brand, row, newest, raw, bounds, history>>

\* The second commit: the price's history row.
Record(a) ==
    /\ op[a].at = "record"
    /\ newest' = [price |-> op[a].found, source |-> IF a \in Run THEN "page" ELSE "manual"]
    /\ Settle(a)
    /\ UNCHANGED <<brand, row, raw, bounds, history>>

-----------------------------------------------------------------------------
(* Extraction runs.                                                        *)

\* Mutant of Processable: failed records are left to retry-failed.
ProcessableOnce == {"pending"}

Processable == {"pending", "failed"}

\* A batch lists the records of these statuses, and reaches this one later: by then another
\* run may have completed it.
ProcessPending(b, statuses) ==
    /\ op[b].at = "idle"
    /\ raw \in statuses
    /\ Goto(b, "queued")
    /\ UNCHANGED <<brand, row, newest, raw, bounds, history>>

\* POST /processor/process-pending and /retry-failed: neither refuses the other.
ProcessAllPending(b) == ProcessPending(b, Processable)

RetryFailed(b) == ProcessPending(b, {"failed"})

\* POST /processor/process/{id}, whatever the record's status.
ProcessOne(s) ==
    /\ op[s].at = "idle"
    /\ singles < MaxSingles
    /\ singles' = singles + 1
    /\ Goto(s, "queued")
    /\ UNCHANGED <<brand, row, newest, raw, edits, guides, faults, history>>

\* process_raw_laptop_data up to its LLM call.  The buy page of an Apple laptop states
\* its price, and its rows are read before the call.
Begin(r) ==
    /\ op[r].at = "queued"
    /\ \/ /\ brand = "asus"
          /\ Goto(r, "llm")
          /\ UNCHANGED fresh
       \/ /\ brand = "apple"
          /\ \E p \in Amount :
                op' = [op EXCEPT ![r] = [Idle EXCEPT !.at = "plan", !.seen = row, !.found = p]]
          /\ Reads(r)
    /\ UNCHANGED <<brand, row, newest, raw, bounds, origin>>

Replaceable == {"none", "null", "apple-buy-page"}

\* The second SELECT of apple_buy_rows, and plan's decision.
Plan(r) ==
    LET o == op[r] IN
    /\ o.at = "plan"
    /\ op' = [op EXCEPT
                ![r].at = "llm",
                ![r].pay = /\ o.found \notin {0, o.seen.price}
                           /\ o.seen.price = 0 \/ newest.source \in Replaceable,
                ![r].goal = IF o.seen.status = "discontinued" THEN "active" ELSE "keep"]
    /\ UNCHANGED <<brand, row, newest, raw, bounds, history>>

\* The model answers: with a price it found or 0, or, for an Apple laptop, with specs for
\* its size and chip or none; a suspended one is only listed.
Answer(r) ==
    /\ op[r].at = "llm"
    /\ \/ /\ brand = "asus"
          /\ \E p \in Amount : op' = [op EXCEPT ![r].at = "look", ![r].found = p]
       \/ /\ brand = "apple"
          /\ \/ Settle(r)
             \/ op[r].seen.status # "suspended"
                /\ Goto(r, IF op[r].seen = Absent THEN "save" ELSE "look")
    /\ UNCHANGED <<brand, row, newest, raw, bounds, history>>

\* The record is marked failed; after a quota error or an overload a batch waits and
\* processes it once more (here as often as MaxFaults allows).
LlmFails(r) ==
    /\ op[r].at = "llm"
    /\ faults < MaxFaults
    /\ faults' = faults + 1
    /\ raw' = "failed"
    /\ \/ Stop(r)
       \/ r \in Batch /\ GoOn(r, "queued")
    /\ fresh' = fresh \ {r}
    /\ UNCHANGED <<brand, row, newest, edits, guides, singles, origin>>

\* The laptop is read for writing (an Apple run's decision is of before).
Look(r) ==
    /\ op[r].at = "look"
    /\ op' = [op EXCEPT ![r].at = "save", ![r].seen = row]
    /\ IF brand = "asus" THEN Reads(r) ELSE UNCHANGED fresh
    /\ UNCHANGED <<brand, row, newest, raw, bounds, origin>>

PageInsert(r) ==
    /\ brand = "asus" /\ op[r].at = "save"
    /\ Insert(r, [price |-> op[r].found, status |-> "active"], "page")
    /\ GoOn(r, "refresh")
    /\ UNCHANGED <<brand, newest, raw, bounds>>

\* No price found is not a price: the stored one stays.
Kept(r) == IF op[r].found = 0 THEN op[r].seen.price ELSE op[r].found

PageUpdate(r) ==
    LET o == op[r] IN
    /\ brand = "asus" /\ o.at = "save"
    /\ o.seen # Absent
    /\ Commit(r, Demoted([o.seen EXCEPT !.price = Kept(r)]), "page")
    /\ IF o.found \notin {0, o.seen.price} THEN Owe(r, o.found) ELSE Settle(r)
    /\ UNCHANGED <<brand, newest, raw, bounds>>

AppleInsert(r) ==
    /\ brand = "apple" /\ op[r].at = "save"
    /\ Insert(r, [price |-> op[r].found, status |-> "inactive"], "apple-buy-page")
    /\ newest' = IF op[r].found # 0
                 THEN [price |-> op[r].found, source |-> "apple-buy-page"] ELSE newest
    /\ Settle(r)
    /\ UNCHANGED <<brand, raw, bounds>>

\* Price and history row in one commit.
AppleUpdate(r) ==
    LET o == op[r]
        priced == IF o.pay THEN o.found ELSE o.seen.price
        listed == IF o.goal = "keep" THEN o.seen.status ELSE o.goal IN
    /\ brand = "apple" /\ o.at = "save"
    /\ o.seen # Absent
    /\ Commit(r, Demoted([price |-> priced, status |-> listed]), "apple-buy-page")
    /\ newest' = IF o.pay THEN [price |-> o.found, source |-> "apple-buy-page"] ELSE newest
    /\ Settle(r)
    /\ UNCHANGED <<brand, raw, bounds>>

\* Two runs insert: the unique model_code refuses the second.  The Apple path rolls back
\* and fails the record; the other's handler commits a broken session and raises, which
\* ends the whole batch with the record as it was.
Collide(r) ==
    /\ op[r].at = "save" /\ op[r].seen = Absent
    /\ row # Absent
    /\ raw' = IF brand = "apple" THEN "failed" ELSE raw
    /\ Stop(r)
    /\ fresh' = fresh \ {r}
    /\ UNCHANGED <<brand, row, newest, bounds, origin>>

Mark(r) ==
    /\ op[r].at = "mark"
    /\ raw' = "completed"
    /\ Stop(r)
    /\ fresh' = fresh \ {r}
    /\ UNCHANGED <<brand, row, newest, bounds, origin>>

-----------------------------------------------------------------------------
(* Admins and guides.                                                      *)

\* POST or PUT /laptops: the form sends price and status, whatever they were.
Edit(e) ==
    /\ op[e].at = "idle"
    /\ edits < MaxEdits
    /\ edits' = edits + 1
    /\ \E f \in Form :
          op' = [op EXCEPT ![e] = [Idle EXCEPT !.at = "save", !.seen = row,
                                               !.found = f.price, !.goal = f.status]]
    /\ Reads(e)
    /\ UNCHANGED <<brand, row, newest, raw, guides, singles, faults, origin>>

EditCreate(e) ==
    /\ op[e].at = "save"
    /\ Insert(e, [price |-> op[e].found, status |-> op[e].goal], "manual")
    /\ GoOn(e, "refresh")
    /\ UNCHANGED <<brand, newest, raw, bounds>>

\* Mutant of EditUpdate: the price's history row is written only when it rises.
EditUpdateRise(e) ==
    LET o == op[e] IN
    /\ o.at = "save"
    /\ o.seen # Absent
    /\ Commit(e, Demoted([price |-> o.found, status |-> o.goal]), "manual")
    /\ IF o.found > o.seen.price THEN GoOn(e, "refresh") ELSE Stop(e)
    /\ UNCHANGED <<brand, newest, raw, bounds>>

EditUpdate(e) ==
    LET o == op[e] IN
    /\ o.at = "save"
    /\ o.seen # Absent
    /\ Commit(e, Demoted([price |-> o.found, status |-> o.goal]), "manual")
    /\ IF o.found # o.seen.price THEN GoOn(e, "refresh") ELSE Stop(e)
    /\ UNCHANGED <<brand, newest, raw, bounds>>

\* The unique model_code refuses a create.
EditRefused(e) ==
    /\ op[e].at = "save" /\ op[e].seen = Absent
    /\ row # Absent
    /\ Stop(e)
    /\ fresh' = fresh \ {e}
    /\ UNCHANGED <<brand, row, newest, raw, bounds, origin>>

\* The laptop as the catalog of a guide shows it, with the price the guide gives it.
GuideRead(g) ==
    /\ op[g].at = "idle"
    /\ brand = "asus"
    /\ row.status \in {"active", "inactive"}
    /\ guides < MaxGuides
    /\ guides' = guides + 1
    /\ \E p \in Amount \ {0} :
          op' = [op EXCEPT ![g] = [Idle EXCEPT !.at = "sources", !.seen = row, !.found = p]]
    /\ Reads(g)
    /\ UNCHANGED <<brand, row, newest, raw, edits, singles, faults, origin>>

\* One apply at a time; a use is refused while one runs.
ApplyPriceGuide == GuideRead(Apply)
UsePriceFromGuide(u) == op[Apply].at = "idle" /\ GuideRead(u)

\* Mutant of Decide: only an admin's price is left alone.
DecideNotManual(stored, latest, price) ==
    IF stored = 0 THEN "fill"
    ELSE IF stored = price THEN "confirm"
    ELSE IF latest # "manual" THEN "fill" ELSE "differs"

Decide(stored, latest, price) ==
    IF stored = 0 THEN "fill"
    ELSE IF stored = price THEN "confirm"
    ELSE IF latest = "guide" THEN "fill" ELSE "differs"

\* The latest sources are read and the row decided.  A use writes what is listed for
\* it: a differing price, or any that differs of a match in doubt.
Sources(g) ==
    LET o == op[g] IN
    /\ o.at = "sources"
    /\ \/ /\ \/ g = Apply /\ Decide(o.seen.price, newest.source, o.found) = "fill"
             \/ g # Apply /\ o.seen.price # o.found
          /\ Goto(g, "save")
          /\ UNCHANGED fresh
       \/ /\ g = Apply => Decide(o.seen.price, newest.source, o.found) # "fill"
          /\ Stop(g)
          /\ fresh' = fresh \ {g}
    /\ UNCHANGED <<brand, row, newest, raw, bounds, origin>>

\* _write_guide_price: price and history row in one commit.
GuideSave(g) ==
    LET o == op[g] IN
    /\ o.at = "save"
    /\ Commit(g, Demoted([o.seen EXCEPT !.price = o.found]), "guide")
    /\ newest' = [price |-> o.found, source |-> "guide"]
    /\ Stop(g)
    /\ UNCHANGED <<brand, raw, bounds>>

-----------------------------------------------------------------------------
\* The process dies: every run and request is gone, what was committed stays.
Crash ==
    /\ faults < MaxFaults
    /\ faults' = faults + 1
    /\ op' = [a \in Actor |-> Idle]
    /\ fresh' = {}
    /\ origin' = IF \E a \in Actor : Owes(a) THEN "raced" ELSE origin
    /\ UNCHANGED <<brand, row, newest, raw, edits, guides, singles>>

Save(r) == PageInsert(r) \/ PageUpdate(r) \/ AppleInsert(r) \/ AppleUpdate(r) \/ Collide(r)
Work(r) ==
    Begin(r) \/ Plan(r) \/ Answer(r) \/ Look(r) \/ Save(r) \/ Refresh(r) \/ Record(r) \/ Mark(r)
Editing(e) == EditCreate(e) \/ EditUpdate(e) \/ EditRefused(e) \/ Refresh(e) \/ Record(e)

Next ==
    \/ \E b \in Batch : ProcessAllPending(b) \/ RetryFailed(b)
    \/ \E s \in Single : ProcessOne(s)
    \/ \E r \in Run : LlmFails(r) \/ Work(r)
    \/ \E e \in Editor : Edit(e) \/ Editing(e)
    \/ ApplyPriceGuide
    \/ \E u \in User : UsePriceFromGuide(u)
    \/ \E g \in Guide : Sources(g) \/ GuideSave(g)
    \/ Crash

Spec == Init /\ [][Next]_vars

\* A run goes on to its end, and an admin starts process-pending again while records wait.
FairSpec ==
    /\ Spec
    /\ \A r \in Run : WF_vars(Work(r))
    /\ WF_vars(\E b \in Batch : ProcessAllPending(b))

-----------------------------------------------------------------------------
(* Properties.                                                             *)

\* Unless writers overlapped, the newest history row states the stored price and who set
\* it: what "the source on the history row is what lets a later guide update this price"
\* (price_guide_service.py) relies on.
HistoryAgrees ==
    ~Raced /\ row.price # 0 /\ (\A a \in Actor : ~Owes(a)) =>
        newest = [price |-> row.price, source |-> origin]

\* Unless writers overlapped, an apply replaces only a price a guide set, and an Apple run
\* only one its own page or nobody known set.
DecisionsKept ==
    [][~Raced' /\ row.price # 0 =>
        /\ GuideSave(Apply) => origin = "guide"
        /\ \A r \in Run : AppleUpdate(r) /\ row'.price # row.price => origin \in Replaceable
                                                                       \ {"none"}]_vars

\* Unless writers overlapped, a laptop without a price is not on sale.
UnpricedNotActive == ~Raced /\ row.price = 0 => row.status # "active"

\* While batches are started again, the record ends completed with its laptop stored,
\* through failures, collisions and crashes.
EventuallyCompleted == <>[](raw = "completed")

=============================================================================
