----------------------------- MODULE ScrapeQueue -----------------------------
(***************************************************************************)
(* The scrape queue: the targets of laptop_scrape_urls, the raw rows stored *)
(* for them in raw_scrap_laptops, the HTML uploads that re-queue a target,  *)
(* and the runs and requests that scrape.                                   *)
(*                                                                          *)
(* Code: app/scraper/bulk_scraper.py, router.py (crawl, scrape-url,         *)
(* upload-html), html_ingest.py, models.py.                                 *)
(*                                                                          *)
(* A run commits once per variant and once per target, with the page fetch  *)
(* and its pause in between.  Nothing keeps two runs, a request or an upload *)
(* off the same page but the unique constraint on source_url.  A scrape      *)
(* yields every variant of a page or one failure: the brand scrapers catch   *)
(* their exceptions.                                                        *)
(***************************************************************************)
EXTENDS Naturals, FiniteSets

CONSTANTS
    Page,               \* URLs
    Uploads,            \* those of an HTML-upload brand (Acer)
    Respecs,            \* Apple specs pages, fetched again every run (rescrapable)
    NumVariants,        \* NumVariants[p]: variants on the page
    Run,                \* bulk and selected-targets jobs
    Request,            \* scrape-url requests
    NoPage,
    MaxVersion,         \* bound: versions of a page's content
    MaxFaults,          \* bound: pages that fail to be fetched or parsed
    MaxAborts           \* bound: runs cancelled, or cut short by a crash or a failed statement

ASSUME ScrapeAssumption ==
    /\ Uploads \subseteq Page /\ Respecs \subseteq Page
    /\ NumVariants \in [Page -> Nat \ {0}]
    /\ \A p \in Uploads \cup Respecs : NumVariants[p] = 1
    /\ Run \cap Request = {}
    /\ NoPage \notin Page
    /\ MaxVersion \in Nat \ {0} /\ MaxFaults \in Nat /\ MaxAborts \in Nat

VARIABLES
    status,             \* status[p]: scrape_status; "absent" before the crawl
    stamped,            \* stamped[p]: last_scraped_at is not NULL
    content,            \* content[p]: version of the uploaded HTML (0: none), or
                        \* of the page at the vendor's
    rows,               \* rows[p][v]: the version variant v's row was read from; 0: no row
    pc,                 \* pc[a]: where run or request a is
    queue,              \* queue[r]: targets the run listed at its start and has not reached
    cur,                \* cur[a]: the page it is on
    got,                \* got[a]: the version it fetched; 0: the scrape failed
    next,               \* next[a]: the variant it saves next
    faults, aborts,
    lost                \* history: pages whose request was cut short between its stamp
                        \* and its first row

actors == <<pc, queue, cur, got, next>>
table == <<status, stamped, rows>>
bounds == <<faults, aborts, lost>>
vars == <<table, content, actors, bounds>>

Actor == Run \cup Request
Variants(p) == 1..NumVariants[p]

\* stored_rows_of: the bare URL or any ?v=N of it.
Stored(p) == \E v \in Variants(p) : rows[p][v] # 0

\* Mutant of Selectable: neither fresh HTML nor a failed target is listed.
SelectableOnce(p) == status[p] # "absent" /\ ~stamped[p]

\* run_bulk_scrape's query.
Selectable(p) ==
    /\ status[p] # "absent"
    /\ ~stamped[p] \/ status[p] \in {"failed", "html_uploaded"}

SuccessStatus(p) == IF p \in Uploads THEN "parsed" ELSE "completed"

Init ==
    /\ status = [p \in Page |-> "absent"]
    /\ stamped = [p \in Page |-> FALSE]
    /\ content = [p \in Page |-> IF p \in Uploads THEN 0 ELSE 1]
    /\ rows = [p \in Page |-> [v \in Variants(p) |-> 0]]
    /\ pc = [a \in Actor |-> "idle"]
    /\ queue = [a \in Actor |-> {}]
    /\ cur = [a \in Actor |-> NoPage]
    /\ got = [a \in Actor |-> 0]
    /\ next = [a \in Actor |-> 0]
    /\ faults = 0 /\ aborts = 0 /\ lost = {}

-----------------------------------------------------------------------------
(* The queue and the pages.                                                *)

\* A crawl adds the URLs it found and does not know yet; one transaction.
Crawl(P) ==
    /\ P # {}
    /\ \A p \in P : status[p] = "absent"
    /\ status' = [p \in Page |-> IF p \in P THEN "pending" ELSE status[p]]
    /\ UNCHANGED <<stamped, rows, content, actors, bounds>>

\* upload-html: store_html upserts the page and re-queues its target.  A URL
\* that no target has is reported as unmatched.
Upload(p) ==
    /\ p \in Uploads
    /\ status[p] # "absent"
    /\ content[p] < MaxVersion
    /\ content' = [content EXCEPT ![p] = @ + 1]
    /\ status' = [status EXCEPT ![p] = "html_uploaded"]
    /\ UNCHANGED <<stamped, rows, actors, bounds>>

\* The vendor changes a page that is fetched live.
VendorEdit(p) ==
    /\ p \notin Uploads
    /\ content[p] < MaxVersion
    /\ content' = [content EXCEPT ![p] = @ + 1]
    /\ UNCHANGED <<table, actors, bounds>>

-----------------------------------------------------------------------------
(* A run: run_bulk_scrape, run_scrape_for_targets, _process_target.        *)

Start(r, P) ==
    /\ pc[r] = "idle"
    /\ queue' = [queue EXCEPT ![r] = P]
    /\ pc' = [pc EXCEPT ![r] = "next"]
    /\ UNCHANGED <<table, content, cur, got, next, bounds>>

SelectBulk(r) == Start(r, {p \in Page : Selectable(p)})

\* An admin's ticked rows, whatever their status.
SelectTargets(r) ==
    \E P \in SUBSET {p \in Page : status[p] # "absent"} : P # {} /\ Start(r, P)

\* The next target of the list: skipped when a row of it is stored.
Take(r, p) ==
    /\ pc[r] = "next"
    /\ p \in queue[r]
    /\ queue' = [queue EXCEPT ![r] = @ \ {p}]
    /\ cur' = [cur EXCEPT ![r] = p]
    /\ pc' = [pc EXCEPT ![r] = IF Stored(p) /\ p \notin Respecs THEN "skip" ELSE "fetch"]
    /\ UNCHANGED <<table, content, got, next, bounds>>

\* a is through with its page.
Leave(a, where) ==
    /\ pc' = [pc EXCEPT ![a] = where]
    /\ cur' = [cur EXCEPT ![a] = NoPage]
    /\ got' = [got EXCEPT ![a] = 0]
    /\ next' = [next EXCEPT ![a] = 0]

\* _update_target on the page a is on.
UpdateTarget(a, s) ==
    /\ status' = [status EXCEPT ![cur[a]] = s]
    /\ stamped' = [stamped EXCEPT ![cur[a]] = TRUE]
    /\ UNCHANGED rows

Skip(r) ==
    /\ pc[r] = "skip"
    /\ UpdateTarget(r, "skipped")
    /\ Leave(r, "next")
    /\ UNCHANGED <<content, queue, bounds>>

\* The scraper's answer: the variants of one version of the page, or a failure.
\* An uploaded page without HTML always fails.
Fetched(a, version) ==
    /\ pc[a] = "fetch"
    /\ \/ version = content[cur[a]] /\ UNCHANGED faults
       \/ version = 0 /\ faults < MaxFaults /\ faults' = faults + 1
    /\ got' = [got EXCEPT ![a] = version]
    /\ next' = [next EXCEPT ![a] = 1]
    /\ UNCHANGED <<table, content, queue, cur, aborts, lost>>

Fetch(r, version) ==
    /\ r \in Run
    /\ Fetched(r, version)
    /\ pc' = [pc EXCEPT ![r] = IF version = 0 THEN "stamp" ELSE "save"]

\* Another actor saves the same page right now.
Contended(a) == \E b \in Actor \ {a} : pc[b] = "save" /\ cur[b] = cur[a]

\* Mutant of Insertable: source_url is not unique.
InsertableAlways(a) == TRUE

\* A row may be inserted: its source_url is new, or this is a run and an Apple
\* specs page, whose old row is deleted first.
Insertable(a) == rows[cur[a]][next[a]] = 0 \/ (a \in Run /\ cur[a] \in Respecs)

\* The row is refused by the unique constraint: it is stored already, or another
\* run replaced the same row between this one's SELECT and its DELETE.
Collides(a) == rows[cur[a]][next[a]] # 0 /\ (~Insertable(a) \/ Contended(a))

LastVariant(a) == next[a] = NumVariants[cur[a]]

\* One variant inserted and committed.
SaveVariant(a) ==
    /\ pc[a] = "save"
    /\ Insertable(a)
    /\ rows' = [rows EXCEPT ![cur[a]][next[a]] = got[a]]
    /\ IF LastVariant(a) /\ a \in Request THEN Leave(a, "idle")
       ELSE /\ pc' = [pc EXCEPT ![a] = IF LastVariant(a) THEN "stamp" ELSE "save"]
            /\ next' = [next EXCEPT ![a] = @ + 1]
            /\ UNCHANGED <<cur, got>>
    /\ UNCHANGED <<status, stamped, content, queue, bounds>>

\* The status of the page after its scrape.
Outcome(a) == IF got[a] = 0 THEN "failed" ELSE SuccessStatus(cur[a])

Stamp(r) ==
    /\ r \in Run
    /\ pc[r] = "stamp"
    /\ UpdateTarget(r, Outcome(r))
    /\ Leave(r, "next")
    /\ UNCHANGED <<content, queue, bounds>>

\* No target is left.
EndRun(r) ==
    /\ r \in Run
    /\ pc[r] = "next" /\ queue[r] = {}
    /\ pc' = [pc EXCEPT ![r] = "idle"]
    /\ UNCHANGED <<table, content, queue, cur, got, next, bounds>>

\* The job was cancelled: its flag is read after a target.
CancelRun(r) ==
    /\ r \in Run
    /\ pc[r] = "next" /\ queue[r] # {}
    /\ aborts < MaxAborts
    /\ aborts' = aborts + 1
    /\ pc' = [pc EXCEPT ![r] = "idle"]
    /\ queue' = [queue EXCEPT ![r] = {}]
    /\ UNCHANGED <<table, content, cur, got, next, faults, lost>>

-----------------------------------------------------------------------------
(* scrape-url: the same page work, with the target stamped before any row is *)
(* stored, and created if the queue does not know the URL.                   *)

BeginRequest(q, p) ==
    /\ pc[q] = "idle"
    /\ ~Stored(p)
    /\ cur' = [cur EXCEPT ![q] = p]
    /\ pc' = [pc EXCEPT ![q] = "fetch"]
    /\ UNCHANGED <<table, content, queue, got, next, bounds>>

FetchRequest(q, version) ==
    /\ q \in Request
    /\ Fetched(q, version)
    /\ pc' = [pc EXCEPT ![q] = "stamp"]

\* A failed request is over, a successful one goes on to store the rows.
RequestOver(q) ==
    IF got[q] = 0 THEN Leave(q, "idle")
    ELSE pc' = [pc EXCEPT ![q] = "save"] /\ UNCHANGED <<cur, got, next>>

\* Mutant of StampRequest: the success status is written whatever the outcome.
StampRequestDone(q) ==
    /\ q \in Request /\ pc[q] = "stamp"
    /\ UpdateTarget(q, SuccessStatus(cur[q]))
    /\ RequestOver(q)
    /\ UNCHANGED <<content, queue, bounds>>

StampRequest(q) ==
    /\ q \in Request
    /\ pc[q] = "stamp"
    /\ UpdateTarget(q, Outcome(q))
    /\ RequestOver(q)
    /\ UNCHANGED <<content, queue, bounds>>

-----------------------------------------------------------------------------
\* What was committed stays; the rest of the run is gone.
Gone(a) ==
    /\ Leave(a, "idle")
    /\ queue' = [queue EXCEPT ![a] = {}]
    /\ UNCHANGED <<table, content>>

\* The unique constraint's exception leaves _process_target and fails the job
\* (or the request: a 500).
Collide(a) == pc[a] = "save" /\ Collides(a) /\ Gone(a) /\ UNCHANGED bounds

\* The process dies, or a statement fails, under a run.
Abort(a) ==
    /\ pc[a] # "idle"
    /\ aborts < MaxAborts
    /\ aborts' = aborts + 1
    /\ lost' = IF a \in Request /\ pc[a] = "save" /\ ~Stored(cur[a])
               THEN lost \cup {cur[a]} ELSE lost
    /\ Gone(a)
    /\ UNCHANGED faults

-----------------------------------------------------------------------------
Version == 0..MaxVersion

Work(r) ==
    \/ \E p \in Page : Take(r, p)
    \/ \E v \in Version : Fetch(r, v)
    \/ Skip(r) \/ SaveVariant(r) \/ Stamp(r) \/ EndRun(r) \/ Collide(r)

Serve(q) ==
    \/ \E v \in Version : FetchRequest(q, v)
    \/ StampRequest(q) \/ SaveVariant(q) \/ Collide(q)

Next ==
    \/ \E P \in SUBSET Page : Crawl(P)
    \/ \E p \in Page : Upload(p) \/ VendorEdit(p)
    \/ \E r \in Run : SelectBulk(r) \/ SelectTargets(r) \/ Work(r) \/ CancelRun(r)
    \/ \E q \in Request : (\E p \in Page : BeginRequest(q, p)) \/ Serve(q)
    \/ \E a \in Actor : Abort(a)

Spec == Init /\ [][Next]_vars

\* A run that is not cut short goes through its list, a request is answered, and
\* the operator starts bulk runs again and again.
FairSpec ==
    /\ Spec
    /\ \A r \in Run : WF_vars(Work(r)) /\ SF_vars(SelectBulk(r))
    /\ \A q \in Request : WF_vars(Serve(q))

-----------------------------------------------------------------------------
(* Properties.                                                             *)

\* A target is never stranded: while nothing of it is stored, the next bulk run
\* lists it, unless a request is storing it right now (run_bulk_scrape's query,
\* against all the places that stamp a target).  The one way out is a request
\* cut short between its stamp and its first row.
NeverStranded ==
    \A p \in Page : status[p] # "absent" =>
        \/ Selectable(p)
        \/ Stored(p)
        \/ \E q \in Request : cur[q] = p /\ pc[q] = "save"
        \/ p \in lost

\* The rows of a page come from one fetch of it: two runs that race on a page
\* never mix its variants (the unique source_url, and the order of variants).
RowsOfOneFetch ==
    \A p \in Page : \A v, w \in Variants(p) :
        rows[p][v] # 0 /\ rows[p][w] # 0 => rows[p][v] = rows[p][w]

\* When failures are over, every crawled page whose content can be had is stored,
\* however runs, requests, uploads and cancels interleave.
EventuallyStored ==
    <>[](\A p \in Page : status[p] # "absent" /\ content[p] # 0 => Stored(p) \/ p \in lost)

=============================================================================
