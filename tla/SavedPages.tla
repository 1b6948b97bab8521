----------------------------- MODULE SavedPages -----------------------------
(* Product pages saved in a browser and uploaded in batches: how a page finds *)
(* its target and its stored row (raw_product_htmls), and what a parse of the *)
(* target reads back. One transaction per batch; batches, the crawler and     *)
(* parses overlap. ScrapeQueue has the life of a target in full.              *)
EXTENDS Naturals, FiniteSets, Sequences, FiniteSetsExt

CONSTANTS Targets,        \* URLs the crawler may queue
          Canonicals,     \* URLs a page may name as its own
          BrandOf, Brands,
          Slug,           \* Slug[url]: its last path segment, or None
          Longer,         \* pairs: LIKE finds the second by the first's slug, which it only begins with
          Documents,      \* what an admin may upload
          Requests,
          None,
          MaxBatch, MaxUploads     \* bounds: documents of a batch, batches

SavedPagesAssumption ==
    /\ IsFiniteSet(Targets) /\ IsFiniteSet(Canonicals)
    /\ BrandOf \in [Targets -> Brands]
    /\ Targets \cup Canonicals \subseteq DOMAIN Slug
    /\ Longer \subseteq (DOMAIN Slug) \X (DOMAIN Slug)
    /\ None \notin Targets \cup Canonicals \cup Brands \cup {"html_uploaded"}
    /\ None \notin [brand : Brands, target : Targets, specs : BOOLEAN]
    /\ MaxBatch \in Nat /\ MaxUploads \in Nat

VARIABLES queued,         \* scrape_status of a target; None: not crawled yet
          pages,          \* pages[c]: the row of canonical URL c, or None
          batch,          \* batch[r]: the request's open transaction, or None
          parse,          \* the parse in progress: target and page read, or None
          uploads

savedPages == <<queued, pages, batch, parse, uploads>>

SavedInit ==
    /\ queued = [t \in Targets |-> None]
    /\ pages = [c \in Canonicals |-> None]
    /\ batch = [r \in Requests |-> None]
    /\ parse = None
    /\ uploads = 0

-----------------------------------------------------------------------------
(* What a page is                                                             *)

(* A file is read: too large and empty ones never reach the batch.            *)
Readable(d) == d.size = "fits"

(* The page names itself, or the caller names it.                             *)
CanonicalOf(d) == IF d.override # None THEN d.override ELSE IF d.html THEN d.canonical ELSE None

(* _check_saved_page: Acer only.                                              *)
Warned(d, brand) == brand = "acer" /\ (~d.html \/ d.local \/ d.photos = 0)

(* The targets a canonical URL may resolve to: the exact URL, else any of the *)
(* same slug.                                                                 *)
Crawled(pin) == {t \in Targets : queued[t] # None /\ pin \in {None, BrandOf[t]}}

ResolveLike(c, pin) ==   \* mutant: what LIKE found is taken unchecked
    IF c \in Crawled(pin) THEN {c}
    ELSE {t \in Crawled(pin) : Slug[c] # None /\ (Slug[t] = Slug[c] \/ <<c, t>> \in Longer)}

Resolve(c, pin) ==
    IF c \in Crawled(pin) THEN {c}
    ELSE {t \in Crawled(pin) : Slug[c] # None /\ Slug[t] = Slug[c]}

(* get_raw_html: the pages that a parse of t may be handed.                   *)
StoredPages(t) ==
    LET own == {c \in Canonicals : pages[c] # None /\ pages[c].brand = BrandOf[t]} IN
    IF t \in own THEN {t} ELSE {c \in own : Slug[t] # None /\ Slug[c] = Slug[t]}

-----------------------------------------------------------------------------
(* The crawler                                                                *)

CrawlTarget(t) ==
    /\ queued[t] = None
    /\ queued' = [queued EXCEPT ![t] = "pending"]
    /\ UNCHANGED <<pages, batch, parse, uploads>>

-----------------------------------------------------------------------------
(* A batch: read first, then one document after another, one commit           *)

Receive(r, documents, pin) ==
    /\ batch[r] = None /\ uploads < MaxUploads
    /\ uploads' = uploads + 1
    /\ batch' = [batch EXCEPT ![r] =
                   [left |-> SelectSeq(documents, Readable), pin |-> pin,
                    rows |-> [c \in Canonicals |-> None],   \* written, not committed
                    seen |-> [t \in Targets |-> None],      \* statuses as first read
                    moved |-> {},                           \* targets the flush updates
                    refused |-> Cardinality({i \in DOMAIN documents : ~Readable(documents[i])}),
                    report |-> <<>>]]
    /\ UNCHANGED <<queued, pages, parse>>

Reported(r, entry, b) ==
    batch' = [batch EXCEPT ![r] = [b EXCEPT !.left = Tail(@), !.report = Append(@, entry)]]

(* Rows and targets that another open transaction has written.                *)
HeldRows(r) == {c \in Canonicals : \E o \in Requests \ {r} : batch[o] # None /\ batch[o].rows[c] # None}
HeldTargets(r) == UNION {batch[o].moved : o \in {o \in Requests \ {r} : batch[o] # None}}

KnownCommitted(r, c) == pages[c] # None      \* mutant: the batch's own new rows are not seen

Known(r, c) == pages[c] # None \/ batch[r].rows[c] # None

Refuse(r) ==
    LET c == CanonicalOf(Head(batch[r].left)) IN
    /\ batch[r] # None /\ batch[r].left # <<>>
    /\ c # None => Resolve(c, batch[r].pin) = {}
    /\ Reported(r, [status |-> IF c = None THEN "invalid" ELSE "unmatched",
                    created |-> FALSE, warning |-> FALSE], batch[r])
    /\ UNCHANGED <<queued, pages, parse, uploads>>

(* store_html. A status that was read as html_uploaded is not written again:  *)
(* the session sees no change in it.                                          *)
Store(r, t) ==
    LET b == batch[r]
        d == Head(b.left)
        c == CanonicalOf(d)
        read == IF b.seen[t] = None THEN queued[t] ELSE b.seen[t]
    IN  /\ b # None /\ b.left # <<>> /\ c \in Canonicals
        /\ t \in Resolve(c, b.pin)
        /\ c \notin HeldRows(r)
        /\ read = "html_uploaded" \/ t \notin HeldTargets(r)
        /\ Reported(r, [status |-> "matched", created |-> ~Known(r, c), warning |-> Warned(d, BrandOf[t])],
              [b EXCEPT !.rows[c] = [brand |-> BrandOf[t], target |-> t, specs |-> d.html /\ d.specs],
                        !.seen[t] = "html_uploaded",
                        !.moved = IF read = "html_uploaded" THEN @ ELSE @ \cup {t}])
        /\ UNCHANGED <<queued, pages, parse, uploads>>

(* RawHtmlUploadSummary.                                                      *)
Summary(b) ==
    LET Count(P(_)) == Cardinality({i \in DOMAIN b.report : P(b.report[i])})
        Of(s) == Count(LAMBDA e : e.status = s)
    IN
    [received |-> Len(b.report) + b.refused,
     matched |-> Of("matched"), unmatched |-> Of("unmatched"), invalid |-> Of("invalid") + b.refused,
     inserted |-> Count(LAMBDA e : e.created),
     updated |-> Count(LAMBDA e : e.status = "matched" /\ ~e.created),
     warnings |-> Count(LAMBDA e : e.warning)]

CommitBatch(r) ==
    /\ batch[r] # None /\ batch[r].left = <<>>
    /\ pages' = [c \in Canonicals |-> IF batch[r].rows[c] # None THEN batch[r].rows[c] ELSE pages[c]]
    /\ queued' = [t \in Targets |-> IF t \in batch[r].moved THEN "html_uploaded" ELSE queued[t]]
    /\ batch' = [batch EXCEPT ![r] = None]
    /\ UNCHANGED <<parse, uploads>>

(* A failed statement (the unique key of a page another batch stored first, a *)
(* deadlock) ends the request; nothing of the batch is kept.                  *)
AbortBatch(r) ==
    /\ batch[r] # None
    /\ batch' = [batch EXCEPT ![r] = None]
    /\ UNCHANGED <<queued, pages, parse, uploads>>

-----------------------------------------------------------------------------
(* A run parses a target                                                      *)

ReadPage(t) ==
    /\ parse = None /\ queued[t] # None
    /\ \/ StoredPages(t) = {} /\ parse' = [target |-> t, result |-> "failed"]
       \/ \E c \in StoredPages(t) :
             parse' = [target |-> t, result |-> IF pages[c].specs THEN "parsed" ELSE "failed"]
    /\ UNCHANGED <<queued, pages, batch, uploads>>

StampParsed ==
    /\ parse # None
    /\ \A r \in Requests : batch[r] # None => parse.target \notin batch[r].moved
    /\ queued' = [queued EXCEPT ![parse.target] = parse.result]
    /\ parse' = None
    /\ UNCHANGED <<pages, batch, uploads>>

(* The tabs of the queue: one count per status and the total.                 *)
StatusCounts(brand) ==
    LET rows == {t \in Targets : queued[t] # None /\ brand \in {None, BrandOf[t]}} IN
    [total |-> Cardinality(rows),
     of |-> [s \in {"pending", "html_uploaded", "parsed", "failed"} |->
                Cardinality({t \in rows : queued[t] = s})]]

SavedNext ==
    \/ \E t \in Targets : CrawlTarget(t) \/ ReadPage(t)
    \/ StampParsed
    \/ \E r \in Requests :
         \/ \E n \in 1..MaxBatch : \E documents \in [1..n -> Documents], pin \in Brands \cup {None} :
               Receive(r, documents, pin)
         \/ Refuse(r)
         \/ \E t \in Targets : Store(r, t)
         \/ CommitBatch(r)
         \/ AbortBatch(r)

-----------------------------------------------------------------------------
(* Properties                                                                 *)

(* A product of another brand has the same slug.                              *)
Contested(t) == \E u \in Targets : BrandOf[u] # BrandOf[t] /\ Slug[u] = Slug[t]

(* A target on html_uploaded has a page behind it that its parse will find,   *)
(* however batches overlapped, failed or named their pages. A slug that two   *)
(* brands share is left out: an unpinned upload goes to either.               *)
QueuedHasPage ==
    \A t \in Targets : queued[t] = "html_uploaded" /\ ~Contested(t) => StoredPages(t) # {}

(* The numbers a batch reports are what its commit did: as many new rows as   *)
(* it says inserted, and every document received counted once; the tab of     *)
(* uploaded pages grows by no more than it says matched.                      *)
SummaryIsTrueStep ==
    \A r \in Requests :
        batch[r] # None /\ batch'[r] = None /\ pages' # pages =>
            LET s == Summary(batch[r]) IN
            /\ s.inserted = Cardinality({c \in Canonicals : pages[c] = None /\ pages'[c] # None})
            /\ s.matched + s.unmatched + s.invalid = s.received
            /\ s.inserted + s.updated = s.matched
            /\ StatusCounts(None)'.of.html_uploaded <= StatusCounts(None).of.html_uploaded + s.matched
SummaryIsTrue == [][SummaryIsTrueStep]_savedPages
=============================================================================
