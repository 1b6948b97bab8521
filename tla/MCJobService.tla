---------------------------- MODULE MCJobService ----------------------------
(***************************************************************************)
(* Instances of JobService for TLC.  The lock groups are the routers':     *)
(*   - reviews/router.py _TRANSCRIPT_JOBS: "ingest" and "retry" refuse each *)
(*     other and themselves; their endpoints are sync;                     *)
(*   - Apple: "fetch" (apple_options_router.py fetch_now) refuses itself and*)
(*     an Apple "scrape"; "scrape" (scraper/router.py) refuses only "fetch";*)
(*     both endpoints are async;                                           *)
(*   - "process" (processor/router.py) refuses nothing, sync.              *)
(***************************************************************************)
EXTENDS JobService

CONSTANTS j1, j2, j3

MCType == {"ingest", "retry", "fetch", "scrape", "process"}

MCRefuses ==
    [ingest  |-> {"ingest", "retry"},
     retry   |-> {"ingest", "retry"},
     fetch   |-> {"fetch", "scrape"},
     scrape  |-> {"fetch"},
     process |-> {}]

\* The scrapes and fetch_now are `async def`.
MCAsync == {"fetch", "scrape"}

\* Apple's options fetch advances once and never looks at the flag.
MCPolls == MCType \ {"fetch"}

TypeOfTranscripts == [j \in Job |-> IF j = j2 THEN "retry" ELSE "ingest"]
TypeOfApple       == [j \in Job |-> IF j = j2 THEN "fetch" ELSE "scrape"]
TypeOfProcess     == [j \in Job |-> "process"]

=============================================================================
