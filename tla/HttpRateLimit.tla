--------------------------- MODULE HttpRateLimit ---------------------------
(* The in-process throttle of the authentication endpoints: one dict from a  *)
(* bucket key to the times of its counted requests, a per-IP limit before    *)
(* each endpoint, and a cooldown and a daily cap per address before a mail   *)
(* is sent.                                                                  *)
EXTENDS Naturals, Sequences, FiniteSets, SequencesExt

CONSTANTS Addresses, Callers,   \* email addresses and client IPs
          PerCaller, CallerWindow,   \* rate_limit(bucket, limit, window)
          Cooldown, DailyLimit, Day, \* _EMAIL_COOLDOWN_SECONDS and the daily cap
          PruneAge, MaxKeys,         \* the fixed hour, _MAX_TRACKED_KEYS
          MaxTime                    \* bound on the clock

WindowsAssumption ==
    /\ {PerCaller, CallerWindow, Cooldown, DailyLimit, Day} \subseteq Nat \ {0}
    /\ {PruneAge, MaxKeys, MaxTime} \subseteq Nat
    /\ Cooldown <= PruneAge /\ Cooldown <= Day

VARIABLES hits,     \* key -> times counted against it, oldest first
          now,      \* the monotonic clock
          sent,     \* history: times a mail went to each address
          forgot    \* history: keys whose counted requests were dropped early

limits == <<hits, now, sent, forgot>>

(* A key is <<"caller", c>>, <<"cooldown", address>> or <<"daily", address>>.   *)
Limit(k) == CASE k[1] = "caller" -> PerCaller
              [] k[1] = "cooldown" -> 1
              [] k[1] = "daily" -> DailyLimit
Window(k) == CASE k[1] = "caller" -> CallerWindow
               [] k[1] = "cooldown" -> Cooldown
               [] k[1] = "daily" -> Day

LimitsInit ==
    /\ hits = << >>
    /\ now = 0
    /\ sent = [a \in Addresses |-> <<>>]
    /\ forgot = {}

-----------------------------------------------------------------------------
(* One hit against key k of the dict d. The result says whether it was        *)
(* allowed, the dict it leaves, and the keys whose live hits were lost.       *)

(* The hits at the front that fell out of the window are popped.              *)
Oldest(s, w) ==
    CHOOSE i \in 1..Len(s) + 1 :
        /\ \A j \in 1..i - 1 : now - s[j] >= w
        /\ i <= Len(s) => now - s[i] < w
Remaining(s, w) == SubSeq(s, Oldest(s, w), Len(s))

WithinLate(d, k) ==     \* mutant: a hit leaves one tick early
    IF k \in DOMAIN d THEN Remaining(d[k], Window(k) - 1) ELSE <<>>

Within(d, k) == IF k \in DOMAIN d THEN Remaining(d[k], Window(k)) ELSE <<>>

With(d, k, s) == [x \in DOMAIN d \cup {k} |-> IF x = k THEN s ELSE d[x]]

(* _prune_all: keys that are empty or untouched for an hour, whatever their   *)
(* window. A key that was empty before this very hit is dropped as well, and  *)
(* its deque, still held by the caller, is appended to outside the dict.      *)
Prunable(d) == {k \in DOMAIN d : d[k] = <<>> \/ now - Last(d[k]) > PruneAge}
Pruned(d) == [k \in DOMAIN d \ Prunable(d) |-> d[k]]
Live(d, k) == \E i \in DOMAIN d[k] : now - d[k][i] < Window(k)

Record(d, k) ==
    LET old  == Within(d, k)
        seen == With(d, k, old)
        kept == IF Cardinality(DOMAIN seen) > MaxKeys THEN Pruned(seen) ELSE seen
        gone == DOMAIN seen \ DOMAIN kept
    IN  IF Len(old) >= Limit(k)
        THEN [allowed |-> FALSE, dict |-> seen, lost |-> {}]
        ELSE [allowed |-> TRUE,
              dict |-> IF k \in gone THEN kept ELSE With(kept, k, Append(old, now)),
              lost |-> {x \in gone : x = k \/ Live(seen, x)}]

-----------------------------------------------------------------------------
(* Endpoints                                                                 *)

(* A request that asks for a mail to address a: the per-IP limit answers 429  *)
(* with Retry-After; then, if the account exists, the cooldown is counted     *)
(* before the daily cap and is spent even when the cap refuses.               *)
MaySendTo(d, a) ==
    LET first  == Record(d, <<"cooldown", a>>)
        second == Record(first.dict, <<"daily", a>>)
    IN  IF first.allowed
        THEN [allowed |-> second.allowed, dict |-> second.dict, lost |-> first.lost \cup second.lost]
        ELSE [allowed |-> FALSE, dict |-> first.dict, lost |-> first.lost]
AskForMail(c, a, exists) ==
    LET ip   == Record(hits, <<"caller", c>>)
        mail == MaySendTo(ip.dict, a)
    IN  \/ /\ ~ip.allowed
           /\ hits' = ip.dict
           /\ UNCHANGED <<now, sent, forgot>>
        \/ /\ ip.allowed
           /\ hits' = IF exists THEN mail.dict ELSE ip.dict
           /\ forgot' = forgot \cup ip.lost \cup (IF exists THEN mail.lost ELSE {})
           /\ sent' = IF exists /\ mail.allowed
                      THEN [sent EXCEPT ![a] = Append(@, now)] ELSE sent
           /\ UNCHANGED now

Tick ==
    /\ now < MaxTime
    /\ now' = now + 1
    /\ UNCHANGED <<hits, sent, forgot>>

LimitsNext ==
    \/ Tick
    \/ \E c \in Callers, a \in Addresses, exists \in BOOLEAN : AskForMail(c, a, exists)

-----------------------------------------------------------------------------
(* Properties                                                                *)

(* An address is mailed at most once per cooldown and DailyLimit times per    *)
(* day, however its requests are spread over callers and refused in between,  *)
(* as long as pruning a full dict did not drop its counters early.            *)
MailsBounded ==
    \A a \in Addresses :
        forgot \cap {<<"cooldown", a>>, <<"daily", a>>} = {} =>
            /\ \A i, j \in 1..Len(sent[a]) : i < j => sent[a][j] - sent[a][i] >= Cooldown
            /\ \A i \in 1..Len(sent[a]) - DailyLimit :
                  sent[a][i + DailyLimit] - sent[a][i] >= Day
=============================================================================
