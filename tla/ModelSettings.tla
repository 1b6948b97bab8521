--------------------------- MODULE ModelSettings ---------------------------
(* The model chain of one use (chat, review processing or extraction): the   *)
(* two app_settings rows an admin may write, the env defaults behind them,   *)
(* the copy each worker process caches, and the update endpoint, which       *)
(* validates a change against the chain in effect and then writes its rows   *)
(* one commit after the other.                                               *)
EXTENDS Naturals, Sequences, SequencesExt

CONSTANTS Models,         \* model specs
          Selectable,     \* those validate_spec accepts for this use
          DefaultPrimary, DefaultBackups,   \* the env values of the use
          MaxBackups,     \* the cap of the use
          Servers,        \* worker processes
          Tasks, Admins, \* requests, and those that may update the settings
          FirstStored,    \* the rows that may be stored at first
          Unset, Omit,    \* no row (null in a request); a field left out
          CacheTtl,       \* _CACHE_TTL_S
          Horizon, MaxCommits   \* bounds: the clock, the commits

ValidBackups(list, primary) ==
    /\ IsInjective(list) /\ Len(list) <= MaxBackups
    /\ \A i \in DOMAIN list : list[i] \in Selectable \ {primary}

(* Both are validated when the process starts.                                *)
DefaultsAssumption ==
    DefaultPrimary \in Selectable /\ ValidBackups(DefaultBackups, DefaultPrimary)

AdminsAssumption == Admins \subseteq Tasks

(* None, a field left out and a time are told apart from models and lists.    *)
Lists == {s \in SeqOf(Models, MaxBackups) : IsInjective(s)}
ValuesAssumption ==
    /\ Unset # Omit /\ Unset \notin Nat /\ CacheTtl \in Nat
    /\ {Unset, Omit} \cap (Selectable \cup Lists) = {}
    /\ \A row \in FirstStored : DOMAIN row = {"primary", "backups"}

VARIABLES serverOf,    \* the process that serves each request
          stored,      \* the two rows: [primary, backups], a value or Unset
          generation,  \* process -> app_settings._generation
          cached,      \* process -> the cached chain, or NoCopy
          task,        \* what each request is doing
          clock,       \* monotonic time
          commits      \* the number of commits so far

modelSettings == <<serverOf, stored, generation, cached, task, clock, commits>>

NoCopy == [gen |-> Unset]
Waiting == [pc |-> "waiting"]

(* An admin's rows may predate the current allow-list, or collide.            *)
SettingsInit ==
    /\ serverOf \in [Tasks -> Servers]
    /\ stored \in FirstStored
    /\ generation = [s \in Servers |-> 0]
    /\ cached = [s \in Servers |-> NoCopy]
    /\ task = [t \in Tasks |-> Waiting]
    /\ clock = 0
    /\ commits = 0

-----------------------------------------------------------------------------
(* The chain two rows give                                                   *)

Primary(row) == IF row # Unset /\ row \in Selectable THEN row ELSE DefaultPrimary

EnvBackups(primary) == SelectSeq(DefaultBackups, LAMBDA m : m # primary)

(* A stored list counts as a whole, or not at all. `unseen`: there are rows   *)
(* that the values in effect do not show.                                     *)
Kept(row, primary) == row # Unset /\ ValidBackups(row, primary)
Resolved(rows) ==
    LET primary == Primary(rows.primary) IN
    [primary |-> primary, kept |-> Kept(rows.backups, primary),
     unseen |-> rows.backups # Unset /\ ~Kept(rows.backups, primary),
     backups |-> IF Kept(rows.backups, primary) THEN rows.backups ELSE EnvBackups(primary)]
Chain(r) == <<r.primary>> \o r.backups

-----------------------------------------------------------------------------
(* resolve(use). A copy also carries, as history, when the first commit it    *)
(* does not show was made, and whether it missed a finished update of its own *)
(* process.                                                                   *)

Become(t, now) == task' = [task EXCEPT ![t] = now]
Usable(s) == /\ cached[s] # NoCopy
             /\ cached[s].gen = generation[s] /\ clock - cached[s].at < CacheTtl

(* The generation and the time are taken before the rows are read.            *)
Resolve(t) ==
    LET s == serverOf[t] IN
    /\ task[t] = Waiting
    /\ IF Usable(s)
       THEN Become(t, [pc |-> "resolved", models |-> cached[s].models, since |-> cached[s].since])
       ELSE Become(t, [pc |-> "reading", gen |-> generation[s], at |-> clock])
    /\ UNCHANGED <<serverOf, stored, generation, cached, clock, commits>>

(* One SELECT of both rows; a failed one is served, and cached, as if there   *)
(* were none.                                                                 *)
ReadRows(t, ok) ==
    /\ task[t].pc = "reading"
    /\ Become(t, [pc |-> "read", gen |-> task[t].gen, at |-> task[t].at, outage |-> ~ok,
                  since |-> Unset, blind |-> FALSE,
                  models |-> IF ok THEN Resolved(stored)
                             ELSE [Resolved([primary |-> Unset, backups |-> Unset]) EXCEPT !.unseen = TRUE]])
    /\ UNCHANGED <<serverOf, stored, generation, cached, clock, commits>>

Keep(t) ==
    /\ task[t].pc = "read"
    /\ cached' = [cached EXCEPT ![serverOf[t]] = task[t]]
    /\ Become(t, [pc |-> "resolved", models |-> task[t].models, since |-> task[t].since])
    /\ UNCHANGED <<serverOf, stored, generation, clock, commits>>

(* The chain is built and called, or an update is refused: nothing is written.*)
Leave(t) ==
    /\ task[t].pc \in {"resolved", "written"}
    /\ Become(t, Waiting)
    /\ UNCHANGED <<serverOf, stored, generation, cached, clock, commits>>

-----------------------------------------------------------------------------
(* PUT /llm/{use}: a field is left out, reset (null) or given.               *)

NewPrimary(current, p) ==
    CASE p = Omit -> current.primary [] p = Unset -> DefaultPrimary [] OTHER -> p

AcceptsListUnchecked(current, primary, b) ==  \* mutant: the list that stays is not looked at
    \/ b = Unset \/ b = Omit
    \/ b \in Lists /\ ValidBackups(b, primary)

Accepts(current, primary, b) ==
    \/ b = Unset
    \/ b = Omit /\ ~current.kept
    \/ b = Omit /\ ValidBackups(current.backups, primary)
    \/ b \in Lists /\ ValidBackups(b, primary)

(* set_setting and delete_setting commit, then bump the generation.           *)
StatementsEarly(p, b) ==    \* mutant: announced before it is committed
    (IF p = Omit THEN <<>> ELSE <<[key |-> "bump"], [key |-> "primary", value |-> p]>>)
    \o (IF b = Omit THEN <<>> ELSE <<[key |-> "bump"], [key |-> "backups", value |-> b]>>)

Statements(p, b) ==
    (IF p = Omit THEN <<>> ELSE <<[key |-> "primary", value |-> p], [key |-> "bump"]>>)
    \o (IF b = Omit THEN <<>> ELSE <<[key |-> "backups", value |-> b], [key |-> "bump"]>>)

(* The chain in effect once an accepted update is written, while nothing      *)
(* overtakes it (history; Unset once something has).                          *)
Intended(current, primary, b) ==
    <<primary>> \o (CASE b \in Lists -> b
                      [] b = Omit /\ current.kept -> current.backups
                      [] OTHER -> EnvBackups(primary))

ApplyUpdate(t, p, b) ==
    LET current == task[t].models
        primary == NewPrimary(current, p)
    IN  /\ t \in Admins /\ task[t].pc = "resolved"
        /\ p # Omit \/ b # Omit
        /\ Accepts(current, primary, b)
        /\ Become(t, [pc |-> "writing", todo |-> Statements(p, b),
                      intended |-> IF task[t].since # Unset \/ current.unseen THEN Unset
                                   ELSE Intended(current, primary, b)])
        /\ UNCHANGED <<serverOf, stored, generation, cached, clock, commits>>

Stepped(t) ==
    LET rest == Tail(task[t].todo) IN
    [task[t] EXCEPT !.todo = rest, !.pc = IF rest = <<>> THEN "written" ELSE "writing"]
(* What a commit, and the end of a request in process s, do to the history of *)
(* a copy.                                                                    *)
Older(copy) == IF copy.since = Unset THEN [copy EXCEPT !.since = clock] ELSE copy
Missed(copy, ended) == IF ended /\ copy.since # Unset THEN [copy EXCEPT !.blind = TRUE] ELSE copy
Copy(c, s, ended) == IF c = NoCopy THEN c ELSE Missed(Older(c), ended)
Overtaken1(now, ended) ==
    CASE now.pc = "read" -> Missed(Older(now), ended)
      [] now.pc = "resolved" -> Older(now)
      [] now.pc \in {"writing", "written"} -> [now EXCEPT !.intended = Unset]
      [] OTHER -> now

CommitRow(t) ==
    LET row   == Head(task[t].todo)
        ended == Tail(task[t].todo) = <<>>
        Ends(s) == ended /\ s = serverOf[t]
    IN
    /\ task[t].pc = "writing" /\ row.key # "bump" /\ commits < MaxCommits
    /\ stored' = IF row.key = "primary" THEN [stored EXCEPT !.primary = row.value]
                 ELSE [stored EXCEPT !.backups = row.value]
    /\ commits' = commits + 1
    /\ task' = [u \in Tasks |-> IF u = t THEN Stepped(t) ELSE Overtaken1(task[u], Ends(serverOf[u]))]
    /\ cached' = [s \in Servers |-> Copy(cached[s], s, Ends(s))]
    /\ UNCHANGED <<serverOf, generation, clock>>

(* The last bump ends the update.                                             *)
Bump(t) ==
    LET Ends(s) == Tail(task[t].todo) = <<>> /\ s = serverOf[t] IN
    /\ task[t].pc = "writing" /\ Head(task[t].todo).key = "bump"
    /\ generation' = [generation EXCEPT ![serverOf[t]] = @ + 1]
    /\ task' = [u \in Tasks |-> CASE u = t -> Stepped(t)
                                 [] u # t /\ task[u].pc = "read" -> Missed(task[u], Ends(serverOf[u]))
                                 [] OTHER -> task[u]]
    /\ cached' = [s \in Servers |-> IF cached[s] = NoCopy THEN NoCopy ELSE Missed(cached[s], Ends(s))]
    /\ UNCHANGED <<serverOf, stored, clock, commits>>

(* A statement fails (two first writes of one row collide, no connection in   *)
(* time): the request ends in a 500 with what it has committed.               *)
FailUpdate(t) ==
    /\ task[t].pc = "writing" /\ Head(task[t].todo).key # "bump"
    /\ Become(t, Waiting)
    /\ UNCHANGED <<serverOf, stored, generation, cached, clock, commits>>

Pass ==
    /\ clock < Horizon
    /\ clock' = clock + 1
    /\ UNCHANGED <<serverOf, stored, generation, cached, task, commits>>

SettingsNext ==
    \/ Pass
    \/ \E t \in Tasks :
          \/ Resolve(t) \/ Keep(t) \/ Leave(t) \/ CommitRow(t) \/ Bump(t) \/ FailUpdate(t)
          \/ \E ok \in BOOLEAN : ReadRows(t, ok)
          \/ \E p \in {Omit, Unset} \cup Selectable, b \in {Omit, Unset} \cup Lists : ApplyUpdate(t, p, b)

-----------------------------------------------------------------------------
(* Properties                                                                *)

(* A change takes effect on the next call in the worker that made it, and     *)
(* within the cache's lifetime in the others, except while the table cannot   *)
(* be read.                                                                   *)
StaleIsShort ==
    \A s \in Servers : Usable(s) /\ ~cached[s].outage =>
        /\ ~cached[s].blind
        /\ cached[s].since = Unset \/ clock - cached[s].since < CacheTtl

(* An accepted update that nothing overtook is the chain in effect: what was  *)
(* validated against the values in effect is what the rows give. Left out: a  *)
(* stored list that was rejected, or could not be read, and comes alive.      *)
AcceptedTakesEffect ==
    \A t \in Tasks :
        task[t].pc = "written" /\ task[t].intended # Unset =>
            Chain(Resolved(stored)) = task[t].intended
=============================================================================
