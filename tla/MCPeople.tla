------------------------------ MODULE MCPeople ------------------------------
(* The components that serve people's requests: accounts, the rate limits,    *)
(* the small tables with look-ups, the model settings, the chat turn and the  *)
(* search. Each is a part of its own.                                         *)
EXTENDS MCParts, Accounts, Sequences

CONSTANTS
    Addresses, Callers, PerCaller, CallerWindow, Cooldown, DailyLimit, Day, PruneAge, MaxKeys,
    MaxTime,                             \* HttpRateLimit
    Rows, Slots, Writers,                \* Registry
    Models, Selectable, DefaultPrimary, DefaultBackups, MaxBackups, Servers, Tasks, Editors,
    FirstStored, Unset, Omit, CacheTtl, Horizon, MaxCommits,    \* ModelSettings
    m1, m2, m3,                          \* its models
    Turns, Backups, Laptops, Thinking, Nothing, MaxSteps, MaxTokens,   \* ChatTurn
    Ids, Specs, Searches, RecallSize, MaxResults, Viable, Relevant, FallbackSimilarity,
    MaxWeightSteps, MaxBudgetSteps                              \* SearchPipeline

VARIABLES hits, now, sent, forgot,
          kind, rows, parent, refs, writing, clashed,
          serverOf, stored, generation, cached, task, clock, commits,
          turn, messages, pool, logs, live, laptops, deletion,
          catalogue, search, answer

Rl == INSTANCE HttpRateLimit

Re == INSTANCE Registry

(* No rows; a primary that is no longer selectable, with the default primary  *)
(* as its backup.                                                             *)
FirstRows == {[primary |-> Unset, backups |-> Unset], [primary |-> m3, backups |-> <<m1>>]}
DefaultList == <<m2>>

Ms == INSTANCE ModelSettings WITH Admins <- Editors

Ct == INSTANCE ChatTurn

(* Prices and weights around a budget of 7 or 9 and a limit of 7; one laptop  *)
(* that is alike and one that is alike and too heavy.                         *)
LaptopSpec(price, weight, similarity, family, named, apt) ==
    [price |-> price, weight |-> weight, similarity |-> similarity,
     family |-> family, named |-> named, apt |-> apt]
LaptopSpecs ==
    {LaptopSpec(price, weight, 600, line, TRUE, FALSE) :
        price \in {8, 10}, weight \in {None, 7, 8}, line \in {fam, None}}
    \cup {LaptopSpec(8, 7, 700, None, FALSE, TRUE), LaptopSpec(9, 10, 800, fam, FALSE, FALSE)}
AllSearches == [budget : {None, 7, 9}, weight : {None, 7}, brand : BOOLEAN, apt : {TRUE}, topK : {1, 2}]

Se == INSTANCE SearchPipeline WITH request <- search, Requests <- Searches

ASSUME PeopleAssumption ==
    /\ AdminsAssumption /\ StatusesAssumption /\ MaxHashAssumption
    /\ Rl!WindowsAssumption
    /\ Ms!DefaultsAssumption /\ Ms!AdminsAssumption /\ Ms!ValuesAssumption
    /\ Ct!ChainAssumption
    /\ Se!SearchAssumption

-----------------------------------------------------------------------------

AccountsOff == /\ users = Off /\ links = Off /\ sessions = Off /\ request = Off
               /\ hashes = Off /\ replaced = Off /\ raced = Off
LimitsOff == hits = Off /\ now = Off /\ sent = Off /\ forgot = Off
RegistryOff == /\ kind = Off /\ rows = Off /\ parent = Off
               /\ refs = Off /\ writing = Off /\ clashed = Off
SettingsOff == /\ serverOf = Off /\ stored = Off /\ generation = Off /\ cached = Off
               /\ task = Off /\ clock = Off /\ commits = Off
ChatOff == /\ turn = Off /\ messages = Off /\ pool = Off /\ logs = Off
           /\ live = Off /\ laptops = Off /\ deletion = Off
SearchOff == catalogue = Off /\ search = Off /\ answer = Off

PeopleOff == AccountsOff /\ LimitsOff /\ RegistryOff /\ SettingsOff /\ ChatOff /\ SearchOff

PeopleInit ==
    /\ part \in {"accounts", "limits", "registry", "settings", "chat", "search"}
    /\ IF part = "accounts" THEN Init ELSE AccountsOff
    /\ IF part = "limits" THEN Rl!LimitsInit ELSE LimitsOff
    /\ IF part = "registry" THEN Re!RegistryInit ELSE RegistryOff
    /\ IF part = "settings" THEN Ms!SettingsInit ELSE SettingsOff
    /\ IF part = "chat" THEN Ct!ChatInit ELSE ChatOff
    /\ IF part = "search" THEN Se!SearchInit ELSE SearchOff

accounts == vars
limits == <<hits, now, sent, forgot>>
registry == <<kind, rows, parent, refs, writing, clashed>>
settings == <<serverOf, stored, generation, cached, task, clock, commits>>
chat == <<turn, messages, pool, logs, live, laptops, deletion>>
searches == <<catalogue, search, answer>>
people == <<accounts, limits, registry, settings, chat, searches>>

PeopleNext ==
    \/ part = "accounts" /\ Next /\ UNCHANGED <<part, limits, registry, settings, chat, searches>>
    \/ part = "limits" /\ Rl!LimitsNext /\ UNCHANGED <<part, accounts, registry, settings, chat, searches>>
    \/ part = "registry" /\ Re!RegistryNext /\ UNCHANGED <<part, accounts, limits, settings, chat, searches>>
    \/ part = "settings" /\ Ms!SettingsNext /\ UNCHANGED <<part, accounts, limits, registry, chat, searches>>
    \/ part = "chat" /\ Ct!ChatNext /\ UNCHANGED <<part, accounts, limits, registry, settings, searches>>
    \/ part = "search" /\ Se!SearchNext /\ UNCHANGED <<part, accounts, limits, registry, settings, chat>>

PeopleSpec == PeopleInit /\ [][PeopleNext]_<<part, people>>

(* Guards against a race are examined up to the step in which it happened.    *)
StopAtRace == part = "accounts" => ~raced

-----------------------------------------------------------------------------
(* The properties of the parts, on the behaviours of their part               *)

(* Accounts: an active admin is left, unless a commit overtook the count.     *)
AnAdminStays == part = "accounts" => AdminRemains
(* Accounts: the same without the exception, as the code's comment says it.   *)
AlwaysAnAdmin == part = "accounts" => NeverWithoutAdmin
(* Accounts: one password change per hash through its reset links.            *)
ResetLinksDie == part = "accounts" => LinksDieTogether
(* HttpRateLimit: the cooldown and the daily cap of an address hold.          *)
MailsBounded == part = "limits" => Rl!MailsBounded
(* Registry: one row per name, owner and active step.                         *)
OneHolder == part = "registry" => Re!OneHolder
(* ModelSettings: an accepted update is the chain in effect.                  *)
AcceptedTakesEffect == part = "settings" => Ms!AcceptedTakesEffect
(* ModelSettings: no cached chain outlives a change by more than the TTL.     *)
StaleIsShort == part = "settings" => Ms!StaleIsShort
(* ChatTurn: the stored reply is the one that was shown.                      *)
ReplyIsWhatWasShown == part = "chat" => Ct!ReplyIsWhatWasShown
(* ChatTurn: deleting a conversation is not refused by its children.          *)
DeletionGoesThrough == part = "chat" => Ct!DeletionGoesThrough
(* SearchPipeline: over the budget only when said, and only when needed.      *)
BudgetHonoured == part = "search" => Se!BudgetHonoured
=============================================================================
