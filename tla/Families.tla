------------------------------ MODULE Families ------------------------------
(* Laptops and their families: rows arriving from ingest, the regroup run,   *)
(* and the admin endpoints that move, release, delete and rename.            *)
(*                                                                           *)
(* Every request reads, decides and then commits: the UPDATEs of the rows it *)
(* changed, its INSERTs and its DELETEs, in one transaction. The foreign     *)
(* keys are NO ACTION: a commit that would leave a dangling reference fails  *)
(* as a whole.                                                               *)
EXTENDS Naturals, FiniteSets, FiniteSetsExt

CONSTANTS Laptops, Family,    \* laptop rows and family rows (ids)
          Key,                \* laptop -> seed key (family_key of its product name)
          Names,              \* names a family may get; a key is also a name
          Editors,            \* admin requests open at once
          None,               \* no family
          MaxRefs             \* bound on the rows referred to

KeyAssumption == IsFiniteSet(Laptops) /\ \A l \in Laptops : Key[l] \in Names
NoneAssumption == None \notin Family

VARIABLES laptops,   \* laptop -> present, its family_id
          families,  \* family -> exists, its name
          blocked,   \* references that refuse a delete: laptops and families
          editing    \* what each open request will commit

catalog == <<laptops, families, blocked, editing>>

Present == {l \in Laptops : laptops[l].present}
Members(f) == {l \in Present : laptops[l].family = f}
Live == {f \in Family : families[f].live}

(* Families of the assigned laptops that share a seed key.                    *)
Evidence(key) == {laptops[l].family : l \in {m \in Present : Key[m] = key}} \ {None}

Automatic == {"create", "regroup"}
NoMove == [l \in {} |-> None]
NoMake == [f \in {} |-> None]

Quiet == [op |-> "none"]
(* A pending commit: laptops' new families, families created and deleted, and *)
(* the sibling families an automatic assignment was decided on.               *)
Pending(op, move, make, drop) ==
    [op |-> op, move |-> move, make |-> make, drop |-> drop,
     seen |-> IF op \in Automatic THEN [k \in {Key[l] : l \in DOMAIN move} |-> Evidence(k)]
              ELSE NoMove]

CatalogInit ==
    /\ laptops = [l \in Laptops |-> [present |-> FALSE, family |-> None]]
    /\ families = [f \in Family |-> [live |-> FALSE, name |-> None]]
    /\ blocked = {}
    /\ editing = [e \in Editors |-> Quiet]

Read(e, request) ==
    /\ editing[e] = Quiet
    /\ editing' = [editing EXCEPT ![e] = request]
    /\ UNCHANGED <<laptops, families, blocked>>

-----------------------------------------------------------------------------
(* Assignment by evidence                                                    *)

ResolveAnyFamily(key) ==   \* mutant: picks a side when siblings disagree
    IF Evidence(key) # {} THEN CHOOSE f \in Evidence(key) : TRUE ELSE None

(* A new row adopts the family its siblings agree on, or stays unassigned.    *)
ResolveFamilyId(key) ==
    IF Cardinality(Evidence(key)) = 1 THEN CHOOSE f \in Evidence(key) : TRUE ELSE None

(* Ingest of a scraped row and POST /laptops: reads the siblings, commits.    *)
CreateLaptop(e, l) ==
    /\ l \notin Present
    /\ Read(e, Pending("create", [x \in {l} |-> ResolveFamilyId(Key[l])], NoMake, {}))

(* Unassigned rows only, one key after another: adopt, leave null when the    *)
(* siblings disagree, or create a family named after the key.                 *)
Regroup(e) ==
    LET backlog == {l \in Present : laptops[l].family = None}
        keys    == {Key[l] : l \in backlog}
        newKeys == {k \in keys : Evidence(k) = {}}
    IN  \E fresh \in [newKeys -> Family \ Live] :
          LET target(k) == IF k \in newKeys THEN fresh[k] ELSE ResolveFamilyId(k)
              assigned  == {l \in backlog : target(Key[l]) # None}
          IN  /\ backlog # {}
              /\ \A j, k \in newKeys : j # k => fresh[j] # fresh[k]
              /\ \A k \in newKeys, d \in Editors :    \* uuid4: no two requests pick one id
                    editing[d] # Quiet => fresh[k] \notin DOMAIN editing[d].make
              /\ Read(e, Pending("regroup", [l \in assigned |-> target(Key[l])],
                                 [f \in {fresh[k] : k \in newKeys} |->
                                     CHOOSE k \in newKeys : fresh[k] = f], {}))

-----------------------------------------------------------------------------
(* The admin endpoints                                                       *)

(* One laptop or several, into a family or out of all of them: all or nothing *)
(* on unknown ids. A row already in the target is not written.                *)
MoveLaptops(e, ls, target) ==
    /\ ls \subseteq Present /\ ls # {}
    /\ target = None \/ target \in Live
    /\ Read(e, Pending("move", [l \in {x \in ls : laptops[x].family # target} |-> target],
                       NoMake, {}))

RemoveLaptop(e, l) ==
    /\ l \in Present /\ laptops[l].family # None
    /\ Read(e, Pending("move", [x \in {l} |-> None], NoMake, {}))

NameFree(name, except) == \A f \in Live \ except : families[f].name # name

CreateFamily(e, f, name) ==
    /\ f \notin Live /\ NameFree(name, {})
    /\ \A d \in Editors : editing[d] # Quiet => f \notin DOMAIN editing[d].make
    /\ Read(e, Pending("family", NoMove, [x \in {f} |-> name], {}))

UpdateFamily(e, f, name) ==
    /\ f \in Live /\ NameFree(name, {f})
    /\ Read(e, Pending("rename", NoMove, [x \in {f} |-> name], {}))

(* Refused while reviews, staged claims or chunks point at it; else its       *)
(* members are released and it is deleted.                                    *)
DeleteFamily(e, f) ==
    /\ f \in Live \ blocked
    /\ Read(e, Pending("drop", [l \in Members(f) |-> None], NoMake, {f}))

DeleteLaptop(e, l) ==
    /\ l \in Present \ blocked
    /\ Read(e, Pending("delete", NoMove, NoMake, {l}))

(* A wishlist, a conversation, a review link or a claim comes to point at it. *)
Refer(x) ==
    /\ x \in (Present \cup Live) \ blocked /\ Cardinality(blocked) < MaxRefs
    /\ blocked' = blocked \cup {x}
    /\ UNCHANGED <<laptops, families, editing>>

-----------------------------------------------------------------------------
(* Commit                                                                    *)

Moved(q) == [l \in Laptops |->
               IF l \in q.drop THEN [present |-> FALSE, family |-> None]
               ELSE IF l \in DOMAIN q.move
                    THEN [present |-> laptops[l].present \/ q.op = "create", family |-> q.move[l]]
                    ELSE laptops[l]]
Made(q) == [f \in Family |->
              IF f \in q.drop THEN [live |-> FALSE, name |-> None]
              ELSE IF f \in DOMAIN q.make /\ (q.op # "rename" \/ families[f].live)
                   THEN [live |-> TRUE, name |-> q.make[f]]
                   ELSE families[f]]

(* No row ends up pointing at a family that is not there, and nothing that is *)
(* referred to goes. An UPDATE of a row that is gone fails too (StaleData),   *)
(* and so does a second INSERT of one model code.                             *)
Legal(q) ==
    LET ls == Moved(q)   fs == Made(q) IN
    /\ \A l \in Laptops : ls[l].present /\ ls[l].family # None => fs[ls[l].family].live
    /\ q.drop \cap blocked = {}
    /\ \A l \in DOMAIN q.move : laptops[l].present <=> q.op # "create"
    /\ q.op = "rename" => \A f \in DOMAIN q.make : families[f].live
    /\ \A x \in q.drop : x \in Present \cup Live

Save(e) ==
    LET q == editing[e] IN
    /\ q # Quiet
    /\ editing' = [editing EXCEPT ![e] = Quiet]
    /\ IF Legal(q)
       THEN laptops' = Moved(q) /\ families' = Made(q)
       ELSE UNCHANGED <<laptops, families>>
    /\ UNCHANGED blocked

CatalogNext ==
    \/ \E x \in Laptops \cup Family : Refer(x)
    \/ \E e \in Editors :
          \/ Save(e) \/ Regroup(e)
          \/ \E l \in Laptops : CreateLaptop(e, l) \/ RemoveLaptop(e, l) \/ DeleteLaptop(e, l)
          \/ \E ls \in SUBSET Laptops, f \in Family \cup {None} : MoveLaptops(e, ls, f)
          \/ \E f \in Family : DeleteFamily(e, f)
          \/ \E f \in Family, name \in Names : CreateFamily(e, f, name) \/ UpdateFamily(e, f, name)

-----------------------------------------------------------------------------
(* Properties                                                                *)

(* An automatic commit was overtaken: the siblings' families or one of the    *)
(* rows changed after the request read them.                                  *)
Overtook(q) ==
    \/ \E k \in DOMAIN q.seen : Evidence(k) # q.seen[k]
    \/ \E l \in DOMAIN q.move : laptops[l].family # None

(* "Never guess a family", and never undo a human's choice: an ingest or a    *)
(* regroup that no other commit overtook moves no row that has a family, and  *)
(* each row it places joins all of its siblings, which then agree.            *)
NeverGuessesStep ==
    \A e \in Editors :
        LET q == editing[e] IN
        editing'[e] = Quiet /\ q # Quiet /\ q.op \in Automatic /\ ~Overtook(q) =>
            \A l \in Laptops : laptops'[l].family # laptops[l].family =>
                /\ laptops[l].family = None
                /\ Evidence(Key[l])' = {laptops'[l].family}
NeverGuesses == [][NeverGuessesStep]_catalog
=============================================================================
