------------------------------ MODULE Registry ------------------------------
(* The small tables behind the catalog and the accounts, each with rules     *)
(* about which rows may stand side by side: brands, categories and product   *)
(* types (one per name), active questions (one per step of a product type),  *)
(* preferences and avatars (one per user), saved laptops (one per user and   *)
(* laptop), review channels (one per YouTube id), CPU and GPU marks (one per *)
(* name), price guides (one per PDF), and customizations (any number per     *)
(* laptop and category).                                                     *)
(*                                                                           *)
(* Every write endpoint looks for the row that would clash, then inserts,    *)
(* updates or deletes in a later statement. Some tables have a unique index  *)
(* behind the look-up and some have not.                                     *)
EXTENDS Naturals

CONSTANTS Rows, Slots, Writers   \* row ids, names (steps, owners), open requests

Kinds == {"brand", "category", "product_type", "question", "preferences", "avatar",
          "saved", "channel", "cpu", "gpu", "guide", "customization"}
Unique == {"brand", "category", "product_type", "avatar", "saved",    \* unique indexes
           "channel", "cpu", "gpu", "guide"}
Retired == {"question"}                 \* inactive rows hold no step
(* Rows of these kinds are refused deletion while something refers to them.   *)
Guarded == {"brand", "category", "product_type", "guide"}
Parent == [question |-> "product_type", customization |-> "category"]

VARIABLES kind,      \* the table a behaviour is about
          rows,      \* id -> exists, its slot, active
          parent,    \* the row the kind's rows point at: exists
          refs,      \* something outside the table refers to these rows
          writing,   \* what each open request will commit
          clashed    \* history: a commit overtook another's look-up

tables == <<kind, rows, parent, refs, writing, clashed>>

Absent == [exists |-> FALSE, slot |-> 0, active |-> FALSE]
None0 == [op |-> "none"]

RegistryInit ==
    /\ kind \in Kinds
    /\ rows = [r \in Rows |-> Absent]
    /\ parent = TRUE
    /\ refs = {}
    /\ writing = [w \in Writers |-> None0]
    /\ clashed = FALSE

Stored == {r \in Rows : rows[r].exists}
Holders(s) == {r \in Stored : rows[r].slot = s /\ (kind \in Retired => rows[r].active)}

ClashOnMove(s, r, active) ==   \* mutant: looks only when the name or step changes
    IF r \in Stored /\ rows[r].slot = s THEN {} ELSE Holders(s)

(* The look-up before a write: who holds slot s, apart from the row itself.   *)
Clash(s, r, active) == IF kind \in Retired /\ ~active THEN {} ELSE Holders(s) \ {r}

Pend(op, r, row) == [op |-> op, row |-> r, old |-> rows[r], new |-> row]
Ask(w, pending) ==
    /\ writing[w] = None0
    /\ writing' = [writing EXCEPT ![w] = pending]
    /\ UNCHANGED <<kind, rows, parent, refs, clashed>>
Fresh(r) == r \notin Stored /\ \A v \in Writers : writing[v] # None0 => writing[v].row # r

Row(s, active) == [exists |-> TRUE, slot |-> s, active |-> active]
Free(s, r, active) == Clash(s, r, active) = {}

(* POST: 409 on a clash, else a new row.                                      *)
Insert(w, s, active) ==
    \E r \in Rows : /\ Fresh(r) /\ Free(s, r, active)
                    /\ Ask(w, Pend("insert", r, Row(s, active)))
(* PUT by id: the name (step), the active flag, or both.                      *)
Change(w, s, active) ==
    \E r \in Stored : Free(s, r, active) /\ Ask(w, Pend("update", r, [rows[r] EXCEPT !.slot = s, !.active = active]))
(* PATCH by id without a look-up: a clash is left to the index.               *)
Patch(w, s, active) ==
    \E r \in Stored : Ask(w, Pend("update", r, [rows[r] EXCEPT !.slot = s, !.active = active]))
Remove(w, refused) == \E r \in Stored \ refused : Ask(w, Pend("delete", r, Absent))
(* PUT of what belongs to an owner: updates the row it finds (.first() of     *)
(* whatever is there), else inserts one.                                      *)
Put(w, s) ==
    \/ \E r \in Holders(s) : Ask(w, Pend("update", r, rows[r]))
    \/ Holders(s) = {} /\ Insert(w, s, TRUE)

CreateBrand(w, s, active) == kind = "brand" /\ Insert(w, s, active)
UpdateBrand(w, s, active) == kind = "brand" /\ Change(w, s, active)
DeleteBrand(w) == kind = "brand" /\ Remove(w, refs)

CreateCategory(w, s, active) == kind = "category" /\ Insert(w, s, active)
UpdateCategory(w, s, active) == kind = "category" /\ Change(w, s, active)
DeleteCategory(w) == kind = "category" /\ Remove(w, refs)

CreateProductType(w, s, active) == kind = "product_type" /\ Insert(w, s, active)
UpdateProductType(w, s, active) == kind = "product_type" /\ Change(w, s, active)
DeleteProductType(w) == kind = "product_type" /\ Remove(w, refs)

(* 404 without the product type; an inactive question holds no step.          *)
CreateQuestion(w, s, active) == kind = "question" /\ parent /\ Insert(w, s, active)
UpdateQuestion(w, s, active) == kind = "question" /\ parent /\ Change(w, s, active)
DeleteQuestion(w) == kind = "question" /\ Remove(w, {})

UpdateMyPreferences(w, s) == kind = "preferences" /\ Put(w, s)
UploadMyAvatar(w, s) == kind = "avatar" /\ Put(w, s)
(* The photo of a Google account, only where there is none when it looks; the *)
(* look-up is committed before the fetch, and a failed insert is ignored.     *)
ImportGoogleAvatar(w, s) == kind = "avatar" /\ Insert(w, s, TRUE)
DeleteMyAvatar(w) == kind = "avatar" /\ Remove(w, {})
SaveLaptop(w, s) == kind = "saved" /\ Insert(w, s, TRUE)
UnsaveLaptop(w) == kind = "saved" /\ Remove(w, {})

(* YouTube resolves the URL to the channel's id first; the id never changes,  *)
(* an inactive channel keeps it, and no channel is deleted.                   *)
AddChannel(w, s, active) == kind = "channel" /\ Insert(w, s, active)
UpdateChannel(w, active) ==
    kind = "channel" /\ \E r \in Stored : Ask(w, Pend("update", r, [rows[r] EXCEPT !.active = active]))

(* The names of marks: a rename looks for nobody.                             *)
CreateCpuBenchmark(w, s) == kind = "cpu" /\ Insert(w, s, TRUE)
UpdateCpuBenchmark(w, s) == kind = "cpu" /\ Patch(w, s, TRUE)
DeleteCpuBenchmark(w) == kind = "cpu" /\ Remove(w, {})

CreateGpuBenchmark(w, s) == kind = "gpu" /\ Insert(w, s, TRUE)
UpdateGpuBenchmark(w, s) == kind = "gpu" /\ Patch(w, s, TRUE)
DeleteGpuBenchmark(w) == kind = "gpu" /\ Remove(w, {})

(* The extraction workflow stores a PDF once and completes it when it reads   *)
(* it again; a guide a price came from is refused deletion.                   *)
StoreGuide(w, s) == kind = "guide" /\ Put(w, s)
DeletePriceGuide(w) == kind = "guide" /\ Remove(w, refs)

(* One row per laptop, chosen by id or by a pattern of its model code; 404    *)
(* when a laptop or the category is missing, and no clash to look for.        *)
AddCustomization(w, s) ==
    kind = "customization" /\ parent
    /\ \E r \in Rows : Fresh(r) /\ Ask(w, Pend("insert", r, Row(s, TRUE)))
CreateCustomizationsForLaptops(w, s) == AddCustomization(w, s)
CreateCustomizationsByPattern(w, s) == AddCustomization(w, s)
UpdateCustomization(w) ==
    kind = "customization" /\ \E r \in Stored : Ask(w, Pend("update", r, rows[r]))
DeleteCustomization(w) == kind = "customization" /\ Remove(w, {})

-----------------------------------------------------------------------------
(* The rest of the program and the commits                                   *)

(* A laptop takes the brand, a tag or a customization the category, a question*)
(* the product type, a price the guide.                                       *)
Refer(r) ==
    /\ kind \in Guarded /\ r \in Stored \ refs
    /\ refs' = refs \cup {r}
    /\ UNCHANGED <<kind, rows, parent, writing, clashed>>

(* The parent is deleted: refused while rows of this table point at it.       *)
DropParent ==
    /\ kind \in DOMAIN Parent /\ parent /\ Stored = {}
    /\ parent' = FALSE
    /\ UNCHANGED <<kind, rows, refs, writing, clashed>>

After(q) ==
    [rows EXCEPT ![q.row] =
        CASE q.op = "insert" -> q.new
          [] q.op = "delete" -> Absent
          [] q.op = "update" -> [c \in DOMAIN @ |-> IF q.old[c] # q.new[c] THEN q.new[c] ELSE @[c]]]
(* A unique index, a foreign key, or an UPDATE of a row that is gone fails it.*)
Accepted(q) ==
    /\ q.op = "update" => q.row \in Stored
    /\ q.op = "delete" => q.row \in Stored \ refs
    /\ q.op = "insert" /\ kind \in DOMAIN Parent => parent
    /\ kind \in Unique /\ q.op # "delete" =>
          \A r \in Stored \ {q.row} : rows[r].slot # After(q)[q.row].slot
Late(q) ==
    \/ q.op \in {"insert", "update"} /\ kind # "customization" /\ Clash(q.new.slot, q.row, q.new.active) # {}
    \/ q.op = "update" /\ rows[q.row] # q.old

Flush(w) ==
    LET q == writing[w] IN
    /\ q # None0
    /\ writing' = [writing EXCEPT ![w] = None0]
    /\ IF Accepted(q)
       THEN /\ rows' = After(q)
            /\ clashed' = (clashed \/ Late(q))
       ELSE UNCHANGED <<rows, clashed>>
    /\ UNCHANGED <<kind, parent, refs>>

RegistryNext ==
    \/ DropParent
    \/ \E r \in Rows : Refer(r)
    \/ \E w \in Writers :
          \/ Flush(w)
          \/ DeleteBrand(w) \/ DeleteCategory(w) \/ DeleteProductType(w) \/ DeleteQuestion(w)
          \/ DeleteMyAvatar(w) \/ UnsaveLaptop(w)
          \/ UpdateCustomization(w) \/ DeleteCustomization(w)
          \/ DeleteCpuBenchmark(w) \/ DeleteGpuBenchmark(w)
          \/ DeletePriceGuide(w)
          \/ \E active \in BOOLEAN : UpdateChannel(w, active)
          \/ \E s \in Slots, active \in BOOLEAN :
                \/ CreateBrand(w, s, active) \/ UpdateBrand(w, s, active)
                \/ CreateCategory(w, s, active) \/ UpdateCategory(w, s, active)
                \/ CreateProductType(w, s, active) \/ UpdateProductType(w, s, active)
                \/ CreateQuestion(w, s, active) \/ UpdateQuestion(w, s, active)
                \/ AddChannel(w, s, active)
          \/ \E s \in Slots :
                \/ UpdateMyPreferences(w, s) \/ UploadMyAvatar(w, s) \/ ImportGoogleAvatar(w, s)
                \/ SaveLaptop(w, s) \/ StoreGuide(w, s)
                \/ CreateCpuBenchmark(w, s) \/ UpdateCpuBenchmark(w, s)
                \/ CreateGpuBenchmark(w, s) \/ UpdateGpuBenchmark(w, s)
                \/ CreateCustomizationsForLaptops(w, s) \/ CreateCustomizationsByPattern(w, s)

-----------------------------------------------------------------------------
(* Properties                                                                *)

(* One row per name, per owner and per active step; with a unique index       *)
(* whatever overlaps, without one unless a commit overtook a look-up.         *)
OneHolder ==
    kind # "customization" /\ (kind \in Unique \/ ~clashed) =>
        \A s \in Slots : \A r, t \in Holders(s) : r = t
=============================================================================
