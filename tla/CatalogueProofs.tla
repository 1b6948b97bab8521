--------------------------- MODULE CatalogueProofs ---------------------------
(* What holds for every value of the constants of MCCatalogue: an automatic   *)
(* assignment never guesses a family, a run's counts are what it stored,      *)
(* scores follow the marks of a completed refresh, a better laptop scores no  *)
(* lower, a quote is Apple's, the readers of reviews agree, and a queued      *)
(* target has the page stored for it.                                         *)
EXTENDS MCCatalogue, FiniteSetTheorems, SequenceTheorems, WellFoundedInduction,
        NaturalsInduction, TLAPS

(* A cardinality is the same in each component.                               *)
LEMMA FamiliesCount == ASSUME NEW S PROVE Fa!Cardinality(S) = Cardinality(S)
  BY DEF Fa!Cardinality, Cardinality, Fa!IsFiniteSet, IsFiniteSet
LEMMA JobsCount == ASSUME NEW S PROVE Cj!Cardinality(S) = Cardinality(S)
  BY DEF Cj!Cardinality, Cardinality, Cj!IsFiniteSet, IsFiniteSet
LEMMA PagesCount == ASSUME NEW S PROVE Sp!Cardinality(S) = Cardinality(S)
  BY DEF Sp!Cardinality, Cardinality, Sp!IsFiniteSet, IsFiniteSet
LEMMA ReviewsCount == ASSUME NEW S PROVE Rp!Cardinality(S) = Cardinality(S)
  BY DEF Rp!Cardinality, Cardinality, Rp!IsFiniteSet, IsFiniteSet
LEMMA OptionsCount == ASSUME NEW S PROVE Ao!Cardinality(S) = Cardinality(S)
  BY DEF Ao!Cardinality, Cardinality, Ao!IsFiniteSet, IsFiniteSet
LEMMA OptionsFinite == ASSUME NEW S PROVE Ao!IsFiniteSet(S) <=> IsFiniteSet(S)
  BY DEF Ao!IsFiniteSet, IsFiniteSet
LEMMA SameFinite ==
    ASSUME NEW S
    PROVE  (Fa!IsFiniteSet(S) <=> IsFiniteSet(S)) /\ (Cj!IsFiniteSet(S) <=> IsFiniteSet(S))
           /\ (Sp!IsFiniteSet(S) <=> IsFiniteSet(S))
  BY DEF Fa!IsFiniteSet, Cj!IsFiniteSet, Sp!IsFiniteSet, IsFiniteSet

(* The values of a function on a finite set are finitely many.                *)
LEMMA FiniteImage ==
    ASSUME NEW S, IsFiniteSet(S), NEW f
    PROVE  IsFiniteSet({f[x] : x \in S})
<1> DEFINE T == {f[x] : x \in S}
           g == [x \in S |-> f[x]]
<1>1. g \in Surjection(S, T)
  BY DEF Surjection
<1> QED BY <1>1, FS_Surjection

-----------------------------------------------------------------------------
(* Families                                                                   *)

(* What an open automatic request was decided on: a laptop that it places     *)
(* joins the only family its siblings had, or, with all of its siblings, a    *)
(* family of their own.                                                       *)
Decided(q) ==
    q.op \in Fa!Automatic =>
        /\ q.drop = {} /\ DOMAIN q.move \subseteq Products
        /\ DOMAIN q.seen = {Key[l] : l \in DOMAIN q.move}
        /\ \A l \in DOMAIN q.move : q.move[l] # None => q.seen[Key[l]] \subseteq {q.move[l]}
        /\ \A l, m \in DOMAIN q.move : Key[l] = Key[m] => q.move[l] = q.move[m]

FilingInv == DOMAIN editing = Editors /\ \A e \in Editors : Decided(editing[e])

(* The family that evidence gives is the only one there is evidence for.      *)
LEMMA OnlyEvidence ==
    ASSUME Fa!KeyAssumption, NEW key, Fa!ResolveFamilyId(key) # None
    PROVE  Fa!Evidence(key) = {Fa!ResolveFamilyId(key)}
<1> DEFINE siblings == {m \in Fa!Present : Key[m] = key}
           family == [l \in siblings |-> filed[l].family]
           all == {family[l] : l \in siblings}
<1>1. IsFiniteSet(siblings)
  <2>1. siblings \subseteq Products
    BY DEF Fa!Present
  <2> QED BY <2>1, FS_Subset, SameFinite DEF Fa!KeyAssumption
<1>2. IsFiniteSet(all)
  <2> HIDE DEF siblings, family
  <2> QED BY <1>1, FiniteImage
<1>3. IsFiniteSet(Fa!Evidence(key))
  <2>1. Fa!Evidence(key) = all \ {None}
    BY DEF Fa!Evidence
  <2> HIDE DEF all
  <2> QED BY <1>2, <2>1, FS_Difference
<1>4. Cardinality(Fa!Evidence(key)) = 1
  BY FamiliesCount DEF Fa!ResolveFamilyId
<1>5. PICK f : Fa!Evidence(key) = {f}
  BY <1>3, <1>4, FS_Singleton
<1>6. (CHOOSE g \in {f} : TRUE) = f
  OBVIOUS
<1> QED BY <1>4, <1>5, <1>6, FamiliesCount DEF Fa!ResolveFamilyId

(* What a request reads leaves the others as they are.                        *)
LEMMA ReadDecides ==
    ASSUME FilingInv, NEW e \in Editors, NEW q, Fa!Read(e, q), Decided(q)
    PROVE  FilingInv'
  BY DEF FilingInv, Fa!Read, Decided, Fa!Automatic

(* A request of a human is not automatic.                                     *)
LEMMA HumansDecide ==
    ASSUME NEW op \in {"move", "family", "rename", "drop", "delete"}, NEW move, NEW make, NEW drop
    PROVE  Decided(Fa!Pending(op, move, make, drop))
  BY DEF Decided, Fa!Pending, Fa!Automatic

(* A new laptop.                                                              *)
LEMMA CreateDecides ==
    ASSUME Fa!KeyAssumption, NEW l \in Products
    PROVE  Decided(Fa!Pending("create", [x \in {l} |-> Fa!ResolveFamilyId(Key[l])], Fa!NoMake, {}))
<1> DEFINE r == Fa!ResolveFamilyId(Key[l])
           move == [x \in {l} |-> r]
           q == Fa!Pending("create", move, Fa!NoMake, {})
<1>1. q.op = "create" /\ q.drop = {} /\ q.move = move
      /\ q.seen = [k \in {Key[m] : m \in DOMAIN move} |-> Fa!Evidence(k)]
  BY DEF Fa!Pending, Fa!Automatic
<1>2. r # None => Fa!Evidence(Key[l]) = {r}
  BY OnlyEvidence
<1> HIDE DEF r, q
<1>3. DOMAIN move = {l} /\ move[l] = r
  OBVIOUS
<1> HIDE DEF move
<1>4. Decided(q)
  BY <1>1, <1>2, <1>3 DEF Decided
<1> QED BY <1>4 DEF q, move, r

(* The regroup run.                                                           *)
LEMMA RegroupDecides ==
    ASSUME Fa!KeyAssumption, FilingInv, NEW e \in Editors, Fa!Regroup(e)
    PROVE  FilingInv'
<1> DEFINE backlog == {l \in Fa!Present : filed[l].family = None}
           newKeys == {k \in {Key[l] : l \in backlog} : Fa!Evidence(k) = {}}
<1>1. PICK fresh \in [newKeys -> Family \ Fa!Live] :
          LET target(k) == IF k \in newKeys THEN fresh[k] ELSE Fa!ResolveFamilyId(k)
              assigned  == {l \in backlog : target(Key[l]) # None}
          IN  Fa!Read(e, Fa!Pending("regroup", [l \in assigned |-> target(Key[l])],
                                 [f \in {fresh[k] : k \in newKeys} |->
                                     CHOOSE k \in newKeys : fresh[k] = f], {}))
  BY DEF Fa!Regroup
<1> DEFINE target(k) == IF k \in newKeys THEN fresh[k] ELSE Fa!ResolveFamilyId(k)
           assigned == {l \in backlog : target(Key[l]) # None}
           move == [l \in assigned |-> target(Key[l])]
           make == [f \in {fresh[k] : k \in newKeys} |-> CHOOSE k \in newKeys : fresh[k] = f]
           q == Fa!Pending("regroup", move, make, {})
<1>2. Fa!Read(e, q)
  BY <1>1
<1>3. q.op = "regroup" /\ q.drop = {} /\ q.move = move
      /\ q.seen = [k \in {Key[m] : m \in DOMAIN move} |-> Fa!Evidence(k)]
  BY DEF Fa!Pending, Fa!Automatic
<1>4. \A k : target(k) # None => Fa!Evidence(k) \subseteq {target(k)}
  BY OnlyEvidence
<1>5. DOMAIN move \subseteq Products /\ \A l \in DOMAIN move : move[l] = target(Key[l])
  BY DEF Fa!Present
<1> HIDE DEF q, move, target
<1>6. Decided(q)
  BY <1>3, <1>4, <1>5 DEF Decided
<1> QED BY <1>2, <1>6, ReadDecides

(* Every step of the part keeps what open requests rest on.                   *)
LEMMA FilingStep ==
    ASSUME Fa!KeyAssumption, FilingInv, Fa!CatalogNext
    PROVE  FilingInv'
<1>1. ASSUME NEW x, Fa!Refer(x) PROVE FilingInv'
  BY <1>1 DEF FilingInv, Fa!Refer
<1>2. ASSUME NEW e \in Editors, Fa!Save(e) PROVE FilingInv'
  BY <1>2 DEF FilingInv, Fa!Save, Fa!Quiet, Decided, Fa!Automatic
<1>3. ASSUME NEW e \in Editors, NEW l \in Products, Fa!CreateLaptop(e, l) PROVE FilingInv'
  BY <1>3, CreateDecides, ReadDecides DEF Fa!CreateLaptop
<1>4. ASSUME NEW e \in Editors, NEW l \in Products, Fa!RemoveLaptop(e, l) PROVE FilingInv'
  BY <1>4, HumansDecide, ReadDecides DEF Fa!RemoveLaptop
<1>5. ASSUME NEW e \in Editors, NEW l \in Products, Fa!DeleteLaptop(e, l) PROVE FilingInv'
  BY <1>5, HumansDecide, ReadDecides DEF Fa!DeleteLaptop
<1>6. ASSUME NEW e \in Editors, NEW ls, NEW f, Fa!MoveLaptops(e, ls, f) PROVE FilingInv'
  BY <1>6, HumansDecide, ReadDecides DEF Fa!MoveLaptops
<1>7. ASSUME NEW e \in Editors, NEW f, Fa!DeleteFamily(e, f) PROVE FilingInv'
  BY <1>7, HumansDecide, ReadDecides DEF Fa!DeleteFamily
<1>8. ASSUME NEW e \in Editors, NEW f, NEW name, Fa!CreateFamily(e, f, name) \/ Fa!UpdateFamily(e, f, name)
      PROVE  FilingInv'
  BY <1>8, HumansDecide, ReadDecides DEF Fa!CreateFamily, Fa!UpdateFamily
<1> QED BY <1>1, <1>2, <1>3, <1>4, <1>5, <1>6, <1>7, <1>8, RegroupDecides DEF Fa!CatalogNext

(* The commit of an automatic request that nobody overtook.                   *)
LEMMA SaveNeverGuesses ==
    ASSUME FilingInv, NEW e \in Editors, Fa!Save(e), NEW q, q = editing[e],
           q.op \in Fa!Automatic, ~Fa!Overtook(q),
           NEW l \in Products, filed'[l].family # filed[l].family
    PROVE  filed[l].family = None /\ Fa!Evidence(Key[l])' = {filed'[l].family}
<1>1. /\ filed' = Fa!Moved(q) /\ Fa!Legal(q)
  BY DEF Fa!Save
<1>2. Decided(q) /\ q.drop = {}
  BY DEF FilingInv, Decided
<1>3. \A m \in Products :
          /\ m \in DOMAIN q.move =>
                filed'[m] = [present |-> filed[m].present \/ q.op = "create", family |-> q.move[m]]
          /\ m \notin DOMAIN q.move => filed'[m] = filed[m]
  BY <1>1, <1>2 DEF Fa!Moved
<1>a. \A m \in Products : m \in DOMAIN q.move => filed'[m].family = q.move[m]
  <2> TAKE m \in Products
  <2> DEFINE p == filed[m].present \/ q.op = "create"
             r == [present |-> p, family |-> q.move[m]]
  <2>1. r.family = q.move[m]
    BY Zenon
  <2>2. m \in DOMAIN q.move => filed'[m] = r
    BY <1>3
  <2> HIDE DEF r
  <2> QED BY <2>1, <2>2
<1>b. l \in DOMAIN q.move => (filed'[l].present <=> filed[l].present \/ q.op = "create")
  <2> DEFINE p == filed[l].present \/ q.op = "create"
             r == [present |-> p, family |-> q.move[l]]
  <2>1. r.present <=> p
    BY Zenon
  <2>2. l \in DOMAIN q.move => filed'[l] = r
    BY <1>3
  <2> HIDE DEF r
  <2> QED BY <2>1, <2>2
<1>4. l \in DOMAIN q.move /\ filed[l].family = None
  BY <1>3 DEF Fa!Overtook
<1> DEFINE f == q.move[l]
<1>5. f # None /\ filed'[l].family = f
  BY <1>a, <1>4
<1>6. Fa!Evidence(Key[l]) \subseteq {f}
  BY <1>2, <1>4, <1>5 DEF Decided, Fa!Overtook
<1>7. filed'[l].present
  BY <1>1, <1>b, <1>4 DEF Fa!Legal
<1>8. \A m \in Products : Key[m] = Key[l] /\ filed'[m].present /\ filed'[m].family # None
          => filed'[m].family = f
  <2> SUFFICES ASSUME NEW m \in Products, Key[m] = Key[l], filed'[m].present, filed'[m].family # None
               PROVE  filed'[m].family = f
    OBVIOUS
  <2>1. CASE m \in DOMAIN q.move
    BY <1>2, <1>a, <1>4, <2>1 DEF Decided
  <2>2. CASE m \notin DOMAIN q.move
    <3>1. filed'[m] = filed[m]
      BY <1>3, <2>2
    <3>2. filed[m].family \in Fa!Evidence(Key[l])
      BY <3>1 DEF Fa!Evidence, Fa!Present
    <3> QED BY <1>6, <3>1, <3>2
  <2> QED BY <2>1, <2>2
<1>9. Fa!Evidence(Key[l])' = {filed'[m].family : m \in {m \in Products : filed'[m].present /\ Key[m] = Key[l]}} \ {None}
  BY DEF Fa!Evidence, Fa!Present
<1> HIDE DEF f
<1> QED BY <1>4, <1>5, <1>7, <1>8, <1>9

(* A step of the part guesses no family.                                      *)
LEMMA StepNeverGuesses ==
    ASSUME FilingInv, Fa!CatalogNext
    PROVE  Fa!NeverGuessesStep
<1> SUFFICES ASSUME NEW e \in Editors, editing'[e] = Fa!Quiet, editing[e] # Fa!Quiet,
                    editing[e].op \in Fa!Automatic, ~Fa!Overtook(editing[e]),
                    NEW l \in Products, filed'[l].family # filed[l].family
             PROVE  filed[l].family = None /\ Fa!Evidence(Key[l])' = {filed'[l].family}
  BY DEF Fa!NeverGuessesStep
<1>1. PICK d \in Editors : Fa!Save(d)
  BY DEF Fa!CatalogNext, Fa!Refer, Fa!Read, Fa!Regroup, Fa!CreateLaptop, Fa!RemoveLaptop, Fa!DeleteLaptop,
         Fa!MoveLaptops, Fa!DeleteFamily, Fa!CreateFamily, Fa!UpdateFamily
<1>2. d = e
  BY <1>1 DEF Fa!Save, FilingInv
<1> QED BY <1>1, <1>2, SaveNeverGuesses

-----------------------------------------------------------------------------
(* The jobs over the catalogue                                                *)

JobFields == {"kind", "at", "work", "saw", "broken", "known", "marks", "counted", "after"}

(* A recalculation has read every laptop that has a score, and the marks as   *)
(* they are now if a refresh queued it or one has completed since.            *)
Computing(j) ==
    j.kind = "score" /\ j.at = "compute" =>
        /\ \A l \in Laptops : score[l] # None => l \in Cj!Read(j)
        /\ j.after = marks /\ marks # 0 => j.marks = marks
        /\ refreshed.scores = "completed" => j.marks = marks

(* What an embedding run has counted was added once, and has a vector unless  *)
(* it was deleted for good.                                                   *)
Counting(j) ==
    j.kind = "embed" =>
        \A l \in j.counted : laptop[l].rev # 0 /\ (laptop[l].live => vector[l] # None)

JobSound(j) ==
    /\ DOMAIN j = JobFields
    /\ j.work \in Seq(Laptops \X Nat) /\ (j.at = "write" => j.work # <<>>)
    /\ j.marks \in Nat /\ j.marks <= marks /\ j.after \in Nat /\ j.after <= marks
    /\ j.counted \subseteq Laptops
    /\ Computing(j) /\ Counting(j)

RowsSound ==
    /\ laptop \in [Laptops -> [live : BOOLEAN, rev : Nat]] /\ DOMAIN vector = Laptops
    /\ score \in [Laptops -> Nat \cup {None}] /\ marks \in Nat
    /\ DOMAIN refreshed = {"rev", "scores"} /\ refreshed.rev = marks
    /\ \A l \in Laptops : laptop[l].live => laptop[l].rev # 0
    /\ \A l \in Laptops : score[l] # None => laptop[l].live

OneScoring == \A s, t \in Slots : job[s].kind = "score" /\ job[t].kind = "score" => s = t

JobsInv ==
    /\ RowsSound /\ DOMAIN job = Slots
    /\ \A s \in Slots : JobSound(job[s])
    /\ OneScoring /\ Cj!ScoresFollowMarks

(* SetToSeq lists a finite set.                                               *)
LEMMA Listing ==
    ASSUME NEW S, IsFiniteSet(S)
    PROVE  /\ Cj!SetToSeq(S) \in Seq(S)
           /\ {Cj!SetToSeq(S)[i] : i \in DOMAIN Cj!SetToSeq(S)} = S
<1> DEFINE n == Cardinality(S)
<1>1. n \in Nat /\ ExistsBijection(1..n, S)
  BY FS_CardinalityType
<1>2. PICK g : g \in Bijection(1..n, S)
  BY <1>1 DEF ExistsBijection
<1>3. g \in [1..n -> S] /\ Cj!IsInjective(g)
  BY <1>2 DEF Bijection, Injection, IsInjective, Cj!IsInjective
<1> DEFINE f == Cj!SetToSeq(S)
<1>4. f \in [1..n -> S] /\ Cj!IsInjective(f)
  <2>1. f = CHOOSE h \in [1..n -> S] : Cj!IsInjective(h)
    BY JobsCount DEF Cj!SetToSeq
  <2> HIDE DEF n, f
  <2> QED BY <1>3, <2>1
<1>5. f \in Injection(1..n, S)
  BY <1>4 DEF Injection, IsInjective, Cj!IsInjective
<1>6. IsFiniteSet(1..n) /\ Cardinality(1..n) = n
  BY <1>1, FS_Interval
<1> HIDE DEF f
<1>7. f \in Surjection(1..n, S)
  BY <1>5, <1>6, FS_Injection
<1>8. f \in Seq(S)
  BY <1>1, <1>4, IsASeq
<1>9. {f[i] : i \in DOMAIN f} = S
  BY <1>4, <1>7 DEF Surjection
<1> QED BY <1>8, <1>9 DEF f

Firsts(w) == {w[i][1] : i \in DOMAIN w}

(* The list a run makes of some laptops: those, with their revisions.         *)
LEMMA WorkList ==
    ASSUME Cj!CatalogAssumption, RowsSound, NEW U \in SUBSET Laptops, NEW w,
           w = Cj!SetToSeq({<<l, laptop[l].rev>> : l \in U})
    PROVE  w \in Seq(Laptops \X Nat) /\ Firsts(w) = U
<1> DEFINE item == [l \in U |-> <<l, laptop[l].rev>>]
           S == {item[l] : l \in U}
<1>1. S = {<<l, laptop[l].rev>> : l \in U}
  OBVIOUS
<1>2. IsFiniteSet(U)
  BY FS_Subset, SameFinite DEF Cj!CatalogAssumption
<1>3. IsFiniteSet(S)
  BY <1>2, FiniteImage
<1>4. S \subseteq Laptops \X Nat
  BY DEF RowsSound
<1>5. w \in Seq(S) /\ {w[i] : i \in DOMAIN w} = S
  <2>1. w = Cj!SetToSeq(S)
    BY <1>1
  <2> HIDE DEF S
  <2>2. /\ Cj!SetToSeq(S) \in Seq(S)
        /\ {Cj!SetToSeq(S)[i] : i \in DOMAIN Cj!SetToSeq(S)} = S
    BY <1>3, Listing
  <2> QED BY <2>1, <2>2, Zenon
<1>6. w \in Seq(Laptops \X Nat)
  BY <1>4, <1>5, SeqMonotonic
<1>7. {w[i][1] : i \in DOMAIN w} = U
  <2>1. \A i \in DOMAIN w : \E l \in U : w[i] = <<l, laptop[l].rev>>
    BY <1>1, <1>5
  <2>2. \A l \in U : \E i \in DOMAIN w : w[i] = <<l, laptop[l].rev>>
    BY <1>1, <1>5
  <2> HIDE DEF S, item
  <2> QED BY <2>1, <2>2
<1> QED BY <1>6, <1>7 DEF Firsts

(* A run takes a step that changes no row: the others are as sound as before. *)
LEMMA RunTurns ==
    ASSUME JobsInv, NEW s \in Slots, NEW j, Cj!Become(s, j), JobSound(j),
           UNCHANGED <<laptop, vector, marks, score>>,
           DOMAIN refreshed' = {"rev", "scores"}, refreshed'.rev = marks,
           refreshed'.scores = "completed" => refreshed.scores = "completed",
           j.kind = "score" => job[s].kind = "score" \/ Cj!Running("score") = {}
    PROVE  JobsInv'
<1>1. RowsSound' /\ DOMAIN job' = Slots
  BY DEF JobsInv, RowsSound, Cj!Become
<1>2. \A t \in Slots : job'[t] = IF t = s THEN j ELSE job[t]
  BY DEF JobsInv, Cj!Become
<1>3. ASSUME NEW k, JobSound(k) PROVE JobSound(k)'
  BY <1>3 DEF JobSound, Computing, Counting, Cj!Read
<1>4. \A t \in Slots : JobSound(job'[t])
  BY <1>2 DEF JobsInv
<1>5. ASSUME NEW t \in Slots PROVE JobSound(job[t])'
  <2>1. PICK k : k = job'[t]
    OBVIOUS
  <2>2. JobSound(k)
    BY <1>4, <2>1
  <2>3. JobSound(k)'
    BY <1>3, <2>2
  <2> QED BY <2>1, <2>3
<1>6. OneScoring'
  BY <1>2 DEF JobsInv, OneScoring, Cj!Running
<1>7. Cj!ScoresFollowMarks'
  BY DEF JobsInv, Cj!ScoresFollowMarks, RowsSound
<1> QED BY <1>1, <1>5, <1>6, <1>7 DEF JobsInv

(* A free slot, and a run that has just been started, claim nothing.          *)
LEMMA IdleSound ==
    ASSUME RowsSound
    PROVE  JobSound(Cj!Idle)
<1>1. <<>> \in Seq(Laptops \X Nat)
  OBVIOUS
<1> QED BY <1>1 DEF JobSound, JobFields, Computing, Counting, Cj!Idle, RowsSound

LEMMA FreshSound ==
    ASSUME RowsSound, NEW kind, NEW n \in Nat, n <= marks
    PROVE  /\ JobSound([Cj!Idle EXCEPT !.kind = kind, !.at = "read"])
           /\ JobSound([Cj!Idle EXCEPT !.kind = kind, !.at = "read", !.after = n])
<1>1. <<>> \in Seq(Laptops \X Nat)
  OBVIOUS
<1> QED BY <1>1 DEF JobSound, JobFields, Computing, Counting, Cj!Idle, RowsSound

(* A step of somebody else, under the runs.                                   *)
LEMMA RowsTurn ==
    ASSUME JobsInv, UNCHANGED job, RowsSound', Cj!ScoresFollowMarks',
           ASSUME NEW k, JobSound(k) PROVE JobSound(k)'
    PROVE  JobsInv'
<1>1. ASSUME NEW t \in Slots PROVE JobSound(job[t])'
  <2>1. PICK k : k = job[t]
    OBVIOUS
  <2>2. JobSound(k)
    BY <2>1 DEF JobsInv
  <2>3. JobSound(k)'
    BY <2>2
  <2> QED BY <2>1, <2>3
<1> QED BY <1>1 DEF JobsInv, OneScoring

(* Edits, deletions and categories made by hand.                              *)
LEMMA HandsStep ==
    ASSUME JobsInv, NEW l \in Laptops, Cj!Save(l) \/ Cj!Delete(l) \/ \E t : Cj!AddCategory(t)
    PROVE  JobsInv'
<1>1. CASE Cj!Save(l)
  <2> DEFINE new == [live |-> TRUE, rev |-> laptop[l].rev + 1]
  <2>1. /\ laptop' = [laptop EXCEPT ![l] = new]
        /\ UNCHANGED <<vector, marks, score, job, refreshed>>
        /\ laptop[l].live \/ laptop[l].rev = 0
    BY <1>1 DEF Cj!Save
  <2>2. new \in [live : BOOLEAN, rev : Nat] /\ new.live /\ new.rev # 0
    BY DEF JobsInv, RowsSound
  <2> HIDE DEF new
  <2>3. RowsSound'
    BY <2>1, <2>2 DEF JobsInv, RowsSound
  <2>4. ASSUME NEW k, JobSound(k) PROVE JobSound(k)'
    BY <2>1, <2>2, <2>4 DEF JobSound, Computing, Counting, Cj!Read, JobsInv, RowsSound
  <2> QED BY <2>1, <2>3, <2>4, RowsTurn DEF JobsInv, Cj!ScoresFollowMarks
<1>2. CASE Cj!Delete(l)
  <2>1. /\ laptop' = [laptop EXCEPT ![l].live = FALSE] /\ laptop[l].live
        /\ vector' = [vector EXCEPT ![l] = None] /\ score' = [score EXCEPT ![l] = None]
        /\ UNCHANGED <<marks, job, refreshed>>
    BY <1>2 DEF Cj!Delete
  <2>2. RowsSound'
    BY <2>1 DEF JobsInv, RowsSound
  <2>3. ASSUME NEW k, JobSound(k) PROVE JobSound(k)'
    BY <2>1, <2>3 DEF JobSound, Computing, Counting, Cj!Read, JobsInv, RowsSound
  <2>4. Cj!ScoresFollowMarks'
    BY <2>1 DEF Cj!ScoresFollowMarks, JobsInv, RowsSound
  <2> QED BY <2>1, <2>2, <2>3, <2>4, RowsTurn
<1>3. ASSUME NEW t, Cj!AddCategory(t) PROVE JobsInv'
  <2>1. UNCHANGED <<laptop, vector, marks, score, job, refreshed>>
    BY <1>3 DEF Cj!AddCategory
  <2>2. RowsSound' /\ Cj!ScoresFollowMarks'
    BY <2>1 DEF JobsInv, RowsSound, Cj!ScoresFollowMarks
  <2>3. ASSUME NEW k, JobSound(k) PROVE JobSound(k)'
    BY <2>1, <2>3 DEF JobSound, Computing, Counting, Cj!Read
  <2> QED BY <2>1, <2>2, <2>3, RowsTurn
<1> QED BY <1>1, <1>2, <1>3

(* A job is started.                                                          *)
LEMMA StartStep ==
    ASSUME JobsInv, NEW s \in Slots,
           \/ Cj!StartEmbedding(s) \/ Cj!StartTagging(s) \/ Cj!StartScoring(s) \/ Cj!StartRefresh(s)
    PROVE  JobsInv'
<1>1. PICK kind : Cj!StartJob(s, kind)
  BY DEF Cj!StartEmbedding, Cj!StartTagging, Cj!StartScoring, Cj!StartRefresh
<1> DEFINE j == [Cj!Idle EXCEPT !.kind = kind, !.at = "read"]
<1>2. JobSound(j)
  <2>1. RowsSound /\ 0 \in Nat /\ 0 <= marks
    BY DEF JobsInv, RowsSound
  <2> QED BY <2>1, FreshSound
<1>3. Cj!Become(s, j) /\ UNCHANGED <<laptop, vector, marks, score, refreshed>>
  BY <1>1 DEF Cj!StartJob
<1>4. j.kind = "score" => Cj!Running("score") = {}
  BY <1>1 DEF Cj!StartJob, Cj!MayStart, Cj!Idle
<1> HIDE DEF j
<1> QED BY <1>2, <1>3, <1>4, RunTurns DEF JobsInv, RowsSound

(* What a run goes on to after an item.                                       *)
LEMMA AfterSound ==
    ASSUME Cj!CatalogAssumption, RowsSound, NEW j, JobSound(j), NEW k \in Cj!After(j)
    PROVE  JobSound(k) /\ (k.kind = "score" => j.kind = "score")
<1>1. JobSound(Cj!Idle) /\ Cj!Idle.kind # "score"
  BY IdleSound DEF Cj!Idle, Cj!CatalogAssumption
<1> DEFINE next == [j EXCEPT !.at = "items", !.work = Tail(j.work)]
<1>2. ASSUME Len(j.work) > 1
      PROVE  JobSound(next) /\ next.kind = j.kind
  <2>1. Tail(j.work) \in Seq(Laptops \X Nat)
    BY <1>2, HeadTailProperties DEF JobSound
  <2>2. /\ DOMAIN next = JobFields /\ next.work = Tail(j.work) /\ next.at = "items"
        /\ \A x \in JobFields \ {"at", "work"} : next[x] = j[x]
    BY DEF JobSound, JobFields
  <2> HIDE DEF next
  <2> QED BY <2>1, <2>2 DEF JobSound, JobFields, Computing, Counting
<1> QED BY <1>1, <1>2 DEF Cj!After

(* Embeddings.                                                                *)
LEMMA EmbeddingReads ==
    ASSUME Cj!CatalogAssumption, JobsInv, NEW s \in Slots, Cj!ReadForEmbedding(s)
    PROVE  JobsInv'
<1> DEFINE w == Cj!SetToSeq({<<l, laptop[l].rev>> : l \in Cj!Alive})
           j == [job[s] EXCEPT !.at = "items", !.work = w]
<1>1. w \in Seq(Laptops \X Nat)
  BY WorkList DEF JobsInv, Cj!Alive
<1>2. JobSound(job[s]) /\ job[s].kind = "embed"
  BY DEF JobsInv, Cj!ReadForEmbedding, Cj!Busy
<1>3. Cj!Become(s, j) /\ UNCHANGED <<laptop, vector, marks, score, refreshed>>
  BY DEF Cj!ReadForEmbedding
<1> HIDE DEF w
<1>4. JobSound(j) /\ j.kind = "embed"
  BY <1>1, <1>2 DEF JobSound, JobFields, Computing, Counting
<1> HIDE DEF j
<1> QED BY <1>3, <1>4, RunTurns DEF JobsInv, RowsSound

LEMMA SingleStarts ==
    ASSUME JobsInv, NEW s \in Slots, NEW l \in Laptops, Cj!GenerateSingle(s, l)
    PROVE  JobsInv'
<1> DEFINE w == <<<<l, laptop[l].rev>>>>
           j == [Cj!Idle EXCEPT !.kind = "single", !.at = "items", !.work = w]
<1>1. w \in Seq(Laptops \X Nat)
  BY DEF JobsInv, RowsSound
<1>2. Cj!Become(s, j) /\ UNCHANGED <<laptop, vector, marks, score, refreshed>>
  BY DEF Cj!GenerateSingle
<1> HIDE DEF w
<1>3. JobSound(j) /\ j.kind = "single"
  BY <1>1 DEF JobsInv, RowsSound, JobSound, JobFields, Computing, Counting, Cj!Idle
<1> HIDE DEF j
<1> QED BY <1>2, <1>3, RunTurns DEF JobsInv, RowsSound

LEMMA EmbeddingLooks ==
    ASSUME Cj!CatalogAssumption, JobsInv, NEW s \in Slots, Cj!LookUpVector(s)
    PROVE  JobsInv'
<1>1. JobSound(job[s]) /\ RowsSound /\ (job[s].kind = "embed" \/ job[s].kind = "single")
  BY DEF JobsInv, Cj!LookUpVector, Cj!Embeds, Cj!Busy
<1>2. UNCHANGED <<laptop, vector, marks, score, refreshed>>
  BY DEF Cj!LookUpVector
<1>3. ASSUME NEW j, Cj!Become(s, j), JobSound(j), j.kind # "score" PROVE JobsInv'
  BY <1>2, <1>3, RunTurns DEF JobsInv, RowsSound
<1>4. CASE Cj!Ended(s)
  <2>1. JobSound(Cj!Idle) /\ Cj!Idle.kind # "score"
    BY IdleSound, <1>1 DEF Cj!Idle, Cj!CatalogAssumption
  <2> QED BY <1>3, <1>4, <2>1 DEF Cj!Ended
<1>5. ASSUME NEW j \in Cj!After(job[s]), Cj!Become(s, j) PROVE JobsInv'
  BY <1>1, <1>3, <1>5, AfterSound
<1> DEFINE k == [job[s] EXCEPT !.at = "write", !.saw = vector[Head(job[s].work)[1]] # None]
<1>6. CASE job[s].work # <<>> /\ Cj!Become(s, k)
  <2>1. JobSound(k) /\ k.kind = job[s].kind
    BY <1>1, <1>6 DEF JobSound, JobFields, Computing, Counting
  <2> HIDE DEF k
  <2> QED BY <1>1, <1>3, <1>6, <2>1
<1> QED BY <1>4, <1>5, <1>6 DEF Cj!LookUpVector, Cj!Failed

(* A run that is no recalculation takes a step that changes no row.           *)
LEMMA QuietTurn ==
    ASSUME JobsInv, NEW s \in Slots, NEW j, Cj!Become(s, j), JobSound(j), j.kind # "score",
           UNCHANGED <<laptop, vector, marks, score, refreshed>>
    PROVE  JobsInv'
  BY RunTurns DEF JobsInv, RowsSound

(* A run ends.                                                                *)
LEMMA RunEnds ==
    ASSUME Cj!CatalogAssumption, JobsInv, NEW s \in Slots, Cj!Become(s, Cj!Idle),
           UNCHANGED <<laptop, vector, marks, score, refreshed>>
    PROVE  JobsInv'
<1>1. JobSound(Cj!Idle)
  BY IdleSound DEF JobsInv
<1>2. Cj!Idle.kind # "score"
  BY DEF Cj!Idle, Cj!CatalogAssumption
<1> HIDE DEF Cj!Idle
<1> QED BY <1>1, <1>2, QuietTurn

(* A run writes: the others have to be as sound after it.                     *)
LEMMA RunWrites ==
    ASSUME JobsInv, NEW s \in Slots, NEW j, Cj!Become(s, j), JobSound(j)', RowsSound',
           Cj!ScoresFollowMarks', j.kind = "score" => job[s].kind = "score",
           ASSUME NEW k, JobSound(k), \E t \in Slots \ {s} : k = job[t] PROVE JobSound(k)'
    PROVE  JobsInv'
<1>1. DOMAIN job' = Slots /\ \A t \in Slots : job'[t] = IF t = s THEN j ELSE job[t]
  BY DEF JobsInv, Cj!Become
<1>2. ASSUME NEW t \in Slots PROVE JobSound(job[t])'
  <2>1. PICK k : k = job'[t]
    OBVIOUS
  <2>2. JobSound(k)'
    <3>1. CASE t = s
      <4>1. k = j
        BY <1>1, <2>1, <3>1
      <4> QED BY <4>1
    <3>2. CASE t # s
      <4>1. k = job[t]
        BY <1>1, <2>1, <3>2
      <4>2. JobSound(k)
        BY <4>1 DEF JobsInv
      <4> QED BY <3>2, <4>1, <4>2
    <3> QED BY <3>1, <3>2
  <2> QED BY <2>1, <2>2
<1>3. OneScoring'
  BY <1>1 DEF JobsInv, OneScoring
<1> QED BY <1>1, <1>2, <1>3 DEF JobsInv

(* The row of one laptop.                                                     *)
LEMMA EmbeddingWrites ==
    ASSUME Cj!CatalogAssumption, JobsInv, NEW s \in Slots, Cj!WriteVector(s)
    PROVE  JobsInv'
<1> DEFINE i == job[s]
           l == Head(i.work)[1]
           ok == laptop[l].live /\ i.saw = (vector[l] # None)
           k == IF ok THEN [i EXCEPT !.counted = @ \cup {l}] ELSE [i EXCEPT !.broken = TRUE]
<1>1. JobSound(i) /\ RowsSound /\ i.kind \in {"embed", "single"} /\ i.at = "write"
  BY DEF JobsInv, Cj!WriteVector, Cj!Embeds, Cj!Busy
<1>2. Head(i.work) \in Laptops \X Nat /\ l \in Laptops /\ Head(i.work)[2] \in Nat
  <2>1. Head(i.work) \in Laptops \X Nat
    BY <1>1, HeadTailProperties DEF JobSound
  <2> QED BY <2>1
<1>3. /\ vector' = [vector EXCEPT ![l] = IF ok THEN Head(i.work)[2] ELSE @]
      /\ UNCHANGED <<laptop, marks, score, refreshed>>
  BY DEF Cj!WriteVector
<1>4. PICK j \in Cj!After(k) : Cj!Become(s, j)
  BY DEF Cj!WriteVector, Cj!Failed
<1>5. /\ DOMAIN k = JobFields /\ k.work = i.work /\ k.kind = i.kind
      /\ k.marks = i.marks /\ k.after = i.after
      /\ k.counted = (IF ok THEN i.counted \cup {l} ELSE i.counted)
  BY <1>1 DEF JobSound, JobFields
<1>6. /\ DOMAIN vector' = Laptops
      /\ \A m \in Laptops : vector[m] # None => vector'[m] # None
      /\ ok => vector'[l] # None /\ laptop[l].rev # 0
  BY <1>1, <1>2, <1>3 DEF RowsSound, Cj!CatalogAssumption
<1>7. RowsSound' /\ Cj!ScoresFollowMarks'
  BY <1>1, <1>3, <1>6 DEF RowsSound, JobsInv, Cj!ScoresFollowMarks
<1>8. ASSUME NEW r, JobSound(r) PROVE JobSound(r)'
  BY <1>3, <1>6, <1>8 DEF JobSound, Computing, Counting, Cj!Read
<1> DEFINE next == [k EXCEPT !.at = "items", !.work = Tail(k.work)]
<1>9. ASSUME NEW r, r = next, Len(i.work) > 1 PROVE JobSound(r)' /\ r.kind = i.kind
  <2>1. Tail(k.work) \in Seq(Laptops \X Nat)
    BY <1>1, <1>5, <1>9, HeadTailProperties DEF JobSound
  <2> HIDE DEF k
  <2>2. /\ DOMAIN next = JobFields /\ next.work = Tail(k.work) /\ next.at = "items"
        /\ next.kind = k.kind /\ next.marks = k.marks /\ next.after = k.after
        /\ next.counted = k.counted
    BY <1>5 DEF JobFields
  <2> HIDE DEF next, i
  <2>3. r = next
    BY <1>9
  <2>4. k.counted \subseteq Laptops /\ (r.kind = "embed" =>
            \A m \in k.counted : laptop'[m].rev # 0 /\ (laptop'[m].live => vector'[m] # None))
    <3>1. /\ i.counted \subseteq Laptops
          /\ i.kind = "embed" =>
                \A m \in i.counted : laptop[m].rev # 0 /\ (laptop[m].live => vector[m] # None)
      BY <1>1 DEF JobSound, Counting
    <3>2. laptop' = laptop /\ r.kind = i.kind
      BY <1>3, <1>5, <2>2, <2>3
    <3> QED BY <1>2, <1>5, <1>6, <3>1, <3>2
  <2>5. /\ DOMAIN r = JobFields /\ r.work \in Seq(Laptops \X Nat) /\ r.at # "write"
        /\ r.marks \in Nat /\ r.marks <= marks' /\ r.after \in Nat /\ r.after <= marks'
        /\ r.counted = k.counted /\ r.kind # "score"
    BY <1>1, <1>3, <1>5, <2>1, <2>2, <2>3 DEF JobSound
  <2>6. JobSound(r)'
    BY <2>4, <2>5 DEF JobSound, Computing, Counting
  <2> QED BY <1>5, <2>2, <2>3, <2>6
<1>10. JobSound(j)' /\ j.kind # "score"
  <2>1. CASE j = Cj!Idle
    <3>1. JobSound(Cj!Idle) /\ Cj!Idle.kind # "score"
      BY <1>1, IdleSound DEF Cj!Idle, Cj!CatalogAssumption
    <3> HIDE DEF Cj!Idle
    <3> QED BY <1>8, <2>1, <3>1
  <2>2. CASE j # Cj!Idle
    <3>1. j = next /\ Len(i.work) > 1
      <4> HIDE DEF k
      <4> QED BY <1>4, <1>5, <2>2 DEF Cj!After
    <3> HIDE DEF next, i
    <3> QED BY <1>1, <1>9, <3>1
  <2> QED BY <2>1, <2>2
<1> HIDE DEF i, k, next
<1> QED BY <1>4, <1>7, <1>8, <1>10, RunWrites

(* Tags.                                                                      *)
LEMMA TaggingStep ==
    ASSUME Cj!CatalogAssumption, JobsInv, NEW s \in Slots,
           \/ Cj!ReadUntagged(s) \/ Cj!DescribeLaptop(s) \/ Cj!TagCallFails(s)
           \/ \E chosen : Cj!SyncTags(s, chosen)
    PROVE  JobsInv'
<1> DEFINE i == job[s]
<1>1. /\ RowsSound /\ JobSound(i) /\ i.kind = "tag"
      /\ UNCHANGED <<laptop, vector, marks, score, refreshed>>
  BY DEF JobsInv, Cj!ReadUntagged, Cj!DescribeLaptop, Cj!TagCallFails, Cj!SyncTags, Cj!Busy
<1>2. ASSUME NEW k, JobSound(k), k.kind = "tag", NEW j \in Cj!After(k), Cj!Become(s, j) PROVE JobsInv'
  BY <1>1, <1>2, AfterSound, QuietTurn
<1>3. ASSUME Cj!Become(s, Cj!Idle) PROVE JobsInv'
  BY <1>1, <1>3, RunEnds
<1>4. CASE Cj!ReadUntagged(s)
  <2>1. PICK U \in SUBSET {l \in Cj!Alive : tagged[l] = {}} :
            Cj!Become(s, [i EXCEPT !.at = "items", !.known = categories,
                          !.work = Cj!SetToSeq({<<l, laptop[l].rev>> : l \in U})])
    BY <1>4 DEF Cj!ReadUntagged
  <2> DEFINE w == Cj!SetToSeq({<<l, laptop[l].rev>> : l \in U})
             j == [i EXCEPT !.at = "items", !.known = categories, !.work = w]
  <2>2. U \in SUBSET Laptops
    BY <2>1 DEF Cj!Alive
  <2>3. w \in Seq(Laptops \X Nat)
    BY <1>1, <2>2, WorkList
  <2>4. Cj!Become(s, j)
    BY <2>1
  <2> HIDE DEF w, i
  <2>5. JobSound(j) /\ j.kind = "tag"
    BY <1>1, <2>3 DEF JobSound, JobFields, Computing, Counting
  <2> HIDE DEF j
  <2> QED BY <1>1, <2>4, <2>5, QuietTurn
<1>5. CASE Cj!DescribeLaptop(s)
  <2> DEFINE j == [i EXCEPT !.at = "ask"]
  <2>1. Cj!Become(s, Cj!Idle) \/ Cj!Become(s, j)
    BY <1>5 DEF Cj!DescribeLaptop, Cj!Ended
  <2> HIDE DEF i
  <2>2. JobSound(j) /\ j.kind = "tag"
    BY <1>1 DEF JobSound, JobFields, Computing, Counting
  <2> HIDE DEF j
  <2> QED BY <1>1, <1>3, <2>1, <2>2, QuietTurn
<1>6. CASE Cj!TagCallFails(s)
  <2>1. PICK j \in Cj!After(i) : Cj!Become(s, Cj!Idle) \/ Cj!Become(s, j)
    BY <1>6 DEF Cj!TagCallFails
  <2> HIDE DEF i
  <2> QED BY <1>1, <1>2, <1>3, <2>1
<1>7. ASSUME NEW chosen, Cj!SyncTags(s, chosen) PROVE JobsInv'
  <2>1. Cj!Become(s, Cj!Idle) \/ \E created : \E j \in Cj!After([i EXCEPT !.known = @ \cup created]) :
            Cj!Become(s, j)
    BY <1>7 DEF Cj!SyncTags
  <2> SUFFICES ASSUME NEW created, NEW j \in Cj!After([i EXCEPT !.known = @ \cup created]),
                      Cj!Become(s, j)
               PROVE  JobsInv'
    BY <1>3, <2>1
  <2> DEFINE k == [i EXCEPT !.known = @ \cup created]
  <2>2. j \in Cj!After(k)
    OBVIOUS
  <2> HIDE DEF i
  <2>3. JobSound(k) /\ k.kind = "tag"
    BY <1>1 DEF JobSound, JobFields, Computing, Counting
  <2> HIDE DEF k
  <2> QED BY <1>2, <2>2, <2>3
<1> HIDE DEF i
<1> QED BY <1>4, <1>5, <1>6, <1>7

(* Scores: what the recalculation reads and how it stops.                     *)
LEMMA ScoringReads ==
    ASSUME Cj!CatalogAssumption, JobsInv, NEW s \in Slots,
           Cj!ReadForScoring(s) \/ Cj!StopScoring(s)
    PROVE  JobsInv'
<1>1. CASE Cj!StopScoring(s)
  BY <1>1, RunEnds DEF Cj!StopScoring
<1>2. CASE Cj!ReadForScoring(s)
  <2> DEFINE i == job[s]
             w == Cj!SetToSeq({<<l, laptop[l].rev>> : l \in Cj!Alive})
             j == [i EXCEPT !.at = "compute", !.marks = marks, !.work = w]
  <2>1. /\ RowsSound /\ JobSound(i) /\ i.kind = "score" /\ Cj!Become(s, j)
        /\ UNCHANGED <<laptop, vector, marks, score, refreshed>>
    BY <1>2 DEF JobsInv, Cj!ReadForScoring, Cj!Busy
  <2>2. w \in Seq(Laptops \X Nat) /\ Firsts(w) = Cj!Alive
    <3>1. Cj!Alive \in SUBSET Laptops
      BY DEF Cj!Alive
    <3>2. PICK U \in SUBSET Laptops : U = Cj!Alive
      BY <3>1
    <3> QED BY <2>1, <3>2, WorkList
  <2> HIDE DEF w, i
  <2>3. /\ DOMAIN j = JobFields /\ j.at = "compute" /\ j.marks = marks /\ j.work = w
        /\ j.kind = "score" /\ j.after = i.after /\ j.counted = i.counted
    BY <2>1 DEF JobSound, JobFields
  <2> HIDE DEF j
  <2>4. Cj!Read(j) = Cj!Alive
    BY <2>2, <2>3 DEF Cj!Read, Firsts
  <2>5. \A l \in Laptops : score[l] # None => l \in Cj!Alive
    BY <2>1 DEF RowsSound, Cj!Alive
  <2>6. JobSound(j)
    BY <2>1, <2>2, <2>3, <2>4, <2>5 DEF JobSound, Computing, Counting, RowsSound
  <2> QED BY <2>1, <2>3, <2>6, RunTurns DEF RowsSound, JobsInv, i
<1> QED BY <1>1, <1>2

(* All scores in one transaction, or none.                                    *)
LEMMA ScoringWrites ==
    ASSUME Cj!CatalogAssumption, JobsInv, NEW s \in Slots, Cj!WriteScores(s)
    PROVE  JobsInv'
<1> DEFINE i == job[s]
           whole == Cj!Read(i) \subseteq Cj!Alive
<1>1. /\ RowsSound /\ JobSound(i) /\ i.kind = "score" /\ i.at = "compute"
      /\ Cj!Become(s, Cj!Idle) /\ UNCHANGED <<laptop, vector, marks>>
      /\ score' = [l \in Laptops |-> IF l \in Cj!Read(i) /\ whole THEN i.marks ELSE score[l]]
      /\ refreshed' = [refreshed EXCEPT !.scores =
             IF i.after # refreshed.rev \/ refreshed.rev = 0 THEN @
             ELSE IF whole THEN "completed" ELSE "failed"]
  BY DEF JobsInv, Cj!WriteScores, Cj!Busy, Cj!Written
<1>2. /\ i.marks \in Nat
      /\ \A l \in Laptops : score[l] # None => l \in Cj!Read(i)
      /\ i.after = marks /\ marks # 0 => i.marks = marks
      /\ refreshed.scores = "completed" => i.marks = marks
  BY <1>1 DEF JobSound, Computing
<1>3. DOMAIN refreshed' = {"rev", "scores"} /\ refreshed'.rev = marks
      /\ refreshed'.scores = IF i.after # marks \/ marks = 0 THEN refreshed.scores
                             ELSE IF whole THEN "completed" ELSE "failed"
  BY <1>1 DEF RowsSound
<1> HIDE DEF i
<1>4. \A l \in Cj!Read(i) : whole => laptop[l].live
  BY DEF Cj!Alive
<1> HIDE DEF whole
<1>5. RowsSound'
  BY <1>1, <1>2, <1>3, <1>4 DEF RowsSound
<1>6. Cj!ScoresFollowMarks'
  <2> SUFFICES ASSUME refreshed'.scores = "completed", NEW l \in Laptops, score'[l] # None
               PROVE  score'[l] >= marks
    BY <1>3 DEF Cj!ScoresFollowMarks
  <2>1. CASE whole
    BY <1>1, <1>2, <1>3, <2>1 DEF RowsSound
  <2>2. CASE ~whole
    BY <1>1, <1>3, <2>2 DEF RowsSound, JobsInv, Cj!ScoresFollowMarks
  <2> QED BY <2>1, <2>2
<1>7. ASSUME NEW k, JobSound(k), \E t \in Slots \ {s} : k = job[t] PROVE JobSound(k)'
  <2>1. k.kind # "score"
    BY <1>1, <1>7 DEF JobsInv, OneScoring, i
  <2> QED BY <1>1, <1>7, <2>1 DEF JobSound, Computing, Counting
<1>8. JobSound(Cj!Idle)'
  <2>1. JobSound(Cj!Idle)
    BY <1>1, IdleSound
  <2>2. Cj!Idle.kind # "score"
    BY DEF Cj!Idle, Cj!CatalogAssumption
  <2> HIDE DEF Cj!Idle
  <2>3. Cj!Idle = Cj!Idle'
    BY DEF Cj!Idle
  <2> QED BY <1>1, <2>1, <2>2, <2>3 DEF JobSound, Computing, Counting
<1>9. Cj!Idle.kind # "score"
  BY DEF Cj!Idle, Cj!CatalogAssumption
<1> HIDE DEF Cj!Idle
<1> QED BY <1>1, <1>5, <1>6, <1>7, <1>8, <1>9, RunWrites

(* The benchmark table, and the recalculation it asks for.                    *)
LEMMA RefreshStep ==
    ASSUME Cj!CatalogAssumption, JobsInv, NEW s \in Slots,
           Cj!FetchMarks(s) \/ Cj!StopRefresh(s) \/ Cj!CommitMarks(s) \/ Cj!QueueScores(s)
    PROVE  JobsInv'
<1> DEFINE i == job[s]
<1>1. RowsSound /\ JobSound(i) /\ i.kind = "refresh" /\ UNCHANGED <<laptop, vector, score>>
  BY DEF JobsInv, Cj!FetchMarks, Cj!StopRefresh, Cj!CommitMarks, Cj!QueueScores, Cj!Busy
<1>2. ASSUME NEW at, at \in {"upsert", "queue"}
      PROVE  JobSound([i EXCEPT !.at = at]) /\ [i EXCEPT !.at = at].kind = "refresh"
             /\ [i EXCEPT !.at = at].marks = i.marks /\ [i EXCEPT !.at = at].after = i.after
  <2> HIDE DEF i
  <2> QED BY <1>1, <1>2 DEF JobSound, JobFields, Computing, Counting
<1>3. CASE Cj!FetchMarks(s)
  <2>1. \/ Cj!Become(s, Cj!Idle) \/ Cj!Become(s, [i EXCEPT !.at = "upsert"])
    BY <1>3 DEF Cj!FetchMarks
  <2>2. UNCHANGED <<laptop, vector, marks, score, refreshed>>
    BY <1>3 DEF Cj!FetchMarks
  <2> HIDE DEF i
  <2> QED BY <1>2, <2>1, <2>2, QuietTurn, RunEnds
<1>4. CASE Cj!StopRefresh(s)
  BY <1>4, RunEnds DEF Cj!StopRefresh
<1>5. CASE Cj!CommitMarks(s)
  <2> DEFINE j == [i EXCEPT !.at = "queue"]
             r == [rev |-> marks + 1, scores |-> "unqueued"]
  <2>1. Cj!Become(s, j) /\ marks' = marks + 1 /\ refreshed' = r
    BY <1>5 DEF Cj!CommitMarks
  <2>2. JobSound(j) /\ j.kind = "refresh"
    BY <1>2
  <2>3. DOMAIN r = {"rev", "scores"} /\ r.rev = marks + 1 /\ r.scores = "unqueued"
    OBVIOUS
  <2> HIDE DEF r, j, i
  <2>4. RowsSound' /\ Cj!ScoresFollowMarks'
    BY <1>1, <2>1, <2>3 DEF RowsSound, Cj!ScoresFollowMarks
  <2>5. ASSUME NEW k, JobSound(k) PROVE JobSound(k)'
    BY <1>1, <2>1, <2>3, <2>5 DEF RowsSound, JobSound, Computing, Counting, Cj!Read
  <2>6. PICK q : q = j
    OBVIOUS
  <2>7. JobSound(q)'
    BY <2>2, <2>5, <2>6
  <2> QED BY <2>1, <2>2, <2>4, <2>5, <2>6, <2>7, RunWrites
<1>6. CASE Cj!QueueScores(s)
  <2> DEFINE j == [Cj!Idle EXCEPT !.kind = "score", !.at = "read", !.after = refreshed.rev]
  <2>1. IF Cj!MayStart("score") THEN Cj!Become(s, j) ELSE Cj!Become(s, Cj!Idle)
    BY <1>6 DEF Cj!QueueScores
  <2>2. /\ UNCHANGED <<laptop, vector, marks, score>>
        /\ refreshed' = [refreshed EXCEPT !.scores = IF Cj!MayStart("score") THEN "queued" ELSE "refused"]
    BY <1>6 DEF Cj!QueueScores
  <2>3. DOMAIN refreshed' = {"rev", "scores"} /\ refreshed'.rev = marks /\ refreshed'.scores # "completed"
    BY <1>1, <2>2 DEF RowsSound
  <2>4. JobSound(Cj!Idle) /\ JobSound(j) /\ Cj!Idle.kind # "score"
    <3>1. refreshed.rev \in Nat /\ refreshed.rev <= marks
      BY <1>1 DEF RowsSound
    <3> QED BY <1>1, <3>1, IdleSound, FreshSound DEF Cj!Idle, Cj!CatalogAssumption
  <2> HIDE DEF i, j, Cj!Idle
  <2>5. CASE Cj!MayStart("score")
    <3>1. Cj!Running("score") = {}
      BY <2>5 DEF Cj!MayStart
    <3> QED BY <2>1, <2>2, <2>3, <2>4, <2>5, <3>1, RunTurns
  <2>6. CASE ~Cj!MayStart("score")
    BY <2>1, <2>2, <2>3, <2>4, <2>6, RunTurns
  <2> QED BY <2>5, <2>6
<1> QED BY <1>3, <1>4, <1>5, <1>6

(* Every step of the part keeps what the runs rest on.                        *)
LEMMA JobsStep ==
    ASSUME Cj!CatalogAssumption, JobsInv, Cj!CatalogNext
    PROVE  JobsInv'
<1>1. ASSUME NEW t, Cj!AddCategory(t) PROVE JobsInv'
  <2>1. UNCHANGED <<laptop, vector, marks, score, job, refreshed>>
    BY <1>1 DEF Cj!AddCategory
  <2>2. RowsSound' /\ Cj!ScoresFollowMarks'
    BY <2>1 DEF JobsInv, RowsSound, Cj!ScoresFollowMarks
  <2>3. ASSUME NEW k, JobSound(k) PROVE JobSound(k)'
    BY <2>1, <2>3 DEF JobSound, Computing, Counting, Cj!Read
  <2> QED BY <2>1, <2>2, <2>3, RowsTurn
<1> QED BY <1>1, HandsStep, StartStep, EmbeddingReads, SingleStarts, EmbeddingLooks, EmbeddingWrites,
           TaggingStep, ScoringReads, ScoringWrites, RefreshStep DEF Cj!CatalogNext

LEMMA JobsStart ==
    ASSUME Cj!CatalogAssumption, Cj!CatalogInit
    PROVE  JobsInv
<1>1. RowsSound
  <2>1. /\ DOMAIN refreshed = {"rev", "scores"} /\ refreshed.rev = marks /\ marks = 0
        /\ vector = [l \in Laptops |-> None] /\ score = [l \in Laptops |-> None]
    BY DEF Cj!CatalogInit
  <2>2. /\ laptop \in [Laptops -> [live : BOOLEAN, rev : Nat]]
        /\ \A l \in Laptops : laptop[l].live => laptop[l].rev # 0
    <3> DEFINE old == [live : {TRUE}, rev : {1}]
               coming == [live : {FALSE}, rev : {0}]
    <3>1. laptop \in [Laptops -> old \cup coming]
      BY DEF Cj!CatalogInit
    <3>2. ASSUME NEW r \in old \cup coming
          PROVE  r \in [live : BOOLEAN, rev : Nat] /\ (r.live => r.rev # 0)
      <4>1. CASE r \in old
        <5>1. r = [live |-> r.live, rev |-> r.rev] /\ r.live \in {TRUE} /\ r.rev \in {1}
          BY <4>1, Zenon
        <5>2. r.live \in BOOLEAN
          BY <5>1, Zenon
        <5>3. r.rev \in Nat /\ r.rev # 0
          BY <5>1
        <5> QED BY <5>1, <5>2, <5>3, Zenon
      <4>2. CASE r \in coming
        <5>1. r = [live |-> r.live, rev |-> r.rev] /\ r.live \in {FALSE} /\ r.rev \in {0}
          BY <4>2, Zenon
        <5>2. {FALSE} \subseteq BOOLEAN /\ {0} \subseteq Nat
          OBVIOUS
        <5> QED BY <5>1, <5>2
      <4> QED BY <4>1, <4>2
    <3> HIDE DEF old, coming
    <3> QED BY <3>1, <3>2
  <2> QED BY <2>1, <2>2 DEF RowsSound
<1>2. JobSound(Cj!Idle) /\ Cj!Idle.kind # "score"
  BY <1>1, IdleSound DEF Cj!Idle, Cj!CatalogAssumption
<1>3. DOMAIN job = Slots /\ \A s \in Slots : job[s] = Cj!Idle
  BY DEF Cj!CatalogInit
<1>4. refreshed.scores # "completed"
  BY DEF Cj!CatalogInit, Cj!CatalogAssumption
<1> HIDE DEF Cj!Idle
<1> QED BY <1>1, <1>2, <1>3, <1>4 DEF JobsInv, OneScoring, Cj!ScoresFollowMarks

(* The counts of a run are what it stored.                                    *)
LEMMA SoundCounts ==
    ASSUME JobsInv
    PROVE  Cj!CountedIsStored /\ Cj!ScoresFollowMarks
  BY DEF JobsInv, JobSound, Counting, Cj!CountedIsStored, Cj!Running

-----------------------------------------------------------------------------
(* Saved pages                                                                *)

Entries == [status : {"matched", "unmatched", "invalid"}, created : BOOLEAN, warning : BOOLEAN]
Matched == {e \in Entries : e.status = "matched"}
Unmatched == {e \in Entries : e.status = "unmatched"}
Invalid == {e \in Entries : e.status = "invalid"}
Inserted == {e \in Entries : e.created}
Updated == {e \in Entries : e.status = "matched" /\ ~e.created}

Rows == [brand : Brands, target : Targets, specs : BOOLEAN]

(* How many entries of a report are of a kind.                                *)
Number(report, kind) == Cardinality({i \in DOMAIN report : report[i] \in kind})

(* A parse of the target looks at the page of that URL.                       *)
Finds(t, c) == c = t \/ (Slug[t] # None /\ Slug[c] = Slug[t])

RowSound(c, row) == row \in Rows /\ row.brand = BrandOf[row.target] /\ Finds(row.target, c)

(* The pages that the commit of a batch will add.                             *)
Coming(b) == {c \in Canonicals : b.rows[c] # None /\ pages[c] = None}

BatchFields == {"left", "pin", "rows", "seen", "moved", "refused", "report"}

(* An open batch: what it has written, and what it will report.               *)
BatchSound(b) ==
    /\ DOMAIN b = BatchFields
    /\ DOMAIN b.rows = Canonicals
    /\ \A c \in Canonicals : b.rows[c] # None => RowSound(c, b.rows[c])
    /\ b.moved \subseteq Targets
    /\ \A t \in b.moved : \E c \in Canonicals : b.rows[c] # None /\ Finds(t, c)
    /\ b.refused \in Nat /\ b.report \in Seq(Entries)
    /\ Number(b.report, Inserted) = Cardinality(Coming(b))
    /\ Number(b.report, Matched) + Number(b.report, Unmatched) + Number(b.report, Invalid) = Len(b.report)
    /\ Number(b.report, Inserted) + Number(b.report, Updated) = Number(b.report, Matched)
    /\ Cardinality(b.moved) <= Number(b.report, Matched)

(* Two open batches write different rows: the second waits for the first.     *)
RowsApart ==
    \A r, o \in Requests : r # o /\ batch[r] # None /\ batch[o] # None =>
        \A c \in Canonicals : batch[r].rows[c] # None => batch[o].rows[c] = None

QueueSound ==
    /\ DOMAIN queued = Targets /\ DOMAIN pages = Canonicals
    /\ \A c \in Canonicals : pages[c] # None => RowSound(c, pages[c])
    /\ \A t \in Targets : queued[t] = "html_uploaded" =>
           \E c \in Canonicals : pages[c] # None /\ Finds(t, c)
    /\ parse # None => parse.target \in Targets /\ parse.result \in {"parsed", "failed"}

PagesInv ==
    /\ QueueSound /\ RowsApart /\ DOMAIN batch = Requests
    /\ \A r \in Requests : batch[r] # None => BatchSound(batch[r])

(* A report with one more entry.                                              *)
LEMMA CountAppend ==
    ASSUME NEW report \in Seq(Entries), NEW e \in Entries, NEW kind
    PROVE  /\ Number(report, kind) \in Nat
           /\ Number(Append(report, e), kind) = Number(report, kind) + (IF e \in kind THEN 1 ELSE 0)
<1> DEFINE n == Len(report)
           S == {i \in DOMAIN report : report[i] \in kind}
           T == {i \in DOMAIN Append(report, e) : Append(report, e)[i] \in kind}
<1>1. n \in Nat /\ DOMAIN report = 1..n
  BY LenProperties
<1>2. /\ DOMAIN Append(report, e) = 1..(n + 1)
      /\ \A i \in 1..n : Append(report, e)[i] = report[i]
      /\ Append(report, e)[n + 1] = e
  <2>1. Append(report, e) \in Seq(Entries) /\ Len(Append(report, e)) = n + 1
    BY AppendProperties
  <2> QED BY <2>1, AppendProperties, LenProperties
<1>3. IsFiniteSet(S) /\ Cardinality(S) \in Nat
  <2>1. IsFiniteSet(1..n) /\ S \in SUBSET (1..n)
    BY <1>1, FS_Interval
  <2> QED BY <2>1, FS_Subset, FS_CardinalityType
<1>4. n + 1 \notin S
  BY <1>1
<1>5. T = IF e \in kind THEN S \cup {n + 1} ELSE S
  BY <1>1, <1>2
<1> HIDE DEF S, T
<1>6. Cardinality(T) = Cardinality(S) + (IF e \in kind THEN 1 ELSE 0)
  <2>1. PICK x : x = n + 1
    OBVIOUS
  <2>2. Cardinality(S \cup {x}) = Cardinality(S) + 1
    BY <1>3, <1>4, <2>1, FS_AddElement
  <2> QED BY <1>3, <1>5, <2>1, <2>2
<1> QED BY <1>3, <1>6 DEF Number, S, T

(* Every entry is of one status, and counts as inserted, updated or neither.  *)
LEMMA OneMore ==
    ASSUME NEW report \in Seq(Entries), NEW e \in Entries
    PROVE  /\ Append(report, e) \in Seq(Entries) /\ Len(Append(report, e)) = Len(report) + 1
           /\ \A kind \in {Matched, Unmatched, Invalid, Inserted, Updated} : Number(report, kind) \in Nat
           /\ Number(Append(report, e), Matched)
                  = Number(report, Matched) + (IF e.status = "matched" THEN 1 ELSE 0)
           /\ Number(Append(report, e), Unmatched)
                  = Number(report, Unmatched) + (IF e.status = "unmatched" THEN 1 ELSE 0)
           /\ Number(Append(report, e), Invalid)
                  = Number(report, Invalid) + (IF e.status = "invalid" THEN 1 ELSE 0)
           /\ Number(Append(report, e), Inserted) = Number(report, Inserted) + (IF e.created THEN 1 ELSE 0)
           /\ Number(Append(report, e), Updated)
                  = Number(report, Updated) + (IF e.status = "matched" /\ ~e.created THEN 1 ELSE 0)
<1>1. Append(report, e) \in Seq(Entries) /\ Len(Append(report, e)) = Len(report) + 1
  BY AppendProperties
<1>2. \A kind \in {Matched, Unmatched, Invalid, Inserted, Updated} : Number(report, kind) \in Nat
  BY CountAppend
<1>3. \A kind : Number(Append(report, e), kind) = Number(report, kind) + (IF e \in kind THEN 1 ELSE 0)
  BY CountAppend
<1>4. /\ e \in Matched <=> e.status = "matched"
      /\ e \in Unmatched <=> e.status = "unmatched"
      /\ e \in Invalid <=> e.status = "invalid"
      /\ e \in Inserted <=> e.created
      /\ e \in Updated <=> e.status = "matched" /\ ~e.created
  BY DEF Matched, Unmatched, Invalid, Inserted, Updated
<1> HIDE DEF Matched, Unmatched, Invalid, Inserted, Updated, Entries
<1> QED BY <1>1, <1>2, <1>3, <1>4

(* What the summary says, in these terms.                                     *)
LEMMA SummaryCounts ==
    ASSUME NEW b, b.report \in Seq(Entries)
    PROVE  /\ Sp!Summary(b).received = Len(b.report) + b.refused
           /\ Sp!Summary(b).matched = Number(b.report, Matched)
           /\ Sp!Summary(b).unmatched = Number(b.report, Unmatched)
           /\ Sp!Summary(b).invalid = Number(b.report, Invalid) + b.refused
           /\ Sp!Summary(b).inserted = Number(b.report, Inserted)
           /\ Sp!Summary(b).updated = Number(b.report, Updated)
<1> DEFINE is == DOMAIN b.report
<1>1. /\ Sp!Summary(b).received = Len(b.report) + b.refused
      /\ Sp!Summary(b).matched = Sp!Cardinality({i \in is : b.report[i].status = "matched"})
      /\ Sp!Summary(b).unmatched = Sp!Cardinality({i \in is : b.report[i].status = "unmatched"})
      /\ Sp!Summary(b).invalid = Sp!Cardinality({i \in is : b.report[i].status = "invalid"}) + b.refused
      /\ Sp!Summary(b).inserted = Sp!Cardinality({i \in is : b.report[i].created})
      /\ Sp!Summary(b).updated = Sp!Cardinality({i \in is : b.report[i].status = "matched" /\ ~b.report[i].created})
  BY DEF Sp!Summary
<1>2. \A i \in is : b.report[i] \in Entries
  BY LenProperties
<1> HIDE DEF Entries
<1>3. /\ {i \in is : b.report[i].status = "matched"} = {i \in is : b.report[i] \in Matched}
      /\ {i \in is : b.report[i].status = "unmatched"} = {i \in is : b.report[i] \in Unmatched}
      /\ {i \in is : b.report[i].status = "invalid"} = {i \in is : b.report[i] \in Invalid}
      /\ {i \in is : b.report[i].created} = {i \in is : b.report[i] \in Inserted}
      /\ {i \in is : b.report[i].status = "matched" /\ ~b.report[i].created}
             = {i \in is : b.report[i] \in Updated}
  BY <1>2 DEF Matched, Unmatched, Invalid, Inserted, Updated
<1> HIDE DEF Matched, Unmatched, Invalid, Inserted, Updated
<1> QED BY <1>1, <1>3, PagesCount DEF Number

(* A request opens, continues or ends its batch; nothing is committed.        *)
LEMMA BatchTurns ==
    ASSUME PagesInv, NEW r \in Requests, NEW b, batch' = [batch EXCEPT ![r] = b],
           b # None => BatchSound(b), UNCHANGED <<queued, pages, parse>>,
           b # None => \A o \in Requests \ {r} : batch[o] # None =>
               \A c \in Canonicals : b.rows[c] # None => batch[o].rows[c] = None
    PROVE  PagesInv'
<1>1. DOMAIN batch' = Requests /\ \A o \in Requests : batch'[o] = IF o = r THEN b ELSE batch[o]
  BY DEF PagesInv
<1>2. QueueSound'
  BY DEF PagesInv, QueueSound
<1>3. RowsApart'
  <2> SUFFICES ASSUME NEW q \in Requests, NEW o \in Requests, q # o, batch'[q] # None, batch'[o] # None,
                      NEW c \in Canonicals, batch'[q].rows[c] # None
               PROVE  batch'[o].rows[c] = None
    BY DEF RowsApart
  <2>1. CASE q = r
    BY <1>1, <2>1
  <2>2. CASE o = r
    BY <1>1, <2>2
  <2>3. CASE q # r /\ o # r
    BY <1>1, <2>3 DEF PagesInv, RowsApart
  <2> QED BY <2>1, <2>2, <2>3
<1>4. ASSUME NEW k, BatchSound(k) PROVE BatchSound(k)'
  BY <1>4 DEF BatchSound, Coming
<1>5. ASSUME NEW o \in Requests, batch'[o] # None PROVE BatchSound(batch[o])'
  <2>1. PICK k : k = batch'[o]
    OBVIOUS
  <2>2. BatchSound(k)
    BY <1>1, <1>5, <2>1 DEF PagesInv
  <2>3. BatchSound(k)'
    BY <1>4, <2>2
  <2> QED BY <2>1, <2>3
<1> QED BY <1>1, <1>2, <1>3, <1>5 DEF PagesInv

(* The crawler, and the parse of a target.                                    *)
LEMMA QueueSteps ==
    ASSUME Sp!SavedPagesAssumption, PagesInv,
           (\E t \in Targets : Sp!CrawlTarget(t) \/ Sp!ReadPage(t)) \/ Sp!StampParsed
    PROVE  PagesInv'
<1>1. UNCHANGED <<pages, batch>>
  BY DEF Sp!CrawlTarget, Sp!ReadPage, Sp!StampParsed
<1>2. RowsApart' /\ DOMAIN batch' = Requests
  BY <1>1 DEF PagesInv, RowsApart
<1>3. ASSUME NEW o \in Requests, batch'[o] # None PROVE BatchSound(batch[o])'
  BY <1>1, <1>3 DEF PagesInv, BatchSound, Coming
<1>4. QueueSound'
  <2>1. ASSUME NEW t \in Targets, Sp!CrawlTarget(t) PROVE QueueSound'
    <3>1. queued' = [queued EXCEPT ![t] = "pending"] /\ UNCHANGED parse
      BY <2>1 DEF Sp!CrawlTarget
    <3> QED BY <1>1, <3>1 DEF PagesInv, QueueSound
  <2>2. ASSUME NEW t \in Targets, Sp!ReadPage(t) PROVE QueueSound'
    <3>1. /\ UNCHANGED queued
          /\ \E result \in {"parsed", "failed"} : parse' = [target |-> t, result |-> result]
      BY <2>2 DEF Sp!ReadPage
    <3> QED BY <1>1, <3>1 DEF PagesInv, QueueSound
  <2>3. CASE Sp!StampParsed
    <3>1. queued' = [queued EXCEPT ![parse.target] = parse.result] /\ parse # None /\ parse' = None
      BY <2>3 DEF Sp!StampParsed
    <3> QED BY <1>1, <3>1 DEF PagesInv, QueueSound
  <2> QED BY <2>1, <2>2, <2>3
<1> QED BY <1>2, <1>3, <1>4 DEF PagesInv

(* A batch is received, or ends without a commit.                             *)
LEMMA BatchOpens ==
    ASSUME Sp!SavedPagesAssumption, PagesInv, NEW r \in Requests,
           NEW n \in 1..MaxBatch, NEW documents \in [1..n -> Documents], NEW pin,
           Sp!Receive(r, documents, pin)
    PROVE  PagesInv'
<1> DEFINE left == Sp!SelectSeq(documents, Sp!Readable)
           refused == Sp!Cardinality({i \in DOMAIN documents : ~Sp!Readable(documents[i])})
           rows == [c \in Canonicals |-> None]
           seen == [t \in Targets |-> None]
           b == [left |-> left, pin |-> pin, rows |-> rows, seen |-> seen, moved |-> {},
                 refused |-> refused, report |-> <<>>]
<1>1. batch' = [batch EXCEPT ![r] = b] /\ UNCHANGED <<queued, pages, parse>>
  BY DEF Sp!Receive
<1>2. refused \in Nat
  <2> DEFINE bad == {i \in 1..n : ~Sp!Readable(documents[i])}
  <2>1. bad \subseteq 1..n /\ refused = Cardinality(bad)
    BY PagesCount
  <2>2. n \in Int
    BY DEF Sp!SavedPagesAssumption
  <2>3. IsFiniteSet(1..n)
    BY <2>2, FS_Interval
  <2> HIDE DEF bad, refused
  <2> QED BY <2>1, <2>3, FS_Subset, FS_CardinalityType
<1> HIDE DEF left, refused
<1>3. /\ DOMAIN b = BatchFields /\ b.rows = rows /\ b.moved = {} /\ b.refused = refused
      /\ b.report = <<>>
  BY DEF BatchFields
<1> HIDE DEF b
<1>4. /\ \A kind : Number(<<>>, kind) = 0
      /\ Coming(b) = {} /\ Cardinality({}) = 0
  BY <1>3, FS_EmptySet DEF Number, Coming
<1>5. <<>> \in Seq(Entries) /\ Len(<<>>) = 0
  BY EmptySeq
<1>6. BatchSound(b)
  BY <1>2, <1>3, <1>4, <1>5 DEF BatchSound
<1> QED BY <1>1, <1>3, <1>6, BatchTurns

LEMMA BatchDrops ==
    ASSUME PagesInv, NEW r \in Requests, Sp!AbortBatch(r)
    PROVE  PagesInv'
<1>1. batch' = [batch EXCEPT ![r] = None] /\ UNCHANGED <<queued, pages, parse>>
  BY DEF Sp!AbortBatch
<1> QED BY <1>1, BatchTurns

(* A document that no target is found for.                                    *)
LEMMA BatchRefuses ==
    ASSUME Sp!SavedPagesAssumption, PagesInv, NEW r \in Requests, Sp!Refuse(r)
    PROVE  PagesInv'
<1> DEFINE b == batch[r]
           status == IF Sp!CanonicalOf(Head(b.left)) = None THEN "invalid" ELSE "unmatched"
           e == [status |-> status, created |-> FALSE, warning |-> FALSE]
           k == [b EXCEPT !.left = Tail(b.left), !.report = Append(b.report, e)]
<1>1. b # None /\ batch' = [batch EXCEPT ![r] = k] /\ UNCHANGED <<queued, pages, parse>>
  BY DEF Sp!Refuse, Sp!Reported
<1>2. BatchSound(b)
  BY <1>1 DEF PagesInv
<1>3. status \in {"unmatched", "invalid"}
  OBVIOUS
<1> HIDE DEF status
<1>4. e \in Entries /\ e.status = status /\ e.created = FALSE
  BY <1>3 DEF Entries
<1> HIDE DEF b, e
<1>5. /\ DOMAIN k = BatchFields /\ k.rows = b.rows /\ k.moved = b.moved /\ k.refused = b.refused
      /\ k.report = Append(b.report, e)
  BY <1>2 DEF BatchSound, BatchFields
<1> HIDE DEF k
<1>6. Coming(k) = Coming(b)
  BY <1>5 DEF Coming
<1>7. BatchSound(k)
  <2>1. b.report \in Seq(Entries) /\ Len(b.report) \in Nat
    BY <1>2, LenProperties DEF BatchSound
  <2>2. /\ Append(b.report, e) \in Seq(Entries) /\ Len(k.report) = Len(b.report) + 1
        /\ \A kind \in {Matched, Unmatched, Invalid, Inserted, Updated} : Number(b.report, kind) \in Nat
        /\ Number(k.report, Matched) = Number(b.report, Matched)
        /\ Number(k.report, Unmatched) = Number(b.report, Unmatched) + (IF e.status = "unmatched" THEN 1 ELSE 0)
        /\ Number(k.report, Invalid) = Number(b.report, Invalid) + (IF e.status = "invalid" THEN 1 ELSE 0)
        /\ Number(k.report, Inserted) = Number(b.report, Inserted)
        /\ Number(k.report, Updated) = Number(b.report, Updated)
    BY <1>3, <1>4, <1>5, <2>1, OneMore
  <2>3. Number(k.report, Matched) + Number(k.report, Unmatched) + Number(k.report, Invalid) = Len(k.report)
    <3>1. Number(b.report, Matched) + Number(b.report, Unmatched) + Number(b.report, Invalid) = Len(b.report)
      BY <1>2 DEF BatchSound
    <3>2. Number(b.report, Matched) \in Nat /\ Number(b.report, Unmatched) \in Nat
          /\ Number(b.report, Invalid) \in Nat /\ Number(b.report, Inserted) \in Nat
          /\ Number(b.report, Updated) \in Nat
      BY <2>2
    <3>3. e.status = "unmatched" \/ e.status = "invalid"
      BY <1>3, <1>4
    <3>4. /\ Len(b.report) \in Nat /\ Len(k.report) = Len(b.report) + 1
          /\ Number(k.report, Matched) = Number(b.report, Matched)
          /\ Number(k.report, Unmatched) = Number(b.report, Unmatched) + (IF e.status = "unmatched" THEN 1 ELSE 0)
          /\ Number(k.report, Invalid) = Number(b.report, Invalid) + (IF e.status = "invalid" THEN 1 ELSE 0)
      BY <2>1, <2>2
    <3>5. CASE e.status = "unmatched"
      BY <3>1, <3>2, <3>4, <3>5
    <3>6. CASE e.status = "invalid"
      BY <3>1, <3>2, <3>4, <3>6
    <3> QED BY <3>3, <3>5, <3>6
  <2> QED BY <1>2, <1>5, <1>6, <2>2, <2>3 DEF BatchSound
<1>8. ASSUME NEW o \in Requests \ {r}, batch[o] # None, NEW c \in Canonicals, k.rows[c] # None
      PROVE  batch[o].rows[c] = None
  BY <1>1, <1>5, <1>8 DEF PagesInv, RowsApart, b
<1> QED BY <1>1, <1>7, <1>8, BatchTurns

(* A document and its target: a row is written, a target moved if it was not. *)
LEMMA BatchStores ==
    ASSUME Sp!SavedPagesAssumption, PagesInv, NEW r \in Requests, NEW t \in Targets, Sp!Store(r, t)
    PROVE  PagesInv'
<1> DEFINE b == batch[r]
           d == Head(b.left)
           c == Sp!CanonicalOf(d)
           read == IF b.seen[t] = None THEN queued[t] ELSE b.seen[t]
           created == ~Sp!Known(r, c)
           warning == Sp!Warned(d, BrandOf[t])
           e == [status |-> "matched", created |-> created, warning |-> warning]
           specs == d.html /\ d.specs
           row == [brand |-> BrandOf[t], target |-> t, specs |-> specs]
           moved == IF read = "html_uploaded" THEN b.moved ELSE b.moved \cup {t}
           w == [b EXCEPT !.rows[c] = row, !.seen[t] = "html_uploaded", !.moved = moved]
           k == [w EXCEPT !.left = Tail(w.left), !.report = Append(w.report, e)]
<1>1. /\ b # None /\ c \in Canonicals /\ t \in Sp!Resolve(c, b.pin) /\ c \notin Sp!HeldRows(r)
      /\ batch' = [batch EXCEPT ![r] = k] /\ UNCHANGED <<queued, pages, parse>>
  BY DEF Sp!Store, Sp!Reported
<1>2. BatchSound(b)
  BY <1>1 DEF PagesInv
<1>3. Finds(t, c) /\ BrandOf[t] \in Brands
  BY <1>1 DEF Sp!Resolve, Finds, Sp!SavedPagesAssumption
<1>4. created <=> pages[c] = None /\ b.rows[c] = None
  BY DEF Sp!Known
<1>5. created \in BOOLEAN /\ warning \in BOOLEAN /\ specs \in BOOLEAN
  BY Zenon DEF Sp!Known, Sp!Warned
<1>6. moved = b.moved \/ moved = b.moved \cup {t}
  OBVIOUS
<1> HIDE DEF created, warning, specs, moved
<1>7. e \in Entries /\ e.status = "matched" /\ (e.created <=> created)
  <2>1. e \in Entries
    BY <1>5, Zenon DEF Entries
  <2>2. e.status = "matched"
    BY Zenon
  <2>3. e.created <=> created
    BY Zenon
  <2> QED BY <2>1, <2>2, <2>3
<1>8. row \in Rows /\ row.brand = BrandOf[t] /\ row.target = t
  <2>1. row \in Rows
    BY <1>3, <1>5, Zenon DEF Rows
  <2>2. row.brand = BrandOf[t]
    BY Zenon
  <2>3. row.target = t
    BY Zenon
  <2> QED BY <2>1, <2>2, <2>3
<1>9. RowSound(c, row) /\ row # None
  BY <1>3, <1>8 DEF RowSound, Sp!SavedPagesAssumption, Rows
<1> HIDE DEF b, c, d, e, row
<1>10. /\ DOMAIN k = BatchFields /\ k.rows = [b.rows EXCEPT ![c] = row] /\ k.moved = moved
       /\ k.refused = b.refused /\ k.report = Append(b.report, e)
  BY <1>2 DEF BatchSound, BatchFields
<1> HIDE DEF k
<1>11. DOMAIN k.rows = Canonicals
       /\ \A x \in Canonicals : k.rows[x] = IF x = c THEN row ELSE b.rows[x]
  BY <1>2, <1>10 DEF BatchSound
<1>12. Coming(k) = IF created THEN Coming(b) \cup {c} ELSE Coming(b)
  BY <1>1, <1>4, <1>9, <1>11 DEF Coming
<1>13. /\ Cardinality(Coming(b)) \in Nat
       /\ Cardinality(Coming(k)) = Cardinality(Coming(b)) + (IF created THEN 1 ELSE 0)
  <2>1. IsFiniteSet(Coming(b)) /\ (created => c \notin Coming(b))
    <3>1. Coming(b) \in SUBSET Canonicals /\ IsFiniteSet(Canonicals)
      BY SameFinite DEF Coming, Sp!SavedPagesAssumption
    <3> QED BY <1>4, <3>1, FS_Subset DEF Coming
  <2>2. Cardinality(Coming(b)) \in Nat
    BY <2>1, FS_CardinalityType
  <2>3. created => Cardinality(Coming(b) \cup {c}) = Cardinality(Coming(b)) + 1
    BY <2>1, FS_AddElement
  <2> QED BY <1>12, <2>2, <2>3
<1>14. Cardinality(moved) <= Cardinality(b.moved) + 1 /\ Cardinality(b.moved) \in Nat
       /\ Cardinality(moved) \in Nat
  <2>1. IsFiniteSet(b.moved)
    <3>1. b.moved \in SUBSET Targets /\ IsFiniteSet(Targets)
      BY <1>2, SameFinite DEF BatchSound, Sp!SavedPagesAssumption
    <3> QED BY <3>1, FS_Subset
  <2>2. /\ Cardinality(b.moved) \in Nat
        /\ Cardinality(b.moved \cup {t}) = IF t \in b.moved THEN Cardinality(b.moved)
                                           ELSE Cardinality(b.moved) + 1
    BY <2>1, FS_AddElement, FS_CardinalityType
  <2> QED BY <1>6, <2>2
<1>15. BatchSound(k)
  <2>1. b.report \in Seq(Entries) /\ Len(b.report) \in Nat
    BY <1>2, LenProperties DEF BatchSound
  <2>2. /\ Append(b.report, e) \in Seq(Entries) /\ Len(k.report) = Len(b.report) + 1
        /\ \A kind \in {Matched, Unmatched, Invalid, Inserted, Updated} : Number(b.report, kind) \in Nat
        /\ Number(k.report, Matched) = Number(b.report, Matched) + 1
        /\ Number(k.report, Unmatched) = Number(b.report, Unmatched)
        /\ Number(k.report, Invalid) = Number(b.report, Invalid)
        /\ Number(k.report, Inserted) = Number(b.report, Inserted) + (IF created THEN 1 ELSE 0)
        /\ Number(k.report, Updated) = Number(b.report, Updated) + (IF created THEN 0 ELSE 1)
    <3>1. /\ Append(b.report, e) \in Seq(Entries) /\ Len(Append(b.report, e)) = Len(b.report) + 1
          /\ \A kind \in {Matched, Unmatched, Invalid, Inserted, Updated} : Number(b.report, kind) \in Nat
      BY <1>7, <2>1, OneMore
    <3>2. /\ Number(Append(b.report, e), Matched) = Number(b.report, Matched) + 1
          /\ Number(Append(b.report, e), Unmatched) = Number(b.report, Unmatched)
          /\ Number(Append(b.report, e), Invalid) = Number(b.report, Invalid)
      BY <1>7, <2>1, OneMore
    <3>3. /\ Number(Append(b.report, e), Inserted) = Number(b.report, Inserted) + (IF created THEN 1 ELSE 0)
          /\ Number(Append(b.report, e), Updated) = Number(b.report, Updated) + (IF created THEN 0 ELSE 1)
      BY <1>7, <2>1, OneMore
    <3> QED BY <1>10, <3>1, <3>2, <3>3
  <2>3. /\ Number(k.report, Matched) + Number(k.report, Unmatched) + Number(k.report, Invalid) = Len(k.report)
        /\ Number(k.report, Inserted) + Number(k.report, Updated) = Number(k.report, Matched)
        /\ Number(k.report, Inserted) = Cardinality(Coming(k))
        /\ Cardinality(k.moved) <= Number(k.report, Matched)
    <3>1. /\ Number(b.report, Matched) + Number(b.report, Unmatched) + Number(b.report, Invalid) = Len(b.report)
          /\ Number(b.report, Inserted) + Number(b.report, Updated) = Number(b.report, Matched)
          /\ Number(b.report, Inserted) = Cardinality(Coming(b))
          /\ Cardinality(b.moved) <= Number(b.report, Matched)
      BY <1>2 DEF BatchSound
    <3>2. Number(b.report, Matched) \in Nat /\ Number(b.report, Unmatched) \in Nat
          /\ Number(b.report, Invalid) \in Nat /\ Number(b.report, Inserted) \in Nat
          /\ Number(b.report, Updated) \in Nat
      BY <2>2
    <3>3. Number(k.report, Matched) + Number(k.report, Unmatched) + Number(k.report, Invalid) = Len(k.report)
      <4>1. /\ Len(b.report) \in Nat /\ Len(k.report) = Len(b.report) + 1
            /\ Number(k.report, Matched) = Number(b.report, Matched) + 1
            /\ Number(k.report, Unmatched) = Number(b.report, Unmatched)
            /\ Number(k.report, Invalid) = Number(b.report, Invalid)
        BY <2>1, <2>2
      <4>2. Number(b.report, Matched) + Number(b.report, Unmatched) + Number(b.report, Invalid) = Len(b.report)
        BY <3>1
      <4>3. /\ Number(b.report, Matched) \in Nat /\ Number(b.report, Unmatched) \in Nat
            /\ Number(b.report, Invalid) \in Nat
        BY <3>2
      <4> DEFINE x == Number(b.report, Matched)
                 y == Number(b.report, Unmatched)
                 z == Number(b.report, Invalid)
                 n == Len(b.report)
      <4>4. x \in Nat /\ y \in Nat /\ z \in Nat /\ n \in Nat /\ x + y + z = n
        BY <4>1, <4>2, <4>3
      <4>5. /\ Number(k.report, Matched) = x + 1 /\ Number(k.report, Unmatched) = y
            /\ Number(k.report, Invalid) = z /\ Len(k.report) = n + 1
        BY <4>1
      <4> HIDE DEF x, y, z, n
      <4>6. (x + 1) + y + z = n + 1
        BY <4>4
      <4> QED BY <4>5, <4>6
    <3>4. /\ Number(k.report, Inserted) + Number(k.report, Updated) = Number(k.report, Matched)
          /\ Number(k.report, Inserted) = Cardinality(Coming(k))
      BY <1>13, <2>2, <3>1, <3>2
    <3>5. Cardinality(k.moved) <= Number(k.report, Matched)
      BY <1>10, <1>14, <2>2, <3>1, <3>2
    <3> QED BY <3>3, <3>4, <3>5
  <2>4. /\ \A x \in Canonicals : k.rows[x] # None => RowSound(x, k.rows[x])
        /\ k.moved \subseteq Targets
        /\ \A u \in k.moved : \E x \in Canonicals : k.rows[x] # None /\ Finds(u, x)
    BY <1>1, <1>2, <1>3, <1>6, <1>9, <1>10, <1>11 DEF BatchSound
  <2> QED BY <1>2, <1>10, <1>11, <2>2, <2>3, <2>4 DEF BatchSound
<1>16. ASSUME NEW o \in Requests \ {r}, batch[o] # None, NEW x \in Canonicals, k.rows[x] # None
       PROVE  batch[o].rows[x] = None
  BY <1>1, <1>11, <1>16 DEF PagesInv, RowsApart, b, Sp!HeldRows
<1> QED BY <1>1, <1>15, <1>16, BatchTurns

(* The commit: what another open batch was going to add, it still will.       *)
LEMMA BatchCommits ==
    ASSUME Sp!SavedPagesAssumption, PagesInv, NEW r \in Requests, Sp!CommitBatch(r)
    PROVE  PagesInv'
<1>1. /\ batch[r] # None
      /\ pages' = [c \in Canonicals |-> IF batch[r].rows[c] # None THEN batch[r].rows[c] ELSE pages[c]]
      /\ queued' = [t \in Targets |-> IF t \in batch[r].moved THEN "html_uploaded" ELSE queued[t]]
      /\ batch' = [batch EXCEPT ![r] = None] /\ UNCHANGED parse
  BY DEF Sp!CommitBatch
<1>2. /\ DOMAIN batch' = Requests
      /\ \A o \in Requests : batch'[o] # None => o # r /\ batch'[o] = batch[o]
  BY <1>1 DEF PagesInv
<1>3. RowsApart'
  BY <1>2 DEF PagesInv, RowsApart
<1>4. BatchSound(batch[r])
  BY <1>1 DEF PagesInv
<1>5. QueueSound'
  <2>1. \A c \in Canonicals : pages'[c] # None => RowSound(c, pages'[c])
    BY <1>1, <1>4 DEF BatchSound, PagesInv, QueueSound
  <2>2. ASSUME NEW t \in Targets, queued'[t] = "html_uploaded"
        PROVE  \E c \in Canonicals : pages'[c] # None /\ Finds(t, c)
    <3>1. CASE t \in batch[r].moved
      BY <1>1, <1>4, <3>1 DEF BatchSound
    <3>2. CASE t \notin batch[r].moved
      BY <1>1, <2>2, <3>2 DEF PagesInv, QueueSound
    <3> QED BY <3>1, <3>2
  <2> QED BY <1>1, <2>1, <2>2 DEF PagesInv, QueueSound
<1>6. ASSUME NEW o \in Requests, batch'[o] # None PROVE BatchSound(batch[o])'
  <2>1. PICK k : k = batch'[o]
    OBVIOUS
  <2>2. o # r /\ k = batch[o] /\ batch[o] # None
    BY <1>2, <1>6, <2>1
  <2>3. BatchSound(k)
    BY <2>2 DEF PagesInv
  <2>4. \A c \in Canonicals : k.rows[c] # None => batch[r].rows[c] = None
    BY <1>1, <2>2 DEF PagesInv, RowsApart
  <2>5. Coming(k)' = Coming(k)
    BY <1>1, <2>4 DEF Coming
  <2>6. BatchSound(k)'
    BY <2>3, <2>5 DEF BatchSound
  <2> QED BY <2>1, <2>6
<1> QED BY <1>2, <1>3, <1>5, <1>6 DEF PagesInv

LEMMA PagesStep ==
    ASSUME Sp!SavedPagesAssumption, PagesInv, Sp!SavedNext
    PROVE  PagesInv'
<1>1. ASSUME NEW r \in Requests, NEW n \in 1..MaxBatch, NEW documents \in [1..n -> Documents],
             NEW pin, Sp!Receive(r, documents, pin)
      PROVE  PagesInv'
  BY <1>1, BatchOpens
<1>2. ASSUME NEW r \in Requests, Sp!Refuse(r) \/ (\E t \in Targets : Sp!Store(r, t))
                                 \/ Sp!CommitBatch(r) \/ Sp!AbortBatch(r)
      PROVE  PagesInv'
  BY <1>2, BatchRefuses, BatchStores, BatchCommits, BatchDrops
<1> QED BY <1>1, <1>2, QueueSteps DEF Sp!SavedNext

LEMMA PagesStart ==
    ASSUME Sp!SavedPagesAssumption, Sp!SavedInit
    PROVE  PagesInv
  BY DEF Sp!SavedInit, PagesInv, QueueSound, RowsApart, Sp!SavedPagesAssumption

(* The page a target was moved for is one that its parse is handed.           *)
LEMMA SoundQueue ==
    ASSUME Sp!SavedPagesAssumption, PagesInv
    PROVE  Sp!QueuedHasPage
<1> SUFFICES ASSUME NEW t \in Targets, queued[t] = "html_uploaded", ~Sp!Contested(t)
             PROVE  Sp!StoredPages(t) # {}
  BY DEF Sp!QueuedHasPage
<1>1. PICK c \in Canonicals : pages[c] # None /\ Finds(t, c)
  BY DEF PagesInv, QueueSound
<1>2. RowSound(c, pages[c])
  BY <1>1 DEF PagesInv, QueueSound
<1> DEFINE u == pages[c].target
<1>3. u \in Targets /\ pages[c].brand = BrandOf[u] /\ (c = u \/ (Slug[u] # None /\ Slug[c] = Slug[u]))
  BY <1>2 DEF RowSound, Rows, Finds
<1>4. u = t \/ Slug[u] = Slug[t]
  BY <1>1, <1>3 DEF Finds
<1>5. pages[c].brand = BrandOf[t]
  BY <1>3, <1>4 DEF Sp!Contested
<1> QED BY <1>1, <1>5 DEF Finds, Sp!StoredPages

(* A commit does what the batch reports.                                      *)
LEMMA SummaryStep ==
    ASSUME Sp!SavedPagesAssumption, PagesInv, Sp!SavedNext
    PROVE  Sp!SummaryIsTrueStep
<1> SUFFICES ASSUME NEW r \in Requests, batch[r] # None, batch'[r] = None, pages' # pages
             PROVE  LET s == Sp!Summary(batch[r]) IN
                    /\ s.inserted = Sp!Cardinality({c \in Canonicals : pages[c] = None /\ pages'[c] # None})
                    /\ s.matched + s.unmatched + s.invalid = s.received
                    /\ s.inserted + s.updated = s.matched
                    /\ Sp!StatusCounts(None)'.of.html_uploaded
                           <= Sp!StatusCounts(None).of.html_uploaded + s.matched
  BY DEF Sp!SummaryIsTrueStep
<1> DEFINE b == batch[r]
<1>1. Sp!CommitBatch(r)
  <2>1. PICK q \in Requests : Sp!CommitBatch(q)
    BY DEF Sp!SavedNext, Sp!CrawlTarget, Sp!ReadPage, Sp!StampParsed, Sp!Receive, Sp!Refuse, Sp!Store,
           Sp!AbortBatch
  <2>2. q = r
    BY <2>1 DEF Sp!CommitBatch, PagesInv
  <2> QED BY <2>1, <2>2
<1>2. /\ pages' = [c \in Canonicals |-> IF b.rows[c] # None THEN b.rows[c] ELSE pages[c]]
      /\ queued' = [t \in Targets |-> IF t \in b.moved THEN "html_uploaded" ELSE queued[t]]
  BY <1>1 DEF Sp!CommitBatch
<1>3. BatchSound(b)
  BY DEF PagesInv
<1>4. {c \in Canonicals : pages[c] = None /\ pages'[c] # None} = Coming(b)
  BY <1>2 DEF Coming
<1> DEFINE on(q) == {t \in {u \in Targets : q[u] # None /\ None \in {None, BrandOf[u]}} : q[t] = "html_uploaded"}
<1>5. /\ Sp!StatusCounts(None).of.html_uploaded = Sp!Cardinality(on(queued))
      /\ Sp!StatusCounts(None)'.of.html_uploaded = Sp!Cardinality(on(queued'))
  BY DEF Sp!StatusCounts
<1>6. on(queued') \subseteq on(queued) \cup b.moved
  BY <1>2
<1>7. /\ Cardinality(on(queued')) \in Nat /\ Cardinality(on(queued)) \in Nat
      /\ Cardinality(on(queued')) <= Cardinality(on(queued)) + Cardinality(b.moved)
  <2>1. IsFiniteSet(Targets) /\ on(queued) \in SUBSET Targets /\ b.moved \in SUBSET Targets
    BY <1>3, SameFinite DEF Sp!SavedPagesAssumption, BatchSound
  <2> HIDE DEF on, b
  <2>2. IsFiniteSet(on(queued)) /\ IsFiniteSet(b.moved)
    BY <2>1, FS_Subset
  <2> DEFINE A == on(queued)
             B == b.moved
             C == on(queued')
  <2>3. IsFiniteSet(A) /\ IsFiniteSet(B) /\ C \subseteq A \cup B
    BY <1>6, <2>2
  <2> HIDE DEF A, B, C
  <2>4. /\ IsFiniteSet(A \cup B)
        /\ Cardinality(A \cup B) = Cardinality(A) + Cardinality(B) - Cardinality(A \cap B)
    BY <2>3, FS_Union
  <2>5. IsFiniteSet(A \cap B)
    <3>1. A \cap B \in SUBSET A
      OBVIOUS
    <3> QED BY <2>3, <3>1, FS_Subset
  <2>6. IsFiniteSet(C) /\ Cardinality(C) <= Cardinality(A \cup B)
    <3>1. C \in SUBSET (A \cup B)
      BY <2>3
    <3> QED BY <2>4, <3>1, FS_Subset
  <2>7. Cardinality(A) \in Nat /\ Cardinality(B) \in Nat /\ Cardinality(C) \in Nat
        /\ Cardinality(A \cap B) \in Nat
    BY <2>3, <2>5, <2>6, FS_CardinalityType
  <2>8. Cardinality(C) <= Cardinality(A) + Cardinality(B)
    BY <2>4, <2>6, <2>7
  <2> QED BY <2>7, <2>8 DEF A, B, C
<1> HIDE DEF b, on
<1>8. b.report \in Seq(Entries) /\ Len(b.report) \in Nat /\ b.refused \in Nat
  BY <1>3, LenProperties DEF BatchSound
<1>9. /\ Number(b.report, Matched) \in Nat /\ Number(b.report, Unmatched) \in Nat
      /\ Number(b.report, Invalid) \in Nat
  <2>1. [status |-> "matched", created |-> FALSE, warning |-> FALSE] \in Entries
    BY DEF Entries
  <2> QED BY <1>8, <2>1, CountAppend
<1>10. Cardinality(b.moved) \in Nat
  BY <1>3, SameFinite, FS_Subset, FS_CardinalityType DEF BatchSound, Sp!SavedPagesAssumption
<1> DEFINE s == Sp!Summary(b)
<1>11. /\ s.received = Len(b.report) + b.refused /\ s.matched = Number(b.report, Matched)
       /\ s.unmatched = Number(b.report, Unmatched) /\ s.invalid = Number(b.report, Invalid) + b.refused
       /\ s.inserted = Number(b.report, Inserted) /\ s.updated = Number(b.report, Updated)
  BY <1>8, SummaryCounts
<1> HIDE DEF s
<1>12. s.inserted = Sp!Cardinality({c \in Canonicals : pages[c] = None /\ pages'[c] # None})
       /\ s.inserted + s.updated = s.matched
  BY <1>3, <1>4, <1>11, PagesCount DEF BatchSound
<1>13. s.matched + s.unmatched + s.invalid = s.received
  <2>1. Number(b.report, Matched) + Number(b.report, Unmatched) + Number(b.report, Invalid) = Len(b.report)
    BY <1>3 DEF BatchSound
  <2> QED BY <1>8, <1>9, <1>11, <2>1
<1>14. Sp!StatusCounts(None)'.of.html_uploaded <= Sp!StatusCounts(None).of.html_uploaded + s.matched
  <2>1. Cardinality(b.moved) <= Number(b.report, Matched)
    BY <1>3 DEF BatchSound
  <2>2. Cardinality(on(queued')) <= Cardinality(on(queued)) + Number(b.report, Matched)
    BY <1>7, <1>9, <1>10, <2>1
  <2> QED BY <1>5, <1>11, <2>2, PagesCount
<1> QED BY <1>12, <1>13, <1>14 DEF s, b

-----------------------------------------------------------------------------
(* Apple's options                                                            *)

Kit(R, s, c) == {r \in R : r.size = s /\ r.chip = c}

(* Every kit of some rows is the kit of one version, up to the nth.           *)
Whole(R, n) ==
    \A r \in R :
        /\ r.size \in Sizes /\ r.chip \in Ao!Asked(r.size)
        /\ \E v \in 1..n :
              /\ Ao!Readable(Configurator[v][r.chip].offers)
              /\ Kit(R, r.size, r.chip) = Ao!KitRows(r.size, r.chip, Configurator[v][r.chip])

In(x, q) == \E i \in 1..Len(q) : q[i] = x
Apart(q) == \A i, k \in 1..Len(q) : q[i] = q[k] => i = k

(* A fetch has no kit yet of what it has still to ask for.                    *)
Asking(j) ==
    /\ j.at \in {"free", "scrape", "read"} => j.kits = {}
    /\ j.at = "page" => \A r \in j.kits : ~In(r.size, j.sizes)
    /\ j.at = "kit" =>
          /\ j.sizes # <<>> /\ j.chips \in Seq(Ao!Asked(Head(j.sizes))) /\ Apart(j.chips)
          /\ \A r \in j.kits : /\ ~In(r.size, Tail(j.sizes))
                               /\ r.size = Head(j.sizes) => ~In(r.chip, j.chips)

(* The DELETEs of a fetch take a stored kit of its own entirely or, when      *)
(* another fetch has written it since, not at all; and no other kit.          *)
Holding(j) ==
    /\ j.at # "commit" => j.saw = {}
    /\ \A r \in j.saw : <<r.size, r.chip>> \in Ao!KitsOf(j.kits)
    /\ j.at = "commit" =>
          \A n \in j.kits : \/ Kit(options, n.size, n.chip) \subseteq j.saw
                            \/ Kit(options, n.size, n.chip) \cap j.saw = {}

FetchFields == {"at", "scrape", "sizes", "chips", "kits", "saw"}
FetchSound(j) ==
    /\ DOMAIN j = FetchFields
    /\ j.sizes \in Seq(Sizes) /\ Apart(j.sizes)
    /\ Whole(j.kits, offer) /\ Asking(j) /\ Holding(j)

OptionsInv ==
    /\ offer \in 1..Len(Configurator) /\ Whole(options, offer)
    /\ DOMAIN fetcher = Fetchers /\ \A f \in Fetchers : FetchSound(fetcher[f])

(* The rows of a kit.                                                         *)
Add(group, v) == IF group[v].delta = None THEN None
                 ELSE <<group[v].delta, group[Ao!Selected(group)].delta>>
Row(size, chip, g, v, add, inc, blk, price) ==
    [size |-> size, chip |-> chip, group |-> g, value |-> v, add |-> add,
     included |-> inc, blocked |-> blk, price |-> price]
ChipRow(size, chip, kit) == Row(size, chip, "chip", chip, None, TRUE, FALSE, kit.price)
OptionRow(size, chip, kit, g, v) ==
    Row(size, chip, g, v, Add(kit.offers[g], v), kit.offers[g][v].selected,
        kit.offers[g][v].blocked, None)

LEMMA RowFields ==
    ASSUME NEW size, NEW chip, NEW g, NEW v, NEW add, NEW inc, NEW blk, NEW price, NEW r,
           r = Row(size, chip, g, v, add, inc, blk, price)
    PROVE  /\ r.size = size /\ r.chip = chip /\ r.group = g /\ r.value = v
           /\ r.add = add /\ r.included = inc /\ r.blocked = blk /\ r.price = price
  BY DEF Row

LEMMA KitRowsAre ==
    ASSUME NEW size, NEW chip, NEW kit, NEW r
    PROVE  r \in Ao!KitRows(size, chip, kit) <=>
               \/ r = ChipRow(size, chip, kit)
               \/ \E g \in DOMAIN kit.offers : \E v \in DOMAIN kit.offers[g] :
                      r = OptionRow(size, chip, kit, g, v)
<1> DEFINE opts == UNION {{OptionRow(size, chip, kit, g, v) : v \in DOMAIN kit.offers[g]}
                          : g \in DOMAIN kit.offers}
<1>1. Ao!KitRows(size, chip, kit) = {ChipRow(size, chip, kit)} \cup opts
  BY DEF Ao!KitRows, ChipRow, OptionRow, Row, Add
<1>2. r \in opts <=> \E g \in DOMAIN kit.offers : \E v \in DOMAIN kit.offers[g] :
                         r = OptionRow(size, chip, kit, g, v)
  OBVIOUS
<1> HIDE DEF opts
<1> QED BY <1>1, <1>2

LEMMA ChipRowFields ==
    ASSUME NEW size, NEW chip, NEW kit, NEW r, r = ChipRow(size, chip, kit)
    PROVE  /\ r.size = size /\ r.chip = chip /\ r.group = "chip" /\ r.value = chip
           /\ r.price = kit.price
  BY Zenon DEF ChipRow, Row

LEMMA KitRowsPlace ==
    ASSUME NEW size, NEW chip, NEW kit, NEW r \in Ao!KitRows(size, chip, kit)
    PROVE  r.size = size /\ r.chip = chip
<1>1. CASE r = ChipRow(size, chip, kit)
  BY <1>1, ChipRowFields
<1>2. ASSUME NEW g \in DOMAIN kit.offers, NEW v \in DOMAIN kit.offers[g],
             r = OptionRow(size, chip, kit, g, v)
      PROVE  r.size = size /\ r.chip = chip
  BY <1>2, RowFields DEF OptionRow
<1> QED BY <1>1, <1>2, KitRowsAre

LEMMA ChipRowOf ==
    ASSUME NEW size, NEW chip, NEW kit, NEW c, c = ChipRow(size, chip, kit)
    PROVE  /\ c \in Ao!KitRows(size, chip, kit)
           /\ Ao!KeyOf(c) = <<size, chip, "chip", chip>>
  BY KitRowsAre, ChipRowFields DEF Ao!KeyOf

(* Adding a whole kit, dropping kits, and the whole kits of two sets.         *)
LEMMA WholeLater ==
    ASSUME NEW R, NEW n \in Nat, Whole(R, n)
    PROVE  Whole(R, n + 1)
  BY DEF Whole

LEMMA WholeTogether ==
    ASSUME NEW n, NEW R, NEW S,
           \A r \in S :
              /\ r.size \in Sizes /\ r.chip \in Ao!Asked(r.size)
              /\ Kit(S, r.size, r.chip) = Kit(R, r.size, r.chip),
           Whole(R, n), S \subseteq R
    PROVE  Whole(S, n)
  BY DEF Whole

LEMMA TailApart ==
    ASSUME NEW T, NEW q \in Seq(T), q # <<>>, Apart(q)
    PROVE  /\ Head(q) \in T /\ Tail(q) \in Seq(T) /\ Apart(Tail(q)) /\ ~In(Head(q), Tail(q))
           /\ In(Head(q), q) /\ \A x : In(x, Tail(q)) => In(x, q)
<1>1. /\ Len(q) \in Nat /\ Len(q) # 0 /\ Head(q) = q[1] /\ Head(q) \in T
      /\ Tail(q) \in Seq(T) /\ Len(Tail(q)) = Len(q) - 1
      /\ \A i \in 1..(Len(q) - 1) : Tail(q)[i] = q[i + 1]
  BY HeadTailProperties, EmptySeq, LenProperties
<1>2. \A i \in 1..(Len(q) - 1) : i + 1 \in 1..Len(q) /\ i + 1 # 1
  BY <1>1
<1>3. 1 \in 1..Len(q)
  BY <1>1
<1> QED BY <1>1, <1>2, <1>3 DEF Apart, In

LEMMA OptionsListing ==
    ASSUME NEW S, IsFiniteSet(S)
    PROVE  Ao!SetToSeq(S) \in Seq(S) /\ Apart(Ao!SetToSeq(S))
<1> DEFINE n == Cardinality(S)
<1>1. n \in Nat /\ ExistsBijection(1..n, S)
  BY FS_CardinalityType
<1>2. PICK g : g \in Bijection(1..n, S)
  BY <1>1 DEF ExistsBijection
<1>3. g \in [1..n -> S] /\ Ao!IsInjective(g)
  BY <1>2 DEF Bijection, Injection, IsInjective, Ao!IsInjective
<1> DEFINE f == Ao!SetToSeq(S)
<1>4. f \in [1..n -> S] /\ Ao!IsInjective(f)
  <2>1. f = CHOOSE h \in [1..n -> S] : Ao!IsInjective(h)
    BY OptionsCount DEF Ao!SetToSeq
  <2> HIDE DEF n, f
  <2> QED BY <1>3, <2>1
<1> HIDE DEF f, n
<1>5. f \in Seq(S) /\ Len(f) = n
  BY <1>1, <1>4, IsASeq, LenProperties
<1>6. Apart(f)
  BY <1>4, <1>5 DEF Apart, Ao!IsInjective
<1> QED BY <1>5, <1>6 DEF f

(* A turn of a fetch that leaves the table and Apple alone.                   *)
LEMMA FetchTurns ==
    ASSUME OptionsInv, NEW f \in Fetchers, NEW j, FetchSound(j), Ao!Turn(f, j),
           UNCHANGED <<offer, options>>
    PROVE  OptionsInv'
<1>1. \A r : FetchSound(r) => FetchSound(r)'
  BY DEF FetchSound, Whole, Asking, Holding
<1>2. DOMAIN fetcher' = Fetchers
      /\ \A g \in Fetchers : fetcher'[g] = IF g = f THEN j ELSE fetcher[g]
  BY DEF Ao!Turn, OptionsInv
<1>3. \A g \in Fetchers : FetchSound(fetcher[g])'
  <2> TAKE g \in Fetchers
  <2>1. PICK r : r = fetcher'[g]
    OBVIOUS
  <2>2. FetchSound(r)
    BY <1>2, <2>1 DEF OptionsInv
  <2>3. FetchSound(r)'
    BY <1>1, <2>2
  <2> QED BY <2>1, <2>3 DEF FetchSound, Whole, Asking, Holding
<1> QED BY <1>2, <1>3 DEF OptionsInv, Whole

LEMMA NothingKept ==
    ASSUME NEW j, DOMAIN j = FetchFields, j.at \in {"free", "scrape", "read"},
           j.sizes = <<>>, j.kits = {}, j.saw = {}
    PROVE  FetchSound(j)
  BY EmptySeq DEF FetchSound, Whole, Asking, Holding, Apart, FetchFields

LEMMA FetchStarts ==
    ASSUME OptionsInv, NEW f \in Fetchers, Ao!FetchNow(f) \/ Ao!StartAppleScrape(f)
    PROVE  OptionsInv'
<1>1. PICK j : /\ j \in {[Ao!Unused EXCEPT !.at = "read"],
                         [Ao!Unused EXCEPT !.at = "scrape", !.scrape = TRUE]}
               /\ Ao!Turn(f, j) /\ UNCHANGED <<offer, options>>
  BY DEF Ao!FetchNow, Ao!StartAppleScrape
<1>2. /\ DOMAIN j = FetchFields /\ j.at \in {"free", "scrape", "read"}
      /\ j.sizes = <<>> /\ j.kits = {} /\ j.saw = {}
  BY <1>1 DEF Ao!Unused, FetchFields
<1> QED BY <1>1, <1>2, NothingKept, FetchTurns

LEMMA ScrapeStep ==
    ASSUME OptionsInv, NEW f \in Fetchers, Ao!AfterBuyPages(f)
    PROVE  OptionsInv'
<1> DEFINE i == fetcher[f]
<1>1. PICK j : j \in {Ao!Unused, [i EXCEPT !.at = "read"]}
               /\ Ao!Turn(f, j) /\ UNCHANGED <<offer, options>>
  BY DEF Ao!AfterBuyPages
<1>2. FetchSound(i) /\ i.at = "scrape"
  BY DEF OptionsInv, Ao!AfterBuyPages
<1>3. CASE j = Ao!Unused
  <2>1. /\ DOMAIN j = FetchFields /\ j.at \in {"free", "scrape", "read"}
        /\ j.sizes = <<>> /\ j.kits = {} /\ j.saw = {}
    BY <1>3 DEF Ao!Unused, FetchFields
  <2> QED BY <1>1, <2>1, NothingKept, FetchTurns
<1>4. CASE j = [i EXCEPT !.at = "read"]
  <2> HIDE DEF i
  <2>1. FetchSound(j)
    BY <1>2, <1>4 DEF FetchSound, FetchFields, Whole, Asking, Holding
  <2> QED BY <1>1, <2>1, FetchTurns
<1> QED BY <1>1, <1>3, <1>4

LEMMA TargetsStep ==
    ASSUME Ao!OptionsAssumption, OptionsInv, NEW f \in Fetchers, Ao!ReadTargets(f)
    PROVE  OptionsInv'
<1> DEFINE i == fetcher[f]
<1>1. PICK T \in SUBSET Sizes :
          /\ Ao!Turn(f, [i EXCEPT !.at = "page", !.sizes = Ao!SetToSeq(T)])
          /\ UNCHANGED <<offer, options>>
  BY DEF Ao!ReadTargets
<1>2. FetchSound(i) /\ i.at = "read"
  BY DEF OptionsInv, Ao!ReadTargets
<1> DEFINE q == Ao!SetToSeq(T)
           j == [i EXCEPT !.at = "page", !.sizes = q]
<1>3. q \in Seq(Sizes) /\ Apart(q)
  <2>1. IsFiniteSet(T)
    BY FS_Subset, OptionsFinite DEF Ao!OptionsAssumption
  <2>2. Seq(T) \subseteq Seq(Sizes)
    OBVIOUS
  <2> QED BY <2>1, <2>2, OptionsListing
<1> HIDE DEF i, q
<1>4. FetchSound(j)
  BY <1>2, <1>3 DEF FetchSound, FetchFields, Whole, Asking, Holding
<1> HIDE DEF j
<1> QED BY <1>1, <1>4, FetchTurns DEF j, q

(* The configure pages of a size.                                             *)
LEMMA PagesFetched ==
    ASSUME Ao!OptionsAssumption, OptionsInv, NEW f \in Fetchers, Ao!FetchPages(f)
    PROVE  OptionsInv'
<1> DEFINE i == fetcher[f]
<1>1. FetchSound(i) /\ i.at = "page" /\ UNCHANGED <<offer, options>>
  BY DEF OptionsInv, Ao!FetchPages
<1>2. CASE Ao!Turn(f, Ao!Refused(i))
  <2> DEFINE j == Ao!Refused(i)
  <2>1. /\ DOMAIN j = FetchFields /\ j.at = "write" /\ j.sizes = i.sizes
        /\ j.kits = i.kits /\ j.saw = i.saw
    BY <1>1 DEF Ao!Refused, FetchSound, FetchFields
  <2> HIDE DEF i, j
  <2>2. FetchSound(j)
    BY <1>1, <2>1 DEF FetchSound, Whole, Asking, Holding
  <2> QED BY <1>1, <1>2, <2>2, FetchTurns DEF j
<1>3. CASE i.sizes # <<>> /\ Ao!Turn(f, Ao!NextSize(i))
  <2> DEFINE j == Ao!NextSize(i)
  <2>1. /\ DOMAIN j = FetchFields /\ j.at = "page" /\ j.sizes = Tail(i.sizes)
        /\ j.kits = i.kits /\ j.saw = i.saw
    BY <1>1 DEF Ao!NextSize, FetchSound, FetchFields
  <2>2. j.sizes \in Seq(Sizes) /\ Apart(j.sizes) /\ \A x : In(x, j.sizes) => In(x, i.sizes)
    BY <1>1, <1>3, <2>1, TailApart DEF FetchSound
  <2> HIDE DEF i, j
  <2>3. FetchSound(j)
    BY <1>1, <2>1, <2>2 DEF FetchSound, Whole, Asking, Holding
  <2> QED BY <1>1, <1>3, <2>3, FetchTurns DEF j
<1>4. CASE i.sizes # <<>> /\ Ao!Turn(f, [i EXCEPT !.at = "kit",
                                         !.chips = Ao!SetToSeq(Ao!Asked(Head(i.sizes)))])
  <2> DEFINE q == Ao!SetToSeq(Ao!Asked(Head(i.sizes)))
             j == [i EXCEPT !.at = "kit", !.chips = q]
  <2>1. /\ DOMAIN j = FetchFields /\ j.at = "kit" /\ j.sizes = i.sizes /\ j.chips = q
        /\ j.kits = i.kits /\ j.saw = i.saw
    BY <1>1 DEF FetchSound, FetchFields
  <2>2. /\ Head(i.sizes) \in Sizes /\ In(Head(i.sizes), i.sizes)
        /\ \A x : In(x, Tail(i.sizes)) => In(x, i.sizes)
    BY <1>1, <1>4, TailApart DEF FetchSound
  <2>3. q \in Seq(Ao!Asked(Head(i.sizes))) /\ Apart(q)
    <3>1. Ao!Asked(Head(i.sizes)) \subseteq Chips
      BY <2>2 DEF Ao!Asked, Ao!OnConfigurePages, Ao!OptionsAssumption
    <3> QED BY <3>1, FS_Subset, OptionsFinite, OptionsListing DEF Ao!OptionsAssumption
  <2> HIDE DEF i, j, q
  <2>4. FetchSound(j)
    BY <1>1, <1>4, <2>1, <2>2, <2>3 DEF FetchSound, Whole, Asking, Holding
  <2> QED BY <1>1, <1>4, <2>4, FetchTurns DEF j, q
<1> QED BY <1>2, <1>3, <1>4 DEF Ao!FetchPages

(* A kit that a fetch did not have.                                           *)
LEMMA KitAdded ==
    ASSUME NEW n, NEW R, Whole(R, n), NEW size \in Sizes, NEW chip \in Ao!Asked(size),
           NEW v \in 1..n, Ao!Readable(Configurator[v][chip].offers),
           \A r \in R : ~(r.size = size /\ r.chip = chip),
           NEW K, K = Ao!KitRows(size, chip, Configurator[v][chip])
    PROVE  Whole(R \cup K, n)
<1>1. \A r \in K : r.size = size /\ r.chip = chip
  BY KitRowsPlace
<1>2. Kit(R \cup K, size, chip) = K
  BY <1>1 DEF Kit
<1>3. ASSUME NEW r \in K
      PROVE  /\ r.size \in Sizes /\ r.chip \in Ao!Asked(r.size)
             /\ Ao!Readable(Configurator[v][r.chip].offers)
             /\ Kit(R \cup K, r.size, r.chip) = Ao!KitRows(r.size, r.chip, Configurator[v][r.chip])
  BY <1>1, <1>2
<1>4. \A r \in R : Kit(R \cup K, r.size, r.chip) = Kit(R, r.size, r.chip)
  BY <1>1 DEF Kit
<1> QED BY <1>3, <1>4 DEF Whole

LEMMA KitFetched ==
    ASSUME Ao!OptionsAssumption, OptionsInv, NEW f \in Fetchers, Ao!FetchKit(f)
    PROVE  OptionsInv'
<1> DEFINE i == fetcher[f]
           size == Head(i.sizes)
           chip == Head(i.chips)
           K == Ao!KitRows(size, chip, Configurator[offer][chip])
           rest == [i EXCEPT !.chips = Tail(@)]
           more == [rest EXCEPT !.kits = @ \cup K]
           cut == [i EXCEPT !.kits = {r \in @ : r.size # size}]
<1>1. /\ FetchSound(i) /\ i.at = "kit" /\ UNCHANGED <<offer, options>>
      /\ offer \in 1..Len(Configurator)
  BY DEF OptionsInv, Ao!FetchKit
<1>2. \/ i.chips = <<>> /\ Ao!Turn(f, Ao!NextSize(i))
      \/ i.chips # <<>> /\ Ao!Readable(Configurator[offer][chip].offers) /\ Ao!Turn(f, more)
      \/ i.chips # <<>> /\ Ao!Turn(f, rest)
      \/ i.chips # <<>> /\ Ao!Turn(f, Ao!Refused(cut))
  BY DEF Ao!FetchKit
<1>3. /\ DOMAIN i = FetchFields /\ i.sizes \in Seq(Sizes) /\ i.sizes # <<>> /\ Apart(i.sizes)
      /\ i.chips \in Seq(Ao!Asked(size)) /\ Apart(i.chips) /\ i.saw = {}
      /\ Whole(i.kits, offer)
      /\ \A r \in i.kits : ~In(r.size, Tail(i.sizes)) /\ (r.size = size => ~In(r.chip, i.chips))
  BY <1>1 DEF FetchSound, Asking, Holding
<1>4. /\ size \in Sizes /\ Tail(i.sizes) \in Seq(Sizes) /\ Apart(Tail(i.sizes))
      /\ ~In(size, Tail(i.sizes))
  BY <1>3, TailApart
<1>5. i.chips # <<>> =>
          /\ chip \in Ao!Asked(size) /\ Tail(i.chips) \in Seq(Ao!Asked(size)) /\ Apart(Tail(i.chips))
          /\ ~In(chip, Tail(i.chips)) /\ In(chip, i.chips)
          /\ \A x : In(x, Tail(i.chips)) => In(x, i.chips)
  BY <1>3, TailApart
<1>6. offer \in Nat
  BY <1>1
<1> HIDE DEF i
<1>7. CASE i.chips = <<>> /\ Ao!Turn(f, Ao!NextSize(i))
  <2> DEFINE j == Ao!NextSize(i)
  <2>1. /\ DOMAIN j = FetchFields /\ j.at = "page" /\ j.sizes = Tail(i.sizes)
        /\ j.kits = i.kits /\ j.saw = {}
    BY <1>3 DEF Ao!NextSize, FetchFields
  <2> HIDE DEF j
  <2>2. FetchSound(j)
    BY <1>3, <1>4, <2>1 DEF FetchSound, Asking, Holding
  <2> QED BY <1>1, <1>7, <2>2, FetchTurns DEF j
<1>8. CASE i.chips # <<>> /\ Ao!Turn(f, rest)
  <2>1. /\ DOMAIN rest = FetchFields /\ rest.at = "kit" /\ rest.sizes = i.sizes
        /\ rest.chips = Tail(i.chips) /\ rest.kits = i.kits /\ rest.saw = {}
    BY <1>1, <1>3 DEF FetchFields
  <2> HIDE DEF rest
  <2>2. FetchSound(rest)
    BY <1>3, <1>5, <1>8, <2>1 DEF FetchSound, Asking, Holding
  <2> QED BY <1>1, <1>8, <2>2, FetchTurns
<1>9. CASE i.chips # <<>> /\ Ao!Readable(Configurator[offer][chip].offers) /\ Ao!Turn(f, more)
  <2>1. /\ DOMAIN more = FetchFields /\ more.at = "kit" /\ more.sizes = i.sizes
        /\ more.chips = Tail(i.chips) /\ more.kits = i.kits \cup K /\ more.saw = {}
    BY <1>1, <1>3 DEF FetchFields
  <2>2. \A r \in K : r.size = size /\ r.chip = chip
    BY KitRowsPlace
  <2>3. \A r \in i.kits : ~(r.size = size /\ r.chip = chip)
    BY <1>3, <1>5, <1>9
  <2>4. offer \in 1..offer
    BY <1>1
  <2>5. Whole(i.kits \cup K, offer)
    BY <1>3, <1>4, <1>5, <1>9, <2>3, <2>4, KitAdded
  <2> HIDE DEF more, K
  <2>6. Asking(more)
    BY <1>3, <1>4, <1>5, <1>9, <2>1, <2>2 DEF Asking
  <2>7. FetchSound(more)
    BY <1>3, <2>1, <2>5, <2>6 DEF FetchSound, Holding
  <2> QED BY <1>1, <1>9, <2>7, FetchTurns
<1>10. CASE i.chips # <<>> /\ Ao!Turn(f, Ao!Refused(cut))
  <2> DEFINE j == Ao!Refused(cut)
  <2>1. /\ DOMAIN j = FetchFields /\ j.at = "write" /\ j.sizes = i.sizes
        /\ j.kits = {r \in i.kits : r.size # size} /\ j.saw = {}
    BY <1>3 DEF Ao!Refused, FetchFields
  <2> HIDE DEF j
  <2>2. \A r \in j.kits : r \in i.kits /\ Kit(j.kits, r.size, r.chip) = Kit(i.kits, r.size, r.chip)
    BY <2>1 DEF Kit
  <2>3. Whole(j.kits, offer)
    BY <1>3, <2>2 DEF Whole
  <2>4. FetchSound(j)
    BY <1>3, <2>1, <2>3 DEF FetchSound, Asking, Holding
  <2> QED BY <1>1, <1>10, <2>4, FetchTurns DEF j
<1> QED BY <1>2, <1>7, <1>8, <1>9, <1>10

(* The DELETEs.                                                               *)
LEMMA OldDeleted ==
    ASSUME OptionsInv, NEW f \in Fetchers, Ao!DeleteOld(f)
    PROVE  OptionsInv'
<1> DEFINE i == fetcher[f]
           S == {r \in options : <<r.size, r.chip>> \in Ao!KitsOf(i.kits)}
           j == [i EXCEPT !.at = "commit", !.saw = S]
<1>1. FetchSound(i) /\ i.at = "write" /\ UNCHANGED <<offer, options>> /\ Ao!Turn(f, j)
  BY DEF OptionsInv, Ao!DeleteOld
<1>2. /\ DOMAIN j = FetchFields /\ j.at = "commit" /\ j.sizes = i.sizes
      /\ j.kits = i.kits /\ j.saw = S
  BY <1>1 DEF FetchSound, FetchFields
<1>3. \A n \in i.kits : <<n.size, n.chip>> \in Ao!KitsOf(i.kits)
  BY DEF Ao!KitsOf
<1> HIDE DEF i, j
<1>4. Holding(j)
  BY <1>2, <1>3 DEF Holding, Kit
<1>5. FetchSound(j)
  BY <1>1, <1>2, <1>4 DEF FetchSound, Asking
<1> QED BY <1>1, <1>5, FetchTurns

(* A stored kit of which nothing is deleted breaks the key of the new one:    *)
(* their chip rows have the same.                                             *)
LEMMA SameKey ==
    ASSUME NEW m, NEW R, Whole(R, m), NEW i, Whole(i.kits, m), NEW n \in i.kits,
           NEW r \in R, r.size = n.size, r.chip = n.chip,
           Kit(R, n.size, n.chip) \cap i.saw = {}
    PROVE  Ao!Breaks(i, R)
<1> DEFINE size == n.size
           chip == n.chip
<1>1. PICK v \in 1..m : Kit(R, size, chip) = Ao!KitRows(size, chip, Configurator[v][chip])
  BY DEF Whole
<1>2. PICK w \in 1..m : Kit(i.kits, size, chip) = Ao!KitRows(size, chip, Configurator[w][chip])
  BY DEF Whole
<1>3. PICK a : a = ChipRow(size, chip, Configurator[v][chip])
  OBVIOUS
<1>4. PICK b : b = ChipRow(size, chip, Configurator[w][chip])
  OBVIOUS
<1>5. a \in Kit(R, size, chip) /\ Ao!KeyOf(a) = <<size, chip, "chip", chip>>
  BY <1>1, <1>3, ChipRowOf
<1>6. b \in Kit(i.kits, size, chip) /\ Ao!KeyOf(b) = <<size, chip, "chip", chip>>
  BY <1>2, <1>4, ChipRowOf
<1>7. a \in R \ i.saw /\ b \in i.kits
  BY <1>5, <1>6 DEF Kit
<1>8. Ao!KeyOf(a) \in {Ao!KeyOf(x) : x \in R \ i.saw} \cap {Ao!KeyOf(x) : x \in i.kits}
  <2>1. Ao!KeyOf(a) \in {Ao!KeyOf(x) : x \in R \ i.saw}
    BY <1>7
  <2>2. Ao!KeyOf(b) \in {Ao!KeyOf(x) : x \in i.kits}
    BY <1>7
  <2>3. Ao!KeyOf(a) = Ao!KeyOf(b)
    BY <1>5, <1>6
  <2> QED BY <2>1, <2>2, <2>3
<1> QED BY <1>8 DEF Ao!Breaks

(* What is stored after the write of a fetch: its kits, and the others as     *)
(* they were.                                                                 *)
LEMMA Written ==
    ASSUME NEW m, NEW R, Whole(R, m), NEW i, Whole(i.kits, m), Holding(i), i.at = "commit",
           R = options, ~Ao!Breaks(i, R), NEW N, N = (R \ i.saw) \cup i.kits
    PROVE  /\ \A n \in i.kits : Kit(N, n.size, n.chip) = Kit(i.kits, n.size, n.chip)
           /\ \A s, c : <<s, c>> \notin Ao!KitsOf(i.kits) => Kit(N, s, c) = Kit(R, s, c)
           /\ Whole(N, m)
<1>1. ASSUME NEW n \in i.kits PROVE Kit(N, n.size, n.chip) = Kit(i.kits, n.size, n.chip)
  <2>1. Kit(R, n.size, n.chip) \subseteq i.saw
    <3>1. CASE Kit(R, n.size, n.chip) \cap i.saw = {}
      BY <3>1, SameKey DEF Kit
    <3> QED BY <3>1 DEF Holding
  <2> QED BY <2>1 DEF Kit
<1>2. ASSUME NEW s, NEW c, <<s, c>> \notin Ao!KitsOf(i.kits)
      PROVE  Kit(N, s, c) = Kit(R, s, c)
  <2>1. \A n \in i.kits : ~(n.size = s /\ n.chip = c)
    BY <1>2 DEF Ao!KitsOf
  <2>2. \A r \in i.saw : ~(r.size = s /\ r.chip = c)
    BY <1>2 DEF Holding
  <2> QED BY <2>1, <2>2 DEF Kit
<1>3. ASSUME NEW r \in N
      PROVE  \/ r \in R /\ Kit(N, r.size, r.chip) = Kit(R, r.size, r.chip)
             \/ r \in i.kits /\ Kit(N, r.size, r.chip) = Kit(i.kits, r.size, r.chip)
  <2>1. CASE r \in i.kits
    BY <1>1, <2>1
  <2>2. CASE r \notin i.kits /\ <<r.size, r.chip>> \in Ao!KitsOf(i.kits)
    <3>1. PICK n \in i.kits : n.size = r.size /\ n.chip = r.chip
      BY <2>2 DEF Ao!KitsOf
    <3>2. r \in Kit(N, n.size, n.chip)
      BY <3>1 DEF Kit
    <3> QED BY <1>1, <2>2, <3>2 DEF Kit
  <2>3. CASE r \notin i.kits /\ <<r.size, r.chip>> \notin Ao!KitsOf(i.kits)
    BY <1>2, <2>3
  <2> QED BY <2>1, <2>2, <2>3
<1>4. Whole(N, m)
  BY <1>3 DEF Whole
<1> QED BY <1>1, <1>2, <1>4

LEMMA OptionsCommitted ==
    ASSUME OptionsInv, NEW f \in Fetchers, Ao!CommitOptions(f)
    PROVE  OptionsInv'
<1> DEFINE i == fetcher[f]
           written == IF Ao!Breaks(i, options) THEN {} ELSE i.kits
<1>1. /\ FetchSound(i) /\ i.at = "commit" /\ UNCHANGED offer
      /\ options' = Ao!WriteRows(i, options)
      /\ fetcher' = [g \in Fetchers |-> IF g = f THEN Ao!Unused
                                        ELSE [fetcher[g] EXCEPT !.saw = @ \ written]]
  BY DEF OptionsInv, Ao!CommitOptions
<1>2. /\ DOMAIN Ao!Unused = FetchFields /\ Ao!Unused.at = "free"
      /\ Ao!Unused.sizes = <<>> /\ Ao!Unused.kits = {} /\ Ao!Unused.saw = {}
  BY DEF Ao!Unused, FetchFields
<1>3. PICK N : N = options'
  OBVIOUS
<1>4. /\ Whole(N, offer)
      /\ \A n \in written : Kit(N, n.size, n.chip) \subseteq written
      /\ \A s, c : <<s, c>> \notin Ao!KitsOf(written) => Kit(N, s, c) = Kit(options, s, c)
  <2>1. CASE Ao!Breaks(i, options)
    BY <1>1, <1>3, <2>1 DEF Ao!WriteRows, OptionsInv
  <2>2. CASE ~Ao!Breaks(i, options)
    <3>1. N = (options \ i.saw) \cup i.kits /\ written = i.kits
      BY <1>1, <1>3, <2>2 DEF Ao!WriteRows
    <3>2. Whole(options, offer) /\ Whole(i.kits, offer) /\ Holding(i)
      BY <1>1 DEF OptionsInv, FetchSound
    <3> HIDE DEF i, written
    <3>3. /\ \A n \in i.kits : Kit(N, n.size, n.chip) = Kit(i.kits, n.size, n.chip)
          /\ \A s, c : <<s, c>> \notin Ao!KitsOf(i.kits) => Kit(N, s, c) = Kit(options, s, c)
          /\ Whole(N, offer)
      BY <1>1, <2>2, <3>1, <3>2, Written
    <3>4. \A n : Kit(i.kits, n.size, n.chip) \subseteq i.kits
      BY DEF Kit
    <3> QED BY <3>1, <3>3, <3>4
  <2> QED BY <2>1, <2>2
<1>5. ASSUME NEW g \in Fetchers, g # f, NEW j, j = fetcher'[g] PROVE FetchSound(j)'
  <2>1. PICK k : k = fetcher[g]
    OBVIOUS
  <2>2. FetchSound(k) /\ j = [k EXCEPT !.saw = @ \ written]
    BY <1>1, <1>5, <2>1 DEF OptionsInv
  <2> HIDE DEF i, written
  <2>3. /\ DOMAIN j = FetchFields /\ j.at = k.at /\ j.sizes = k.sizes /\ j.chips = k.chips
        /\ j.kits = k.kits /\ j.saw = k.saw \ written
    BY <2>2 DEF FetchSound, FetchFields
  <2>4. j.at = "commit" =>
            \A n \in j.kits : \/ Kit(N, n.size, n.chip) \subseteq j.saw
                              \/ Kit(N, n.size, n.chip) \cap j.saw = {}
    <3> SUFFICES ASSUME j.at = "commit", NEW n \in j.kits
                 PROVE  \/ Kit(N, n.size, n.chip) \subseteq j.saw
                        \/ Kit(N, n.size, n.chip) \cap j.saw = {}
      OBVIOUS
    <3>1. CASE <<n.size, n.chip>> \in Ao!KitsOf(written)
      <4>1. PICK w \in written : w.size = n.size /\ w.chip = n.chip
        BY <3>1 DEF Ao!KitsOf
      <4>2. Kit(N, n.size, n.chip) \subseteq written
        BY <1>4, <4>1
      <4> QED BY <2>3, <4>2
    <3>2. CASE <<n.size, n.chip>> \notin Ao!KitsOf(written)
      <4>1. Kit(N, n.size, n.chip) = Kit(options, n.size, n.chip)
        BY <1>4, <3>2
      <4>2. \A w \in written : w \notin Kit(options, n.size, n.chip)
        BY <3>2 DEF Ao!KitsOf, Kit
      <4>3. \/ Kit(options, n.size, n.chip) \subseteq k.saw
            \/ Kit(options, n.size, n.chip) \cap k.saw = {}
        BY <2>2, <2>3 DEF FetchSound, Holding
      <4> QED BY <2>3, <4>1, <4>2, <4>3
    <3> QED BY <3>1, <3>2
  <2>5. Holding(j)'
    BY <1>3, <2>2, <2>3, <2>4 DEF Holding, FetchSound
  <2> QED BY <1>1, <2>2, <2>3, <2>5 DEF FetchSound, Asking, Whole
<1>6. ASSUME NEW j, j = Ao!Unused PROVE FetchSound(j)'
  <2>1. FetchSound(j) /\ j.at = "free" /\ j.saw = {} /\ j.kits = {}
    BY <1>2, <1>6, NothingKept
  <2> QED BY <2>1 DEF FetchSound, Whole, Asking, Holding
<1>7. \A g \in Fetchers : FetchSound(fetcher[g])'
  <2> TAKE g \in Fetchers
  <2>1. PICK j : j = fetcher'[g]
    OBVIOUS
  <2>2. FetchSound(j)'
    BY <1>1, <1>5, <1>6, <2>1
  <2> QED BY <2>1, <2>2 DEF FetchSound, Whole, Asking, Holding
<1> HIDE DEF i, written
<1> QED BY <1>1, <1>3, <1>4, <1>7 DEF OptionsInv, Whole

LEMMA OptionsStep ==
    ASSUME Ao!OptionsAssumption, OptionsInv, Ao!OptionsNext
    PROVE  OptionsInv'
<1>1. CASE Ao!Reprice
  <2>1. /\ offer' = offer + 1 /\ offer < Len(Configurator) /\ UNCHANGED <<options, fetcher>>
        /\ offer \in Nat /\ Len(Configurator) \in Nat
    BY <1>1 DEF Ao!Reprice, OptionsInv, Ao!OptionsAssumption
  <2>2. Whole(options, offer')
    BY <2>1, WholeLater DEF OptionsInv
  <2>3. ASSUME NEW j, FetchSound(j) PROVE FetchSound(j)'
    <3>1. Whole(j.kits, offer')
      BY <2>1, <2>3, WholeLater DEF FetchSound
    <3> QED BY <2>1, <2>3, <3>1 DEF FetchSound, Asking, Holding, Whole
  <2>4. \A g \in Fetchers : FetchSound(fetcher[g])'
    <3> TAKE g \in Fetchers
    <3>1. PICK j : j = fetcher[g]
      OBVIOUS
    <3>2. FetchSound(j)'
      BY <2>3, <3>1 DEF OptionsInv
    <3> QED BY <2>1, <3>1, <3>2
  <2>5. offer' \in 1..Len(Configurator)
    BY <2>1
  <2> QED BY <2>1, <2>2, <2>4, <2>5 DEF OptionsInv, Whole
<1> QED BY <1>1, FetchStarts, ScrapeStep, TargetsStep, PagesFetched, KitFetched, OldDeleted,
           OptionsCommitted DEF Ao!OptionsNext

LEMMA OptionsStart ==
    ASSUME Ao!OptionsAssumption, Ao!OptionsInit
    PROVE  OptionsInv
<1>1. /\ DOMAIN Ao!Unused = FetchFields /\ Ao!Unused.at = "free"
      /\ Ao!Unused.sizes = <<>> /\ Ao!Unused.kits = {} /\ Ao!Unused.saw = {}
  BY DEF Ao!Unused, FetchFields
<1>2. ASSUME NEW j, j = Ao!Unused PROVE FetchSound(j)
  BY <1>1, <1>2, NothingKept
<1>3. \A f \in Fetchers : FetchSound(fetcher[f])
  BY <1>2 DEF Ao!OptionsInit
<1> QED BY <1>3 DEF OptionsInv, Ao!OptionsInit, Ao!OptionsAssumption, Whole

(* What the configurator reads of a kit: its groups and their options, one    *)
(* row each, of which one per group is included.                              *)
Options(R, size, chip, kit) ==
    /\ Kit(R, size, chip) = Ao!KitRows(size, chip, kit)
    /\ Ao!Readable(kit.offers) /\ "chip" \notin DOMAIN kit.offers
    /\ \A g \in DOMAIN kit.offers : IsFiniteSet(DOMAIN kit.offers[g])

LEMMA OptionRowFields ==
    ASSUME NEW size, NEW chip, NEW kit, NEW g, NEW v, NEW r, r = OptionRow(size, chip, kit, g, v)
    PROVE  /\ r.size = size /\ r.chip = chip /\ r.group = g /\ r.value = v
           /\ r.add = Add(kit.offers[g], v) /\ r.included = kit.offers[g][v].selected
           /\ r.blocked = kit.offers[g][v].blocked
  BY Zenon DEF OptionRow, Row

LEMMA RowsOfGroup ==
    ASSUME NEW R, NEW size, NEW chip, NEW kit, Options(R, size, chip, kit), NEW g, NEW r
    PROVE  r \in Ao!Of(R, size, chip, g) <=>
               \/ g = "chip" /\ r = ChipRow(size, chip, kit)
               \/ /\ g \in DOMAIN kit.offers
                  /\ \E v \in DOMAIN kit.offers[g] : r = OptionRow(size, chip, kit, g, v)
<1>1. r \in Ao!Of(R, size, chip, g) <=> r \in Ao!KitRows(size, chip, kit) /\ r.group = g
  BY DEF Ao!Of, Kit, Options
<1>2. r = ChipRow(size, chip, kit) => r.group = "chip"
  BY ChipRowFields
<1>3. \A h, v : r = OptionRow(size, chip, kit, h, v) => r.group = h
  BY OptionRowFields
<1> QED BY <1>1, <1>2, <1>3, KitRowsAre DEF Options

LEMMA OneSelected ==
    ASSUME NEW R, NEW size, NEW chip, NEW kit, Options(R, size, chip, kit), NEW g \in DOMAIN kit.offers
    PROVE  \E v \in DOMAIN kit.offers[g] : kit.offers[g][v].selected
<1> DEFINE S == {v \in DOMAIN kit.offers[g] : kit.offers[g][v].selected}
<1>1. Cardinality(S) = 1
  BY OptionsCount DEF Options, Ao!Readable
<1>2. IsFiniteSet(S)
  BY FS_Subset DEF Options
<1>3. S # {}
  BY <1>1, <1>2, FS_EmptySet
<1> QED BY <1>3

(* What the chip includes of a group, and what it allows, are options of it.  *)
LEMMA IncludedIsOption ==
    ASSUME NEW R, NEW size, NEW chip, NEW kit, Options(R, size, chip, kit), NEW g \in DOMAIN kit.offers
    PROVE  Ao!Included(R, size, chip, g) \in DOMAIN kit.offers[g]
<1>1. PICK v \in DOMAIN kit.offers[g] : kit.offers[g][v].selected
  BY OneSelected
<1>2. PICK r : r = OptionRow(size, chip, kit, g, v)
  OBVIOUS
<1>3. r \in Ao!Of(R, size, chip, g) /\ r.included
  BY <1>1, <1>2, RowsOfGroup, OptionRowFields
<1> DEFINE b == CHOOSE x \in Ao!Of(R, size, chip, g) : x.included
<1>4. b \in Ao!Of(R, size, chip, g)
  BY <1>3
<1> HIDE DEF b
<1>5. "chip" \notin DOMAIN kit.offers
  BY DEF Options
<1>6. PICK w \in DOMAIN kit.offers[g] : b = OptionRow(size, chip, kit, g, w)
  BY <1>4, <1>5, RowsOfGroup
<1>7. b.value = w
  BY <1>6, OptionRowFields
<1>8. Ao!Included(R, size, chip, g) = b.value
  BY DEF Ao!Included, b
<1> QED BY <1>6, <1>7, <1>8

LEMMA AllowedIsOption ==
    ASSUME NEW R, NEW size, NEW chip, NEW kit, Options(R, size, chip, kit),
           NEW g \in DOMAIN kit.offers, NEW v
    PROVE  Ao!Allows(R, size, chip, g, v) <=> v \in DOMAIN kit.offers[g] /\ ~kit.offers[g][v].blocked
<1>1. "chip" \notin DOMAIN kit.offers
  BY DEF Options
<1>2. ASSUME Ao!Allows(R, size, chip, g, v)
      PROVE  v \in DOMAIN kit.offers[g] /\ ~kit.offers[g][v].blocked
  <2>1. PICK r \in Ao!Of(R, size, chip, g) : r.value = v /\ ~r.blocked
    BY <1>2 DEF Ao!Allows
  <2>2. PICK w \in DOMAIN kit.offers[g] : r = OptionRow(size, chip, kit, g, w)
    BY <1>1, <2>1, RowsOfGroup
  <2> QED BY <2>1, <2>2, OptionRowFields
<1>3. ASSUME v \in DOMAIN kit.offers[g], ~kit.offers[g][v].blocked
      PROVE  Ao!Allows(R, size, chip, g, v)
  <2>1. PICK r : r = OptionRow(size, chip, kit, g, v)
    OBVIOUS
  <2>2. r \in Ao!Of(R, size, chip, g) /\ r.value = v /\ ~r.blocked
    BY <1>3, <2>1, RowsOfGroup, OptionRowFields
  <2> QED BY <2>2 DEF Ao!Allows
<1> QED BY <1>2, <1>3

LEMMA GroupsAre ==
    ASSUME NEW R, NEW size, NEW chip, NEW kit, Options(R, size, chip, kit)
    PROVE  Ao!GroupsOf(R, size, chip) = DOMAIN kit.offers
<1>1. Ao!GroupsOf(R, size, chip) = {r.group : r \in Ao!KitRows(size, chip, kit)} \ {"chip"}
  BY DEF Ao!GroupsOf, Kit, Options
<1>2. ASSUME NEW r \in Ao!KitRows(size, chip, kit), r.group # "chip"
      PROVE  r.group \in DOMAIN kit.offers
  <2>1. r # ChipRow(size, chip, kit)
    BY <1>2, ChipRowFields
  <2>2. PICK g \in DOMAIN kit.offers : \E v \in DOMAIN kit.offers[g] : r = OptionRow(size, chip, kit, g, v)
    BY <2>1, KitRowsAre
  <2> QED BY <2>2, OptionRowFields
<1>3. ASSUME NEW g \in DOMAIN kit.offers
      PROVE  g # "chip" /\ \E r \in Ao!KitRows(size, chip, kit) : r.group = g
  <2>1. PICK v \in DOMAIN kit.offers[g] : kit.offers[g][v].selected
    BY OneSelected
  <2>2. PICK r : r = OptionRow(size, chip, kit, g, v)
    OBVIOUS
  <2>3. r \in Ao!KitRows(size, chip, kit) /\ r.group = g
    BY <2>2, KitRowsAre, OptionRowFields
  <2> QED BY <2>3 DEF Options
<1> QED BY <1>1, <1>2, <1>3

LEMMA TotalIs ==
    ASSUME NEW R, NEW c, NEW chip, NEW v, NEW kit, kit = Configurator[v][chip],
           Options(R, c.size, chip, kit), NEW choices, DOMAIN choices = DOMAIN kit.offers,
           \A g \in DOMAIN choices : choices[g] \in DOMAIN kit.offers[g]
    PROVE  Ao!TotalOf(R, c, chip, choices) = Ao!Price(v, chip, choices)
<1> DEFINE size == c.size
<1>1. (CHOOSE r \in Ao!Of(R, size, chip, "chip") : TRUE).price = kit.price
  <2> DEFINE b == CHOOSE r \in Ao!Of(R, size, chip, "chip") : TRUE
  <2>1. PICK r : r = ChipRow(size, chip, kit)
    OBVIOUS
  <2>2. r \in Ao!Of(R, size, chip, "chip")
    BY <2>1, RowsOfGroup
  <2>3. b \in Ao!Of(R, size, chip, "chip")
    BY <2>2
  <2> HIDE DEF b
  <2>4. b = ChipRow(size, chip, kit)
    BY <2>3, RowsOfGroup DEF Options
  <2>5. b.price = kit.price
    BY <2>4, ChipRowFields
  <2> QED BY <2>5 DEF b
<1>2. ASSUME NEW g \in DOMAIN choices
      PROVE  (CHOOSE r \in Ao!Of(R, size, chip, g) : r.value = choices[g]).add
                 = Add(kit.offers[g], choices[g])
  <2> DEFINE b == CHOOSE r \in Ao!Of(R, size, chip, g) : r.value = choices[g]
  <2>1. PICK r : r = OptionRow(size, chip, kit, g, choices[g])
    OBVIOUS
  <2>2. r \in Ao!Of(R, size, chip, g) /\ r.value = choices[g]
    BY <2>1, RowsOfGroup, OptionRowFields
  <2>3. b \in Ao!Of(R, size, chip, g) /\ b.value = choices[g]
    BY <2>2
  <2> HIDE DEF b
  <2>4. PICK w \in DOMAIN kit.offers[g] : b = OptionRow(size, chip, kit, g, w)
    BY <2>3, RowsOfGroup DEF Options
  <2>5. b.value = w /\ b.add = Add(kit.offers[g], w)
    BY <2>4, OptionRowFields
  <2> QED BY <2>3, <2>5 DEF b
<1> DEFINE adds == [g \in DOMAIN choices |->
                       (CHOOSE r \in Ao!Of(R, size, chip, g) : r.value = choices[g]).add]
           wanted == [g \in DOMAIN choices |-> Add(kit.offers[g], choices[g])]
<1>3. adds = wanted
  <2> DEFINE F(g) == (CHOOSE r \in Ao!Of(R, size, chip, g) : r.value = choices[g]).add
             G(g) == Add(kit.offers[g], choices[g])
  <2>1. \A g \in DOMAIN choices : F(g) = G(g)
    BY <1>2
  <2> HIDE DEF F, G
  <2>2. [g \in DOMAIN choices |-> F(g)] = [g \in DOMAIN choices |-> G(g)]
    BY <2>1
  <2> QED BY <2>2 DEF F, G
<1>4. Ao!TotalOf(R, c, chip, choices)
          = [kit |-> (CHOOSE r \in Ao!Of(R, size, chip, "chip") : TRUE).price, adds |-> adds]
  BY DEF Ao!TotalOf
<1>5. Ao!Price(v, chip, choices) = [kit |-> kit.price, adds |-> wanted]
  BY DEF Ao!Price, Add
<1> QED BY <1>1, <1>3, <1>4, <1>5

LEMMA ChoicesAre ==
    ASSUME NEW R, NEW c, NEW chip, NEW kit, Options(R, c.size, chip, kit), NEW given,
           NEW choices, choices = Ao!ChoicesFor(R, c, chip, given)
    PROVE  /\ DOMAIN choices = DOMAIN kit.offers
           /\ \A g \in DOMAIN choices :
                 IF g \in DOMAIN given THEN choices[g] = given[g]
                 ELSE choices[g] \in DOMAIN kit.offers[g]
<1>1. DOMAIN choices = DOMAIN kit.offers
  BY GroupsAre DEF Ao!ChoicesFor
<1>2. ASSUME NEW g \in DOMAIN kit.offers, g \notin DOMAIN given
      PROVE  choices[g] \in DOMAIN kit.offers[g]
  <2>1. choices[g] = IF Ao!Allows(R, c.size, chip, g, Ao!OwnChoice(R, c, g))
                     THEN Ao!OwnChoice(R, c, g) ELSE Ao!Included(R, c.size, chip, g)
    BY <1>2, GroupsAre DEF Ao!ChoicesFor
  <2> QED BY <2>1, AllowedIsOption, IncludedIsOption
<1>3. \A g \in DOMAIN choices : g \in DOMAIN given => choices[g] = given[g]
  BY DEF Ao!ChoicesFor
<1> QED BY <1>1, <1>2, <1>3

LEMMA Answered ==
    ASSUME NEW R, NEW c, NEW asked, NEW given, NEW chip, chip = IF asked = None THEN c.chip ELSE asked,
           NEW choices, choices = Ao!ChoicesFor(R, c, chip, given),
           NEW a, a = Ao!Configure(R, c, asked, given)
    PROVE  /\ a.status = 200 <=>
                 /\ Ao!Configurable(R, c) /\ chip \in Ao!Offering(R, c.size)
                 /\ \A g \in DOMAIN choices \cap DOMAIN given : Ao!Allows(R, c.size, chip, g, given[g])
           /\ a.status = 200 =>
                 /\ a.chip = chip /\ a.choices = choices
                 /\ a.total = Ao!TotalOf(R, c, chip, choices)
<1> DEFINE answer == [status |-> 200, chip |-> chip, choices |-> choices,
                      total |-> Ao!TotalOf(R, c, chip, choices)]
           fails == \E g \in DOMAIN choices \cap DOMAIN given : ~Ao!Allows(R, c.size, chip, g, given[g])
           no(n) == [status |-> n]
<1>1. a = IF ~Ao!Configurable(R, c) THEN no(404)
          ELSE IF chip \notin Ao!Offering(R, c.size) THEN no(422)
          ELSE IF fails THEN no(422) ELSE answer
  BY DEF Ao!Configure
<1>2. /\ answer.status = 200 /\ answer.chip = chip /\ answer.choices = choices
      /\ answer.total = Ao!TotalOf(R, c, chip, choices)
  OBVIOUS
<1>3. no(404).status # 200 /\ no(422).status # 200
  OBVIOUS
<1>4. ~fails <=> \A g \in DOMAIN choices \cap DOMAIN given : Ao!Allows(R, c.size, chip, g, given[g])
  OBVIOUS
<1> HIDE DEF answer, no, fails
<1>5. a.status = 200 <=> Ao!Configurable(R, c) /\ chip \in Ao!Offering(R, c.size) /\ ~fails
  BY <1>1, <1>2, <1>3
<1>6. a.status = 200 => a = answer
  BY <1>1, <1>3
<1> QED BY <1>2, <1>4, <1>5, <1>6

(* What is stored of a chip is its kit of one version.                        *)
LEMMA StoredKit ==
    ASSUME Ao!OptionsAssumption, OptionsInv, NEW r \in options
    PROVE  /\ r.chip \in Chips /\ r.chip # None /\ r.chip \in Ao!Offering(options, r.size)
           /\ \E v \in 1..offer : Options(options, r.size, r.chip, Configurator[v][r.chip])
<1>1. /\ r.size \in Sizes /\ r.chip \in Ao!Asked(r.size)
      /\ \E v \in 1..offer :
            /\ Ao!Readable(Configurator[v][r.chip].offers)
            /\ Kit(options, r.size, r.chip) = Ao!KitRows(r.size, r.chip, Configurator[v][r.chip])
  BY DEF OptionsInv, Whole
<1>2. PICK v \in 1..offer :
            /\ Ao!Readable(Configurator[v][r.chip].offers)
            /\ Kit(options, r.size, r.chip) = Ao!KitRows(r.size, r.chip, Configurator[v][r.chip])
  BY <1>1
<1>3. v \in 1..Len(Configurator)
  BY <1>2 DEF OptionsInv, Ao!OptionsAssumption
<1>4. r.chip \in Named[r.size] \cap OnSpecs[r.size]
  BY <1>1 DEF Ao!Asked, Ao!OnConfigurePages, Ao!Listed
<1>5. r.chip \in UNION {Named[s] \cap OnSpecs[s] : s \in Sizes}
  BY <1>1, <1>4
<1>6. /\ "chip" \notin DOMAIN Configurator[v][r.chip].offers
      /\ \A g \in DOMAIN Configurator[v][r.chip].offers :
            IsFiniteSet(DOMAIN Configurator[v][r.chip].offers[g])
  BY <1>3, <1>5, OptionsFinite DEF Ao!OptionsAssumption
<1>7. PICK b : b = ChipRow(r.size, r.chip, Configurator[v][r.chip])
  OBVIOUS
<1>8. b \in options /\ b.size = r.size /\ b.chip = r.chip /\ b.group = "chip"
  BY <1>2, <1>7, ChipRowOf, ChipRowFields DEF Kit
<1>9. r.chip \in Ao!Offering(options, r.size)
  BY <1>8 DEF Ao!Offering
<1>10. r.chip \in Chips /\ r.chip # None
  BY <1>1, <1>4 DEF Ao!OptionsAssumption
<1> QED BY <1>2, <1>6, <1>9, <1>10 DEF Options

LEMMA QuotesHold ==
    ASSUME Ao!OptionsAssumption, OptionsInv
    PROVE  Ao!QuotesAreApples
<1>1. ASSUME NEW c \in Configs, NEW asked \in Chips \cup {None}, NEW r \in options,
             r.size = c.size, r.group # "chip",
             NEW a, a = Ao!Configure(options, c, asked, Ao!Given(r.group, r.value)), a.status = 200
      PROVE  /\ a.chip = IF asked = None THEN c.chip ELSE asked
             /\ r.group \in DOMAIN a.choices => a.choices[r.group] = r.value
             /\ \E v \in 1..offer : Ao!Sold(v, a.chip, a.choices)
                                    /\ a.total = Ao!Price(v, a.chip, a.choices)
  <2>1. PICK given : given = Ao!Given(r.group, r.value)
    OBVIOUS
  <2>2. DOMAIN given = {r.group} /\ given[r.group] = r.value
    BY <2>1 DEF Ao!Given
  <2>3. PICK chip : chip = IF asked = None THEN c.chip ELSE asked
    OBVIOUS
  <2>4. PICK choices : choices = Ao!ChoicesFor(options, c, chip, given)
    OBVIOUS
  <2>5. /\ chip \in Ao!Offering(options, c.size)
        /\ \A g \in DOMAIN choices \cap DOMAIN given : Ao!Allows(options, c.size, chip, g, given[g])
        /\ a.chip = chip /\ a.choices = choices /\ a.total = Ao!TotalOf(options, c, chip, choices)
    BY <1>1, <2>1, <2>3, <2>4, Answered
  <2>6. PICK b \in options : b.size = c.size /\ b.chip = chip
    BY <2>5 DEF Ao!Offering
  <2>7. PICK v \in 1..offer : Options(options, c.size, chip, Configurator[v][chip])
    BY <2>6, StoredKit
  <2>8. PICK kit : kit = Configurator[v][chip]
    OBVIOUS
  <2>9. /\ DOMAIN choices = DOMAIN kit.offers
        /\ \A g \in DOMAIN choices :
              IF g \in DOMAIN given THEN choices[g] = given[g]
              ELSE choices[g] \in DOMAIN kit.offers[g]
    <3>1. Options(options, c.size, chip, kit)
      BY <2>7, <2>8
    <3> QED BY <2>4, <3>1, ChoicesAre
  <2>10. \A g \in DOMAIN choices : choices[g] \in DOMAIN kit.offers[g]
    BY <2>5, <2>7, <2>8, <2>9, AllowedIsOption
  <2>11. Ao!TotalOf(options, c, chip, choices) = Ao!Price(v, chip, choices)
    BY <2>7, <2>8, <2>9, <2>10, TotalIs
  <2>12. Ao!Sold(v, chip, choices)
    BY <2>8, <2>9, <2>10 DEF Ao!Sold
  <2> QED BY <2>2, <2>3, <2>5, <2>9, <2>11, <2>12
<1>2. ASSUME NEW c \in Configs, Ao!Configurable(options, c), NEW e \in Ao!Listing(options, c),
             NEW a, a = Ao!Configure(options, c, e.chip, Ao!Given(e.group, e.value))
      PROVE  a.status = 200 /\ a.total = e.total
  <2>1. PICK r \in options :
            /\ r.size = c.size /\ r.group # "chip" /\ ~r.blocked
            /\ e = [chip |-> r.chip, group |-> r.group, value |-> r.value,
                    total |-> Ao!TotalOf(options, c, r.chip,
                                  Ao!ChoicesFor(options, c, r.chip, Ao!Given(r.group, r.value)))]
    BY DEF Ao!Listing
  <2>2. PICK given : given = Ao!Given(r.group, r.value)
    OBVIOUS
  <2>3. PICK choices : choices = Ao!ChoicesFor(options, c, r.chip, given)
    OBVIOUS
  <2>4. /\ e.chip = r.chip /\ e.group = r.group /\ e.value = r.value
        /\ e.total = Ao!TotalOf(options, c, r.chip, choices)
    BY <2>1, <2>2, <2>3
  <2>5. DOMAIN given = {r.group} /\ given[r.group] = r.value
    BY <2>2 DEF Ao!Given
  <2>6. r.chip # None /\ r.chip \in Ao!Offering(options, c.size)
    BY <2>1, StoredKit
  <2>7. Ao!Allows(options, c.size, r.chip, r.group, r.value)
    BY <2>1 DEF Ao!Allows, Ao!Of
  <2>8. \A g \in DOMAIN choices \cap DOMAIN given : Ao!Allows(options, c.size, r.chip, g, given[g])
    BY <2>5, <2>7
  <2>9. r.chip = IF e.chip = None THEN c.chip ELSE e.chip
    BY <2>4, <2>6
  <2>10. a = Ao!Configure(options, c, e.chip, given)
    BY <1>2, <2>2, <2>4
  <2> QED BY <1>2, <2>3, <2>4, <2>6, <2>8, <2>9, <2>10, Answered
<1>3. ASSUME NEW c \in Configs
      PROVE  /\ \A asked \in Chips \cup {None}, r \in {r \in options : r.size = c.size /\ r.group # "chip"} :
                    LET a == Ao!Configure(options, c, asked, Ao!Given(r.group, r.value)) IN
                    a.status = 200 =>
                        /\ a.chip = IF asked = None THEN c.chip ELSE asked
                        /\ r.group \in DOMAIN a.choices => a.choices[r.group] = r.value
                        /\ \E v \in 1..offer : Ao!Sold(v, a.chip, a.choices)
                                               /\ a.total = Ao!Price(v, a.chip, a.choices)
             /\ Ao!Configurable(options, c) =>
                    \A e \in Ao!Listing(options, c) :
                        LET a == Ao!Configure(options, c, e.chip, Ao!Given(e.group, e.value)) IN
                        a.status = 200 /\ a.total = e.total
  BY <1>1, <1>2
<1> QED BY <1>3 DEF Ao!QuotesAreApples

-----------------------------------------------------------------------------
(* What reviews say of which machine                                          *)

(* A claim that is on no machine is about its whole family.                   *)
ClaimSound(c) == (c.machine = None => c.scope = "family") /\ c.text \in Sayings
ClaimsInv == \A c \in claims \cup waiting : ClaimSound(c)

LEMMA PlacedSound ==
    ASSUME NEW about, NEW scope, NEW cands, NEW where, where = Rp!Place(about, scope, cands),
           where # None, where.machine = None
    PROVE  where.scope = "family"
<1> DEFINE f == about[1]
           config == IF cands.linked[f] # None THEN cands.linked[f] ELSE cands.sole[f]
           on(m) == [line |-> f, machine |-> m, scope |-> scope]
<1>1. where = IF about[2] # None THEN on(about[2])
              ELSE IF scope = "family" THEN on(cands.linked[f])
              ELSE IF config # None THEN on(config) ELSE None
  BY DEF Rp!Place
<1>2. \A m : on(m).machine = m /\ on(m).scope = scope
  OBVIOUS
<1> HIDE DEF on, config
<1> QED BY <1>1, <1>2

LEMMA ClaimsStep ==
    ASSUME ClaimsInv, Rp!PagesNext
    PROVE  ClaimsInv'
<1>1. ASSUME NEW links, Rp!StartPass(links) PROVE ClaimsInv'
  BY <1>1 DEF Rp!StartPass, ClaimsInv
<1>2. ASSUME NEW about, NEW scope, NEW text \in Sayings, NEW hidden,
             Rp!StoreClaim(about, scope, text, hidden)
      PROVE  ClaimsInv'
  <2>1. PICK where : where = Rp!Place(about, scope, pass.cands)
    OBVIOUS
  <2> DEFINE claim == [id |-> tick, at |-> tick, line |-> where.line, machine |-> where.machine,
                       scope |-> where.scope, text |-> text, hidden |-> hidden]
  <2>2. /\ where # None
        /\ claims' \subseteq claims \cup {claim} /\ waiting' \subseteq waiting \cup {claim}
    BY <1>2, <2>1 DEF Rp!StoreClaim
  <2>3. claim.machine = where.machine /\ claim.scope = where.scope /\ claim.text = text
    OBVIOUS
  <2> HIDE DEF claim
  <2>4. ClaimSound(claim)
    BY <2>1, <2>2, <2>3, PlacedSound DEF ClaimSound
  <2>5. \A c : ClaimSound(c)' <=> ClaimSound(c)
    BY DEF ClaimSound
  <2> QED BY <2>2, <2>4, <2>5 DEF ClaimsInv
<1>3. CASE Rp!FinishPass
  BY <1>3 DEF Rp!FinishPass, ClaimsInv
<1>4. ASSUME NEW m, NEW f, Rp!MoveMachine(m, f) \/ Rp!SetSuspended(m) PROVE ClaimsInv'
  BY <1>4 DEF Rp!MoveMachine, Rp!SetSuspended, ClaimsInv
<1> QED BY <1>1, <1>2, <1>3, <1>4 DEF Rp!PagesNext

(* A claim that a reader finds is in one of the two tiers.                    *)
LEMMA TiersCover ==
    ASSUME ClaimsInv, NEW m
    PROVE  Rp!ShowsReviews(m) <=> Rp!OwnTier(m) # {} \/ Rp!SiblingTier(m) # {}
  BY DEF ClaimsInv, ClaimSound, Rp!ShowsReviews, Rp!OwnTier, Rp!SiblingTier, Rp!Shown

LEMMA PageSource ==
    ASSUME NEW m
    PROVE  Rp!ReviewPage(m).source = IF Rp!PageTier(m) = {} THEN "none"
                                     ELSE IF Rp!OwnTier(m) # {} THEN "this_laptop"
                                     ELSE "other_configurations"
<1> DEFINE tier == Rp!PageTier(m)
           source == IF tier = {} THEN "none"
                     ELSE IF Rp!OwnTier(m) # {} THEN "this_laptop" ELSE "other_configurations"
           good == Rp!Top({c \in tier : c.text \in Praise})
           bad == Rp!Top({c \in tier : c.text \in Sayings \ Praise})
<1>1. Rp!ReviewPage(m) = [source |-> source, strengths |-> good, weaknesses |-> bad]
  BY DEF Rp!ReviewPage
<1> HIDE DEF good, bad, source
<1>2. Rp!ReviewPage(m).source = source
  BY <1>1
<1> QED BY <1>2 DEF source

LEMMA PageReads ==
    ASSUME ClaimsInv, NEW m \in Reviewed
    PROVE  /\ Rp!ShowsReviews(m) <=> Rp!ReviewPage(m).source # "none"
           /\ Rp!ReviewPage(m).source = "other_configurations" =>
                 \A c \in Rp!PageTier(m) : Rp!AppliesTo(m, c) = "other_configuration"
<1>1. Rp!PageTier(m) = {} <=> Rp!OwnTier(m) = {} /\ Rp!SiblingTier(m) = {}
  BY DEF Rp!PageTier
<1>2. Rp!ShowsReviews(m) <=> Rp!ReviewPage(m).source # "none"
  BY <1>1, TiersCover, PageSource
<1>3. ASSUME Rp!ReviewPage(m).source = "other_configurations", NEW c \in Rp!PageTier(m)
      PROVE  Rp!AppliesTo(m, c) = "other_configuration"
  <2>1. Rp!OwnTier(m) = {}
    BY <1>3, PageSource
  <2>2. c \in Rp!SiblingTier(m)
    BY <2>1 DEF Rp!PageTier
  <2> QED BY <2>2 DEF Rp!SiblingTier, Rp!Shown, Rp!AppliesTo
<1> QED BY <1>2, <1>3

LEMMA AssistantReads ==
    ASSUME ClaimsInv, NEW m \in Reviewed, NEW near, NEW e, e = Rp!AssistantEvidence(m, near)
    PROVE  /\ e.answer = "no evidence" <=> ~Rp!ShowsReviews(m)
           /\ e.answer = "cited" /\ near = Sayings => e.from = Rp!PageTier(m)
<1> DEFINE own == {c \in Rp!OwnTier(m) : c.text \in near}
           siblings == {c \in Rp!SiblingTier(m) : c.text \in near}
           says(a, from) == [answer |-> a, from |-> from]
<1>1. e = IF own # {} THEN says("cited", own)
          ELSE IF siblings # {} THEN says("cited", siblings)
          ELSE IF Rp!OwnTier(m) # {} \/ Rp!SiblingTier(m) # {} THEN says("not relevant", {})
          ELSE says("no evidence", {})
  BY DEF Rp!AssistantEvidence
<1>2. \A a, from : says(a, from).answer = a /\ says(a, from).from = from
  OBVIOUS
<1>3. (own # {} => Rp!OwnTier(m) # {}) /\ (siblings # {} => Rp!SiblingTier(m) # {})
  OBVIOUS
<1>4. near = Sayings => own = Rp!OwnTier(m) /\ siblings = Rp!SiblingTier(m)
  BY DEF ClaimsInv, ClaimSound, Rp!OwnTier, Rp!SiblingTier, Rp!Shown
<1> HIDE DEF own, siblings, says
<1>5. e.answer = "no evidence" <=> ~Rp!ShowsReviews(m)
  <2>1. Rp!ShowsReviews(m) <=> Rp!OwnTier(m) # {} \/ Rp!SiblingTier(m) # {}
    BY TiersCover
  <2>2. e.answer = IF own # {} \/ siblings # {} THEN "cited"
                   ELSE IF Rp!OwnTier(m) # {} \/ Rp!SiblingTier(m) # {} THEN "not relevant"
                   ELSE "no evidence"
    BY <1>1, <1>2
  <2> QED BY <1>3, <2>1, <2>2
<1>6. e.answer = "cited" /\ near = Sayings => e.from = Rp!PageTier(m)
  BY <1>1, <1>2, <1>4 DEF Rp!PageTier
<1> QED BY <1>5, <1>6

LEMMA PagesAgree ==
    ASSUME ClaimsInv
    PROVE  Rp!PagesAgree
<1>1. ASSUME NEW m \in Reviewed, NEW near \in SUBSET Sayings
      PROVE  LET e == Rp!AssistantEvidence(m, near) IN
             /\ e.answer = "no evidence" <=> ~Rp!ShowsReviews(m)
             /\ e.answer = "cited" /\ near = Sayings => e.from = Rp!PageTier(m)
  BY AssistantReads
<1>2. Rp!Coverage.with_reviews = Rp!Cardinality({m \in Reviewed \ suspended : Rp!ShowsReviews(m)})
  BY Zenon DEF Rp!Coverage
<1>3. {m \in Reviewed \ suspended : Rp!ShowsReviews(m)}
          = {m \in Reviewed \ suspended : Rp!ReviewPage(m).source # "none"}
  BY PageReads
<1> QED BY <1>1, <1>2, <1>3, PageReads DEF Rp!PagesAgree

(* A set of numbers has a least one.                                          *)
LEMMA Least ==
    ASSUME NEW T, T \subseteq Nat, T # {}
    PROVE  \E x \in T : \A y \in T : x <= y
<1> DEFINE R == OpToRel(<, Nat)
<1>1. IsWellFoundedOn(R, Nat)
  BY NatLessThanWellFounded
<1>2. \A x, y \in Nat : y < x => <<y, x>> \in R
  BY DEF OpToRel
<1> HIDE DEF R
<1>3. PICK x \in T : \A y \in T : ~(<<y, x>> \in R)
  BY <1>1, WFMin
<1>4. \A y \in T : ~(y < x)
  BY <1>2, <1>3
<1> QED BY <1>4

(* The price decides nothing, and where a family can be told apart its first  *)
(* configuration is offered.                                                  *)
LEMMA PriceIgnored ==
    ASSUME NEW columns, NEW n
    PROVE  Rp!Separability(columns \ {"price"}, n) = Rp!Separability(columns, n)
<1>1. (columns \ {"price"}) \ {"price"} = columns \ {"price"}
  OBVIOUS
<1> QED BY <1>1 DEF Rp!Separability

LEMMA FirstIsOffered ==
    ASSUME Rp!PagesAssumption, NEW f
    PROVE  Rp!OfferedOf(f) # {} <=>
               Rp!Separability(Rp!Differing(Rp!Linkable(f)), Rp!Cardinality(Rp!Linkable(f))) = "separable"
<1> DEFINE M == Rp!Linkable(f)
           n == Rp!Cardinality(M)
           columns == Rp!Differing(M) \ {"price"}
           offered == {m \in M : \A k \in M : k < m => Rp!LabelOf(k, columns) # Rp!LabelOf(m, columns)}
<1>1. Rp!OfferedOf(f) = IF Rp!Separability(columns, n) # "separable" THEN {} ELSE offered
  BY DEF Rp!OfferedOf
<1>2. Rp!Separability(columns, n) = Rp!Separability(Rp!Differing(M), n)
  BY PriceIgnored
<1>3. Rp!Separability(columns, n) = "separable" => n # 0
  BY DEF Rp!Separability
<1>4. M \subseteq Nat
  BY DEF Rp!Linkable, Rp!Members, Rp!PagesAssumption
<1>5. n # 0 => M # {}
  BY ReviewsCount, FS_EmptySet
<1> HIDE DEF M, n, columns
<1>6. M # {} => offered # {}
  <2> SUFFICES ASSUME M # {} PROVE offered # {}
    OBVIOUS
  <2>1. PICK x \in M : \A y \in M : x <= y
    BY <1>4, Least
  <2>2. \A y \in M : ~(y < x)
    BY <1>4, <2>1
  <2> QED BY <2>1, <2>2
<1> HIDE DEF offered
<1> QED BY <1>1, <1>2, <1>3, <1>5, <1>6 DEF n, M

LEMMA ScreenReads ==
    ASSUME Rp!PagesAssumption, NEW f \in Lines, NEW matched,
           NEW screen, screen = Rp!FamilyConfigs(f, matched)
    PROVE  /\ screen.separable = "separable" <=> Rp!OfferedOf(f) # {}
           /\ \A e \in screen.evidence : e.machines # {} /\ e.machines \subseteq screen.rows
<1> DEFINE M == Rp!Linkable(f)
           columns == Rp!Differing(M)
           excluded == Rp!Cardinality(Rp!Members(f) \cap suspended)
           separable == Rp!Separability(columns, Rp!Cardinality(M))
           evidence == Rp!Evidence(M, columns, matched)
           doubtful == Rp!Indistinguishable(M, columns)
<1>1. screen = [rows |-> M, excluded |-> excluded, separable |-> separable,
                evidence |-> evidence, doubtful |-> doubtful]
  BY DEF Rp!FamilyConfigs
<1>2. separable = "separable" <=> Rp!OfferedOf(f) # {}
  BY FirstIsOffered
<1>3. ASSUME NEW e \in evidence PROVE e.machines # {} /\ e.machines \subseteq M
  <2>1. PICK p \in Rp!Probes(M, columns) :
            e = [column |-> p[1], machines |-> {m \in M : Specs[m][p[1]] = p[2]}]
    BY <1>3 DEF Rp!Evidence
  <2>2. PICK m \in M : \E c \in columns : p = <<c, Specs[m][c]>>
    BY <2>1 DEF Rp!Probes
  <2>3. e.machines = {k \in M : Specs[k][p[1]] = p[2]}
    BY <2>1
  <2>4. m \in e.machines
    BY <2>2, <2>3
  <2> QED BY <2>3, <2>4
<1> HIDE DEF M, excluded, separable, evidence, doubtful
<1>4. screen.rows = M /\ screen.separable = separable /\ screen.evidence = evidence
  BY <1>1
<1> QED BY <1>2, <1>3, <1>4

LEMMA ScreenAgrees ==
    ASSUME Rp!PagesAssumption
    PROVE  Rp!ScreenAndRunAgree
  BY ScreenReads DEF Rp!ScreenAndRunAgree

-----------------------------------------------------------------------------
(* PickScore                                                                  *)

(* What no action of PickScore changes, and what may be for sale.             *)
Catalogued == machine \in [Models -> Machines] /\ onSale \subseteq Models

(* Division is monotone in the dividend, and keeps a multiple.                *)
LEMMA TimesGrows ==
    ASSUME NEW d \in Nat, NEW a \in Int, NEW b \in Int, a <= b
    PROVE  d * a <= d * b /\ d * a \in Int /\ d * b \in Int
  OBVIOUS

LEMMA DivGrows ==
    ASSUME NEW a \in Int, NEW b \in Int, NEW d \in Nat, d > 0, a <= b
    PROVE  a \div d <= b \div d /\ a \div d \in Int /\ b \div d \in Int
<1>1. PICK q \in Int, r \in Int : a = d * q + r /\ 0 <= r /\ r < d /\ q = a \div d
  OBVIOUS
<1>2. PICK p \in Int, s \in Int : b = d * p + s /\ 0 <= s /\ s < d /\ p = b \div d
  OBVIOUS
<1>3. q <= p
  <2> SUFFICES ASSUME p + 1 <= q PROVE FALSE
    OBVIOUS
  <2>1. d * (p + 1) <= d * q
    BY TimesGrows
  <2>2. d * (p + 1) = d * p + d
    OBVIOUS
  <2> QED BY <1>1, <1>2, <2>1, <2>2
<1> QED BY <1>1, <1>2, <1>3

LEMMA DivOfTimes ==
    ASSUME NEW a \in Int, NEW d \in Nat, d > 0
    PROVE  (a * d) \div d = a
  OBVIOUS

(* A rounded quotient grows with the dividend.                                *)
LEMMA RoundedGrows ==
    ASSUME NEW a \in Int, NEW b \in Int, NEW d \in Nat, d > 0, a <= b
    PROVE  Rounded(a, d) <= Rounded(b, d)
<1> DEFINE q == a \div d
           p == b \div d
           r == 2 * (a % d)
           s == 2 * (b % d)
<1>1. q \in Int /\ p \in Int /\ q <= p
  BY DivGrows
<1>2. a = d * q + (a % d) /\ b = d * p + (b % d) /\ a % d \in Int /\ b % d \in Int
  OBVIOUS
<1>3. q = p => r <= s
  BY <1>1, <1>2
<1>4. Rounded(a, d) = IF r > d \/ (r = d /\ q % 2 = 1) THEN q + 1 ELSE q
  BY DEF Rounded
<1>5. Rounded(b, d) = IF s > d \/ (s = d /\ p % 2 = 1) THEN p + 1 ELSE p
  BY DEF Rounded
<1>6. r \in Int /\ s \in Int
  BY <1>2
<1> HIDE DEF q, p, r, s
<1> QED BY <1>1, <1>3, <1>4, <1>5, <1>6

(* The greatest of a set that has one, and of a finite set of naturals.       *)
LEMMA MaxIs ==
    ASSUME NEW S, NEW x \in S, \A y \in S : x >= y
    PROVE  Max(S) \in S /\ \A y \in S : Max(S) >= y
  BY DEF Max
LEMMA MinIs ==
    ASSUME NEW S, NEW x \in S, \A y \in S : x =< y
    PROVE  Min(S) \in S /\ \A y \in S : Min(S) =< y
  BY DEF Min

LEMMA MaxWithZero ==
    ASSUME NEW x \in Int
    PROVE  Max({0, x}) = IF x > 0 THEN x ELSE 0
<1> DEFINE top == IF x > 0 THEN x ELSE 0
<1>1. top \in {0, x} /\ \A y \in {0, x} : top >= y
  OBVIOUS
<1>2. Max({0, x}) \in {0, x} /\ \A y \in {0, x} : Max({0, x}) >= y
  BY <1>1, MaxIs
<1> QED BY <1>2

LEMMA Greatest ==
    ASSUME NEW S, IsFiniteSet(S), S # {}, NEW v, \A x \in S : v[x] \in Nat
    PROVE  \E x \in S : \A y \in S : v[y] <= v[x]
<1> DEFINE Above(x) == {y \in S : v[y] > v[x]}
           T == {Cardinality(Above(x)) : x \in S}
<1>1. \A x \in S : IsFiniteSet(Above(x)) /\ Cardinality(Above(x)) \in Nat
  BY FS_Subset, FS_CardinalityType
<1>2. PICK x \in S : \A y \in S : Cardinality(Above(x)) <= Cardinality(Above(y))
  <2>1. T \subseteq Nat /\ T # {}
    BY <1>1
  <2> HIDE DEF Above
  <2>2. PICK t \in T : \A y \in T : t <= y
    BY <2>1, Least
  <2> QED BY <2>2
<1>3. ASSUME NEW y \in S, ~(v[y] <= v[x]) PROVE FALSE
  <2>1. v[y] > v[x] /\ v[x] \in Nat /\ v[y] \in Nat
    BY <1>3
  <2>2. Above(y) \in SUBSET Above(x) /\ y \in Above(x) /\ y \notin Above(y)
    BY <2>1
  <2>3. Cardinality(Above(y)) <= Cardinality(Above(x))
        /\ Cardinality(Above(x)) # Cardinality(Above(y))
    BY <1>1, <2>2, FS_Subset
  <2> HIDE DEF Above
  <2> QED BY <1>1, <1>2, <2>3
<1> QED BY <1>2, <1>3

(* A resolved name is a row of its table, and the marks are numbers.          *)
Resolvable(table) ==
    /\ IsFiniteSet(DOMAIN table) /\ DOMAIN table \subseteq DOMAIN Confidence
    /\ \A r \in DOMAIN table : table[r] \in Nat /\ \A name \in DOMAIN Confidence : Confidence[name][r] \in Nat

LEMMA NearestIsOne ==
    ASSUME NEW name \in DOMAIN Confidence, NEW table, Resolvable(table),
           NEW rows \in SUBSET DOMAIN table, rows # {}
    PROVE  Nearest(name, rows) \in rows
<1>1. IsFiniteSet(rows)
  BY FS_Subset DEF Resolvable
<1>2. \A r \in rows : Confidence[name][r] \in Nat
  BY DEF Resolvable
<1>3. PICK r \in rows : \A q \in rows : Confidence[name][q] <= Confidence[name][r]
  BY <1>1, <1>2, Greatest
<1> QED BY <1>3 DEF Nearest

LEMMA ResolvedIsRow ==
    ASSUME NEW name \in DOMAIN Confidence, NEW table, Resolvable(table), NEW threshold
    PROVE  ResolveBenchmark(name, table, threshold) \in DOMAIN table \cup {Unknown}
<1> DEFINE rows == DOMAIN table
<1>1. rows # {} => Nearest(name, rows) \in rows
  BY NearestIsOne
<1>2. SamePart(name, rows) # {} => Nearest(name, SamePart(name, rows)) \in rows
  BY NearestIsOne DEF SamePart
<1> HIDE DEF rows
<1>3. ResolveBenchmark(name, table, threshold) \in rows \cup {Unknown}
  BY <1>1, <1>2 DEF ResolveBenchmark, rows
<1> QED BY <1>3 DEF rows

LEMMA GpuRowIsRow ==
    ASSUME NEW gpu \in DOMAIN Confidence, NEW cpu
    PROVE  ResolveGpu(gpu, cpu).row \in DOMAIN GpuTable \cup {Unknown}
<1>1. Resolvable(GpuTable)
  BY PickScoreAssumption DEF Resolvable
<1>2. \A name \in DOMAIN Confidence : GpuRow(name) \in DOMAIN GpuTable \cup {Unknown}
  BY <1>1, ResolvedIsRow DEF GpuRow
<1>3. AsLaptop(gpu) \in DOMAIN Confidence
  <2> DEFINE rows == {r \in DOMAIN GpuTable \cap Suffixed : Canonical[r] = Canonical[gpu]}
  <2>1. rows # {} => (CHOOSE r \in rows : TRUE) \in DOMAIN Confidence
    BY <1>1 DEF Resolvable
  <2>2. Canonical[gpu] \in DOMAIN Overrides => Overrides[Canonical[gpu]] \in DOMAIN Confidence
    BY PickScoreAssumption
  <2> HIDE DEF rows
  <2> QED BY <2>1, <2>2 DEF AsLaptop, rows
<1>4. gpu \in DOMAIN AppleRow => AppleRow[gpu] \in DOMAIN Confidence
  BY PickScoreAssumption
<1>5. cpu \in DOMAIN IntegratedRow => IntegratedRow[cpu] \in DOMAIN Confidence
  BY PickScoreAssumption
<1> QED BY <1>2, <1>3, <1>4, <1>5 DEF ResolveGpu

LEMMA MarksAreNumbers ==
    ASSUME Catalogued, NEW m \in Models
    PROVE  CpuMark(m) \in Nat \cup {Unknown} /\ GpuMark(m) \in Nat \cup {Unknown}
<1> DEFINE x == machine[m]
<1>1. x \in Machines /\ x.cpu \in DOMAIN Confidence /\ x.gpu \in DOMAIN Confidence
  BY PickScoreAssumption DEF Catalogued
<1>2. Resolvable(CpuTable) /\ Resolvable(GpuTable)
  BY PickScoreAssumption DEF Resolvable
<1> HIDE DEF x
<1>3. CpuMark(m) \in Nat \cup {Unknown}
  <2> DEFINE row == ResolveBenchmark(x.cpu, CpuTable, CpuThreshold)
  <2>1. row \in DOMAIN CpuTable \cup {Unknown}
    BY <1>1, <1>2, ResolvedIsRow
  <2>2. CpuMarks[x.cpu] = IF row = Unknown THEN Unknown ELSE CpuTable[row]
    BY <1>1 DEF CpuMarks
  <2>3. CpuMark(m) = CpuMarks[x.cpu]
    BY DEF CpuMark, x
  <2> HIDE DEF row
  <2> QED BY <1>2, <2>1, <2>2, <2>3 DEF Resolvable
<1>4. GpuMark(m) \in Nat \cup {Unknown}
  <2> DEFINE row == ResolveGpu(x.gpu, x.cpu).row
             pair == <<x.gpu, x.cpu>>
  <2>1. row \in DOMAIN GpuTable \cup {Unknown}
    BY <1>1, GpuRowIsRow
  <2>2. GpuMarks[pair].mark = IF row = Unknown THEN Unknown ELSE GpuTable[row]
    <3>1. pair \in {<<y.gpu, y.cpu>> : y \in Machines}
      BY <1>1
    <3>2. pair[1] = x.gpu /\ pair[2] = x.cpu
      OBVIOUS
    <3> HIDE DEF pair
    <3> QED BY <3>1, <3>2 DEF GpuMarks
  <2>3. GpuMark(m) = GpuMarks[pair].mark
    BY DEF GpuMark, x
  <2> HIDE DEF row, pair
  <2> QED BY <1>2, <2>1, <2>2, <2>3 DEF Resolvable
<1> QED BY <1>3, <1>4

(* The value a machine is ranked by is a number or unknown.                   *)
LEMMA ValuesAreNumbers ==
    ASSUME Catalogued, NEW m \in Models, NEW f \in Ranked
    PROVE  Value(m, f) \in Nat \cup {Unknown}
<1> DEFINE x == machine[m]
<1>1. x \in Machines /\ {x.price, x.ram, x.storage} \subseteq Nat
      /\ {x.weight, x.battery} \subseteq Nat \cup {Unknown}
  BY PickScoreAssumption DEF Catalogued
<1>2. CASE f \in {"cpu", "gpu"}
  BY <1>2, MarksAreNumbers DEF Value
<1>3. CASE f = "price"
  BY <1>1, <1>3 DEF Value
<1>4. CASE f \in {"ram", "storage", "weight", "battery"}
  BY <1>1, <1>4 DEF Value
<1> QED BY <1>2, <1>3, <1>4 DEF Ranked

-----------------------------------------------------------------------------
(* The percentile of a value among the known ones.                            *)
LEMMA PercentileGrows ==
    ASSUME NEW known, IsFiniteSet(DOMAIN known), DOMAIN known # {},
           \A m \in DOMAIN known : known[m] \in Nat,
           NEW v \in Nat, NEW w \in Nat, v <= w
    PROVE  /\ Percentile(v, known) \in 0..Full
           /\ Percentile(v, known) <= Percentile(w, known)
<1> DEFINE D == DOMAIN known
           Below(x) == {m \in D : known[m] < x}
           Equal(x) == {m \in D : known[m] = x}
           b(x) == Cardinality(Below(x))
           e(x) == Cardinality(Equal(x))
           n == Cardinality(D)
           mass(x) == 2 * b(x) + e(x)
<1>1. n \in Nat /\ n > 0
  BY FS_CardinalityType, FS_EmptySet
<1>2. ASSUME NEW x \in Nat
      PROVE  /\ b(x) \in Nat /\ e(x) \in Nat /\ b(x) + e(x) <= n
             /\ IsFiniteSet(Below(x)) /\ IsFiniteSet(Equal(x))
             /\ Cardinality(Below(x) \cup Equal(x)) = b(x) + e(x)
  <2>1. IsFiniteSet(Below(x)) /\ IsFiniteSet(Equal(x))
    BY FS_Subset
  <2>2. Below(x) \cap Equal(x) = {} /\ Below(x) \cup Equal(x) \in SUBSET D
    OBVIOUS
  <2>3. b(x) \in Nat /\ e(x) \in Nat
    BY <2>1, FS_CardinalityType
  <2> HIDE DEF Below, Equal, D
  <2>4. Cardinality(Below(x) \cup Equal(x)) = b(x) + e(x) - Cardinality({})
    BY <2>1, <2>2, FS_Union
  <2>5. Cardinality(Below(x) \cup Equal(x)) <= n
    BY <2>2, FS_Subset DEF D
  <2> QED BY <2>1, <2>3, <2>4, <2>5, FS_EmptySet
<1>3. mass(v) <= mass(w)
  <2>0. /\ b(v) \in Nat /\ e(v) \in Nat /\ b(w) \in Nat /\ e(w) \in Nat
        /\ IsFiniteSet(Below(w)) /\ Cardinality(Below(v) \cup Equal(v)) = b(v) + e(v)
    BY <1>2
  <2>1. CASE v = w
    BY <2>0, <2>1
  <2>2. CASE v < w
    <3>1. Below(v) \cup Equal(v) \in SUBSET Below(w)
      BY <2>2
    <3> HIDE DEF Below, Equal
    <3>2. Cardinality(Below(v) \cup Equal(v)) <= Cardinality(Below(w))
      BY <2>0, <3>1, FS_Subset
    <3> HIDE DEF b, e
    <3>3. b(v) + e(v) <= b(w)
      BY <2>0, <3>2 DEF b
    <3> QED BY <2>0, <3>3
  <2> QED BY <2>1, <2>2
<1>4. mass(v) \in Nat /\ mass(w) \in Nat /\ mass(v) <= 2 * n /\ Full \div 2 = 1500
  <2>1. /\ b(v) \in Nat /\ e(v) \in Nat /\ b(w) \in Nat /\ e(w) \in Nat
        /\ b(v) + e(v) <= n
    BY <1>2
  <2> HIDE DEF b, e, n
  <2> QED BY <1>1, <2>1 DEF Full
<1>5. \A x : Percentile(x, known) = (mass(x) * (Full \div 2)) \div n
  BY Zenon DEF Percentile
<1> HIDE DEF D, Below, Equal, b, e, mass, n
<1>6. /\ mass(v) * 1500 \in Int /\ mass(w) * 1500 \in Int /\ 3000 * n \in Int
      /\ mass(v) * 1500 <= mass(w) * 1500 /\ mass(v) * 1500 <= 3000 * n /\ 0 <= mass(v) * 1500
  BY <1>1, <1>3, <1>4
<1>7. (mass(v) * 1500) \div n <= (mass(w) * 1500) \div n
  BY <1>1, <1>6, DivGrows
<1>8. (mass(v) * 1500) \div n <= 3000 /\ (mass(v) * 1500) \div n \in Int
  BY <1>1, <1>6, DivGrows, DivOfTimes
<1>9. 0 <= (mass(v) * 1500) \div n
  <2>1. (0 * n) \div n <= (mass(v) * 1500) \div n
    BY <1>1, <1>6, DivGrows
  <2>2. (0 * n) \div n = 0
    BY <1>1, DivOfTimes
  <2> DEFINE z == (0 * n) \div n
             y == (mass(v) * 1500) \div n
  <2>3. z <= y /\ z = 0
    BY <2>1, <2>2
  <2> HIDE DEF z, y
  <2>4. 0 <= y
    BY <2>3
  <2> QED BY <2>4 DEF y
<1>10. /\ Percentile(v, known) = (mass(v) * 1500) \div n
       /\ Percentile(w, known) = (mass(w) * 1500) \div n
  BY <1>4, <1>5
<1> QED BY <1>7, <1>8, <1>9, <1>10 DEF Full

(* A known value is ranked, the more the better or the other way round.       *)
LEMMA Built ==
    ASSUME Catalogued, NEW build, build = Build, NEW f \in Ranked,
           NEW m \in onSale, Value(m, f) # Unknown
    PROVE  /\ IsFiniteSet(DOMAIN build[f]) /\ DOMAIN build[f] # {}
           /\ \A k \in DOMAIN build[f] : build[f][k] \in Nat
<1> DEFINE known == {k \in onSale : Value(k, f) # Unknown}
<1>1. build[f] = [k \in known |-> Value(k, f)]
  BY DEF Build
<1>2. IsFiniteSet(known)
  BY FS_Subset, PickScoreAssumption DEF Catalogued
<1>3. \A k \in known : Value(k, f) \in Nat
  BY ValuesAreNumbers DEF Catalogued
<1>4. m \in known
  OBVIOUS
<1> HIDE DEF known
<1> QED BY <1>1, <1>2, <1>3, <1>4

(* Ranked the more the better, or the less.                                   *)
Up(v, f, build) == Normalize(v, f, build, FALSE)
Down(v, f, build) == Normalize(v, f, build, TRUE)

LEMMA NormalizeGrows ==
    ASSUME Catalogued, NEW build, build = Build, NEW f \in Ranked,
           NEW m \in onSale, NEW n \in onSale, Value(m, f) # Unknown, Value(n, f) # Unknown,
           Value(m, f) <= Value(n, f)
    PROVE  /\ {Up(Value(m, f), f, build), Up(Value(n, f), f, build)} \subseteq Nat
           /\ {Down(Value(m, f), f, build), Down(Value(n, f), f, build)} \subseteq Nat
           /\ Up(Value(m, f), f, build) <= Up(Value(n, f), f, build)
           /\ Down(Value(m, f), f, build) >= Down(Value(n, f), f, build)
<1> DEFINE v == Value(m, f)
           w == Value(n, f)
           p(x) == Percentile(x, build[f])
<1>1. v \in Nat /\ w \in Nat
  BY ValuesAreNumbers DEF Catalogued
<1>2. IsFiniteSet(DOMAIN build[f]) /\ DOMAIN build[f] # {} /\ \A k \in DOMAIN build[f] : build[f][k] \in Nat
  BY Built
<1>3. p(v) \in 0..Full /\ p(w) \in 0..Full /\ p(v) <= p(w)
  <2>1. v <= w
    OBVIOUS
  <2> DEFINE known == build[f]
  <2>2. IsFiniteSet(DOMAIN known) /\ DOMAIN known # {} /\ \A k \in DOMAIN known : known[k] \in Nat
    BY <1>2
  <2> HIDE DEF v, w, known
  <2>3. Percentile(v, known) \in 0..Full /\ Percentile(w, known) \in 0..Full
        /\ Percentile(v, known) <= Percentile(w, known)
    BY <1>1, <2>1, <2>2, PercentileGrows
  <2> QED BY <2>3 DEF known
<1>4. ASSUME NEW x \in {v, w} PROVE Up(x, f, build) = p(x) /\ Down(x, f, build) = Full - p(x)
  BY <1>2, <1>4 DEF Normalize, Up, Down
<1> HIDE DEF v, w, p
<1>5. /\ Up(v, f, build) = p(v) /\ Down(v, f, build) = Full - p(v)
      /\ Up(w, f, build) = p(w) /\ Down(w, f, build) = Full - p(w)
  BY <1>4
<1>6. /\ {Up(v, f, build), Up(w, f, build)} \subseteq Nat
      /\ {Down(v, f, build), Down(w, f, build)} \subseteq Nat
      /\ Up(v, f, build) <= Up(w, f, build) /\ Down(v, f, build) >= Down(w, f, build)
  <2> DEFINE a == p(v)
             b == p(w)
  <2>1. a \in 0..3000 /\ b \in 0..3000 /\ a <= b
    BY <1>3 DEF Full
  <2>2. /\ Up(v, f, build) = a /\ Down(v, f, build) = 3000 - a
        /\ Up(w, f, build) = b /\ Down(w, f, build) = 3000 - b
    BY <1>5 DEF Full
  <2> HIDE DEF a, b
  <2>3. a \in Nat /\ b \in Nat /\ 3000 - a \in Nat /\ 3000 - b \in Nat /\ 3000 - a >= 3000 - b
    BY <2>1
  <2> QED BY <2>1, <2>2, <2>3
<1> QED BY <1>6 DEF v, w

-----------------------------------------------------------------------------
(* The factors of a machine that is no worse.                                 *)
Kinds == Wishes \cup {Unknown}

LEMMA PriceNoLower ==
    ASSUME Catalogued, NEW build, build = Build, NEW w \in Kinds,
           NEW m \in onSale, NEW n \in onSale, NoWorse(m, n)
    PROVE  /\ ScorePrice(m, w, build) \in Int /\ ScorePrice(n, w, build) \in Int
           /\ ScorePrice(m, w, build) >= ScorePrice(n, w, build)
<1> DEFINE p == machine[m].price
           q == machine[n].price
           a == Down(p, "price", build)
           b == Down(q, "price", build)
           B == w.budget
           stretched(x) == Max({0, 3 * B - 2 * x})
           capped == ~(w = Unknown \/ B \in {Unknown, 0})
<1>1. p \in Nat /\ q \in Nat /\ p # 0 /\ q # 0 /\ p <= q
      /\ p = Value(m, "price") /\ q = Value(n, "price") /\ p # Unknown /\ q # Unknown
  <2>1. Value(m, "price") = IF p = 0 THEN Unknown ELSE p
    BY DEF Value
  <2>2. Value(n, "price") = IF q = 0 THEN Unknown ELSE q
    BY DEF Value
  <2>3. Value(m, "price") # Unknown /\ Value(n, "price") # Unknown /\ Value(m, "price") <= Value(n, "price")
    BY DEF NoWorse
  <2>4. p \in Nat /\ q \in Nat
    BY PickScoreAssumption DEF Catalogued
  <2> QED BY <2>1, <2>2, <2>3, <2>4
<1>2. a \in Nat /\ b \in Nat /\ a >= b
  <2>1. "price" \in Ranked
    BY DEF Ranked
  <2> QED BY <1>1, <2>1, NormalizeGrows
<1>3. ScorePrice(m, w, build) = IF capped /\ ~(p <= B) THEN (a * stretched(p)) \div B ELSE a
  BY <1>1 DEF ScorePrice, Down
<1>4. ScorePrice(n, w, build) = IF capped /\ ~(q <= B) THEN (b * stretched(q)) \div B ELSE b
  BY <1>1 DEF ScorePrice, Down
<1>5. capped => B \in Nat /\ B > 0
  BY PickScoreAssumption DEF Kinds
<1>6. a \in Nat /\ b \in Nat
  BY <1>2
<1> HIDE DEF p, q, a, b, B, capped
<1>7. CASE ~capped
  BY <1>2, <1>3, <1>4, <1>6, <1>7
<1>8. CASE capped
  <2>1. B \in Nat /\ B > 0
    BY <1>5, <1>8
  <2>2. ASSUME NEW x \in Nat, x > B
        PROVE  stretched(x) \in Nat /\ stretched(x) <= B
    <3>1. 3 * B - 2 * x \in Int /\ 3 * B - 2 * x <= B
      BY <2>1, <2>2
    <3>2. stretched(x) = IF 3 * B - 2 * x > 0 THEN 3 * B - 2 * x ELSE 0
      BY <3>1, MaxWithZero
    <3> HIDE DEF stretched
    <3> QED BY <2>1, <3>1, <3>2
  <2>3. q > B => /\ (b * stretched(q)) \div B \in Int
                 /\ (b * stretched(q)) \div B <= b
    <3> SUFFICES ASSUME q > B PROVE (b * stretched(q)) \div B \in Int /\ (b * stretched(q)) \div B <= b
      OBVIOUS
    <3>1. stretched(q) \in Nat /\ stretched(q) <= B
      BY <1>1, <2>2
    <3> HIDE DEF stretched
    <3>2. b * stretched(q) <= b * B /\ b * stretched(q) \in Int /\ b * B \in Int
      BY <1>6, <2>1, <3>1, TimesGrows
    <3> QED BY <1>6, <2>1, <3>2, DivGrows, DivOfTimes
  <2>4. p > B => (a * stretched(p)) \div B \in Int /\ (b * stretched(q)) \div B <= (a * stretched(p)) \div B
    <3> SUFFICES ASSUME p > B
                 PROVE  (a * stretched(p)) \div B \in Int /\ (b * stretched(q)) \div B <= (a * stretched(p)) \div B
      OBVIOUS
    <3>0. p \in Nat /\ q \in Nat /\ p > B /\ q > B
      BY <1>1, <2>1
    <3>1. stretched(p) \in Nat /\ stretched(q) \in Nat
      BY <2>2, <3>0
    <3>2. stretched(q) <= stretched(p)
      <4>1. 3 * B - 2 * q <= 3 * B - 2 * p /\ 3 * B - 2 * q \in Int /\ 3 * B - 2 * p \in Int
        BY <1>1, <2>1
      <4> QED BY <4>1, MaxWithZero
    <3> HIDE DEF stretched
    <3>3. b * stretched(q) <= b * stretched(p) /\ b * stretched(q) \in Int /\ b * stretched(p) \in Int
      BY <1>6, <3>1, <3>2, TimesGrows
    <3>4. stretched(p) * b <= stretched(p) * a /\ stretched(p) * a \in Int
      BY <1>2, <1>6, <3>1, TimesGrows
    <3>5. b * stretched(p) = stretched(p) * b /\ a * stretched(p) = stretched(p) * a
      BY <1>6, <3>1
    <3>6. b * stretched(q) <= a * stretched(p) /\ a * stretched(p) \in Int
      BY <3>3, <3>4, <3>5
    <3> QED BY <2>1, <3>3, <3>6, DivGrows
  <2> HIDE DEF stretched
  <2> QED BY <1>1, <1>2, <1>3, <1>4, <1>6, <1>8, <2>1, <2>3, <2>4
<1> QED BY <1>7, <1>8

LEMMA RamNoLower ==
    ASSUME Catalogued, NEW build, build = Build,
           NEW m \in onSale, NEW n \in onSale, NoWorse(m, n)
    PROVE  /\ ScoreRamStorage(m, build) \in Int /\ ScoreRamStorage(n, build) \in Int
           /\ ScoreRamStorage(m, build) >= ScoreRamStorage(n, build)
<1> DEFINE ram(k) == Up(machine[k].ram, "ram", build)
           disk(k) == Up(machine[k].storage, "storage", build)
           room(k) == IF machine[k].hdd THEN Max({0, disk(k) - 450}) ELSE disk(k)
<1>1. \A k : machine[k].ram = Value(k, "ram") /\ machine[k].storage = Value(k, "storage")
  BY DEF Value
<1>2. \A k \in onSale : Value(k, "ram") # Unknown /\ Value(k, "storage") # Unknown
  BY <1>1, PickScoreAssumption DEF Catalogued
<1>3. ram(m) \in Nat /\ ram(n) \in Nat /\ ram(m) >= ram(n)
  <2>1. "ram" \in Ranked /\ Value(n, "ram") <= Value(m, "ram")
    BY <1>1, <1>2, ValuesAreNumbers DEF Ranked, NoWorse, Catalogued
  <2> QED BY <1>1, <1>2, <2>1, NormalizeGrows
<1>4. disk(m) \in Nat /\ disk(n) \in Nat /\ disk(m) >= disk(n)
  <2>1. "storage" \in Ranked /\ Value(n, "storage") <= Value(m, "storage")
    BY <1>1, <1>2, ValuesAreNumbers DEF Ranked, NoWorse, Catalogued
  <2> QED BY <1>1, <1>2, <2>1, NormalizeGrows
<1>5. \A k : ScoreRamStorage(k, build) = (3 * ram(k) + 2 * room(k)) \div 5
  BY Zenon DEF ScoreRamStorage, Up
<1>6. machine[m].hdd => machine[n].hdd
  BY DEF NoWorse
<1> HIDE DEF ram, disk
<1>7. room(m) \in Int /\ room(n) \in Int /\ room(m) >= room(n)
  <2>1. disk(m) - 450 \in Int /\ disk(n) - 450 \in Int /\ disk(m) \in Nat /\ disk(n) \in Nat
    BY <1>4
  <2> QED BY <1>4, <1>6, <2>1, MaxWithZero
<1>8. 3 * ram(n) + 2 * room(n) <= 3 * ram(m) + 2 * room(m)
      /\ 3 * ram(n) + 2 * room(n) \in Int /\ 3 * ram(m) + 2 * room(m) \in Int
  <2> HIDE DEF room
  <2> QED BY <1>3, <1>7
<1> HIDE DEF room
<1> QED BY <1>5, <1>8, DivGrows

LEMMA ScreenSame ==
    ASSUME Catalogued, NEW w \in Kinds,
           NEW m \in onSale, NEW n \in onSale, NoWorse(m, n)
    PROVE  /\ ScoreScreen(m, w) \in Int /\ ScoreScreen(m, w) = ScoreScreen(n, w)
           /\ ScoreBrand(m, w) \in Int /\ ScoreBrand(m, w) = ScoreBrand(n, w)
<1>1. machine[m].size = machine[n].size /\ machine[m].brand = machine[n].brand
  BY DEF NoWorse
<1>2. machine[m].size \in Nat
  BY PickScoreAssumption DEF Catalogued
<1>3. w # Unknown /\ w.size # Unknown => w.size \in Nat
  BY PickScoreAssumption DEF Kinds
<1> QED BY <1>1, <1>2, <1>3 DEF ScoreScreen, ScoreBrand, Full, Neutral

LEMMA FactorNoLower ==
    ASSUME Catalogued, NEW build, build = Build, NEW w \in Kinds,
           NEW m \in onSale, NEW n \in onSale, NoWorse(m, n), NEW f \in Factors
    PROVE  /\ FactorScore(m, f, w, build) \in Int /\ FactorScore(n, f, w, build) \in Int
           /\ FactorScore(m, f, w, build) >= FactorScore(n, f, w, build)
<1>1. CASE f \in {"cpu", "gpu", "battery"}
  <2>1. f \in Ranked /\ Value(m, f) # Unknown /\ Value(n, f) # Unknown
        /\ Value(m, f) \in Nat /\ Value(n, f) \in Nat /\ Value(m, f) >= Value(n, f)
    BY <1>1, ValuesAreNumbers DEF Ranked, NoWorse, Catalogued
  <2>2. /\ Up(Value(m, f), f, build) \in Nat
        /\ Up(Value(n, f), f, build) \in Nat
        /\ Up(Value(n, f), f, build) <= Up(Value(m, f), f, build)
    BY <2>1, NormalizeGrows
  <2>3. \A k : FactorScore(k, f, w, build) = Up(Value(k, f), f, build)
    BY <1>1 DEF FactorScore, Up
  <2> QED BY <2>2, <2>3
<1>2. CASE f = "portability"
  <2>1. \A k : machine[k].weight = Value(k, "weight")
    BY DEF Value
  <2>2. "weight" \in Ranked /\ Value(m, "weight") # Unknown /\ Value(n, "weight") # Unknown
        /\ Value(m, "weight") <= Value(n, "weight")
    BY DEF Ranked, NoWorse
  <2>3. /\ Down(Value(m, "weight"), "weight", build) \in Nat
        /\ Down(Value(n, "weight"), "weight", build) \in Nat
        /\ Down(Value(m, "weight"), "weight", build) >= Down(Value(n, "weight"), "weight", build)
    BY <2>2, NormalizeGrows
  <2>4. \A k : FactorScore(k, f, w, build) = Down(machine[k].weight, "weight", build)
    BY <1>2 DEF FactorScore, Down
  <2> QED BY <2>1, <2>3, <2>4
<1>3. CASE f = "price"
  <2>1. \A k : FactorScore(k, f, w, build) = ScorePrice(k, w, build)
    BY <1>3 DEF FactorScore
  <2> QED BY <2>1, PriceNoLower
<1>4. CASE f = "ram_storage"
  <2>1. \A k : FactorScore(k, f, w, build) = ScoreRamStorage(k, build)
    BY <1>4 DEF FactorScore
  <2> QED BY <2>1, RamNoLower
<1>5. CASE f = "screen_size"
  <2>1. \A k : FactorScore(k, f, w, build) = ScoreScreen(k, w)
    BY <1>5 DEF FactorScore
  <2> QED BY <2>1, ScreenSame
<1>6. CASE f = "brand"
  <2>1. \A k : FactorScore(k, f, w, build) = ScoreBrand(k, w)
    BY <1>6 DEF FactorScore
  <2> QED BY <2>1, ScreenSame
<1> QED BY <1>1, <1>2, <1>3, <1>4, <1>5, <1>6 DEF Factors

-----------------------------------------------------------------------------
(* The weights: none is negative and not all are zero.                        *)
LEMMA BoostAtLeastOne ==
    ASSUME NEW w \in Wishes, NEW f
    PROVE  Boost(w, f) \in Nat /\ Boost(w, f) >= 10
<1> DEFINE P == {p \in w.purposes \cap DOMAIN Boosts : f \in DOMAIN Boosts[p]}
           v == [p \in P |-> Boosts[p][f]]
           S == {10} \cup {Boosts[p][f] : p \in P}
<1>1. IsFiniteSet(P)
  <2>1. IsFiniteSet(w.purposes) /\ P \in SUBSET w.purposes
    BY PickScoreAssumption
  <2> QED BY <2>1, FS_Subset
<1>2. \A p \in P : v[p] \in Nat /\ v[p] = Boosts[p][f]
  BY PickScoreAssumption
<1>3. Boost(w, f) = Min({13, Max(S)})
  BY DEF Boost
<1> HIDE DEF P, v
<1>4. \E x \in S : \A y \in S : x >= y
  <2>1. CASE P = {}
    BY <2>1
  <2>2. CASE P # {}
    <3>1. PICK p \in P : \A q \in P : v[q] <= v[p]
      BY <1>1, <1>2, <2>2, Greatest
    <3>2. v[p] >= 10 => v[p] \in S /\ \A y \in S : v[p] >= y
      BY <1>2, <3>1
    <3>3. ~(v[p] >= 10) => \A y \in S : 10 >= y
      BY <1>2, <3>1
    <3> QED BY <3>2, <3>3
  <2> QED BY <2>1, <2>2
<1>5. S \subseteq Nat /\ 10 \in S
  BY <1>2
<1> HIDE DEF S
<1>6. Max(S) \in Nat /\ Max(S) >= 10
  BY <1>4, <1>5, MaxIs
<1> DEFINE ends == {13, Max(S)}
<1>7. \E x \in ends : \A y \in ends : x =< y
  BY <1>6
<1>8. Min(ends) \in ends
  <2> HIDE DEF ends
  <2> QED BY <1>7, MinIs
<1> QED BY <1>3, <1>6, <1>8

(* A profile goes with no wish, a wish with no profile.                       *)
Weighing(w, profile) ==
    \/ w = Unknown /\ profile \in [Factors -> Nat \ {0}]
    \/ w \in Wishes

LEMMA WeightsArePositive ==
    ASSUME NEW w, NEW profile, Weighing(w, profile)
    PROVE  /\ \A f \in Factors : Weight(w, profile, f) \in Nat
           /\ \E f \in Factors : Weight(w, profile, f) > 0
<1>1. CASE w = Unknown
  <2>1. profile \in [Factors -> Nat \ {0}]
    BY <1>1, PickScoreAssumption DEF Weighing
  <2>2. \A f \in Factors : Weight(w, profile, f) = 100 * profile[f]
    BY <1>1 DEF Weight
  <2>3. \A f \in Factors : Weight(w, profile, f) \in Nat /\ Weight(w, profile, f) > 0
    BY <2>1, <2>2
  <2>4. "price" \in Factors
    BY DEF Factors
  <2> QED BY <2>3, <2>4
<1>2. CASE w \in Wishes
  <2> DEFINE priority(f) == IF f \in DOMAIN w.priorities THEN w.priorities[f] ELSE 1
             carry(f) == IF f # "portability" THEN 10
                         ELSE CASE w.carry = "Yes" -> 14 [] w.carry = "No" -> 5 [] OTHER -> 10
  <2>1. w # Unknown
    BY <1>2, PickScoreAssumption
  <2>2. \A f : Weight(w, profile, f) = priority(f) * Boost(w, f) * carry(f)
    BY <2>1, Zenon DEF Weight
  <2>3. \A f : carry(f) \in Nat /\ carry(f) > 0
    OBVIOUS
  <2>4. /\ \A f : priority(f) \in Nat
        /\ \E f \in Factors : priority(f) > 0
    BY <1>2, PickScoreAssumption
  <2> HIDE DEF priority, carry
  <2>5. ASSUME NEW a \in Nat, NEW b \in Nat, NEW c \in Nat, b > 0, c > 0
        PROVE  a * b * c \in Nat /\ (a > 0 => a * b * c > 0)
    BY <2>5
  <2>6. \A f : Boost(w, f) \in Nat /\ Boost(w, f) > 0
    BY <1>2, BoostAtLeastOne
  <2> QED BY <2>2, <2>3, <2>4, <2>5, <2>6
<1> QED BY <1>1, <1>2 DEF Weighing

(* The sum of the factors grows with each of them.                            *)
LEMMA SumGrows ==
    ASSUME NEW s \in [Factors -> Int], NEW t \in [Factors -> Int], \A f \in Factors : s[f] <= t[f]
    PROVE  SumOf(s) \in Int /\ SumOf(t) \in Int /\ SumOf(s) <= SumOf(t)
  BY DEF SumOf, Factors

LEMMA SumPositive ==
    ASSUME NEW s \in [Factors -> Nat], \E f \in Factors : s[f] > 0
    PROVE  SumOf(s) \in Nat /\ SumOf(s) > 0
<1>1. \A f \in Factors : s[f] \in Nat
  OBVIOUS
<1>2. /\ s["price"] \in Nat /\ s["cpu"] \in Nat /\ s["gpu"] \in Nat /\ s["ram_storage"] \in Nat
      /\ s["portability"] \in Nat /\ s["battery"] \in Nat /\ s["screen_size"] \in Nat /\ s["brand"] \in Nat
  BY <1>1 DEF Factors
<1>3. \/ s["price"] > 0 \/ s["cpu"] > 0 \/ s["gpu"] > 0 \/ s["ram_storage"] > 0
      \/ s["portability"] > 0 \/ s["battery"] > 0 \/ s["screen_size"] > 0 \/ s["brand"] > 0
  BY DEF Factors
<1> QED BY <1>2, <1>3 DEF SumOf

(* The score itself.                                                          *)
LEMMA ScoreNoLower ==
    ASSUME Catalogued, NEW build, build = Build, NEW w, NEW profile,
           Weighing(w, profile), NEW m \in onSale, NEW n \in onSale, NoWorse(m, n)
    PROVE  PickScore(m, w, profile, build).score >= PickScore(n, w, profile, build).score
<1> DEFINE weight == [f \in Factors |-> Weight(w, profile, f)]
           parts(k) == [f \in Factors |-> weight[f] * FactorScore(k, f, w, build)]
           total == 30 * SumOf(weight)
<1>1. weight \in [Factors -> Nat] /\ SumOf(weight) \in Nat /\ SumOf(weight) > 0
  <2>1. weight \in [Factors -> Nat] /\ \E f \in Factors : weight[f] > 0
    BY WeightsArePositive
  <2> HIDE DEF weight
  <2> QED BY <2>1, SumPositive
<1>2. w \in Kinds
  BY DEF Weighing, Kinds
<1> HIDE DEF weight
<1>3. ASSUME NEW f \in Factors
      PROVE  /\ weight[f] * FactorScore(m, f, w, build) \in Int
             /\ weight[f] * FactorScore(n, f, w, build) \in Int
             /\ weight[f] * FactorScore(n, f, w, build) <= weight[f] * FactorScore(m, f, w, build)
  <2>1. weight[f] \in Nat
    BY <1>1
  <2> QED BY <1>2, <2>1, FactorNoLower, TimesGrows
<1>4. parts(m) \in [Factors -> Int] /\ parts(n) \in [Factors -> Int]
      /\ \A f \in Factors : parts(n)[f] <= parts(m)[f]
  BY <1>3
<1>5. ASSUME NEW k \in {m, n} PROVE PickScore(k, w, profile, build).score = Rounded(SumOf(parts(k)), total)
  <2>1. CpuMark(k) # Unknown /\ GpuMark(k) # Unknown
    <3>1. CpuMark(k) = Value(k, "cpu") /\ GpuMark(k) = Value(k, "gpu")
      BY DEF Value
    <3> QED BY <3>1 DEF NoWorse
  <2>2. PickScore(k, w, profile, build).score
          = IF CpuMark(k) = Unknown /\ GpuMark(k) = Unknown THEN Unknown
            ELSE Rounded(SumOf(parts(k)), total)
    BY DEF PickScore, weight
  <2> QED BY <2>1, <2>2
<1> HIDE DEF parts
<1>6. SumOf(parts(n)) \in Int /\ SumOf(parts(m)) \in Int /\ SumOf(parts(n)) <= SumOf(parts(m))
  BY <1>4, SumGrows
<1>7. total \in Nat /\ total > 0
  BY <1>1
<1> HIDE DEF total
<1>8. Rounded(SumOf(parts(n)), total) <= Rounded(SumOf(parts(m)), total)
  BY <1>6, <1>7, RoundedGrows
<1>9. Rounded(SumOf(parts(n)), total) \in Int /\ Rounded(SumOf(parts(m)), total) \in Int
  BY <1>6, <1>7 DEF Rounded
<1> QED BY <1>5, <1>8, <1>9

LEMMA Dominates == ASSUME Catalogued PROVE Dominance
<1> DEFINE build == Build
<1> HIDE DEF build
<1>1. build = Build
  BY DEF build
<1> SUFFICES ASSUME NEW m \in onSale, NEW n \in onSale, NoWorse(m, n)
             PROVE  /\ \A u \in DOMAIN Profiles : PickScore(m, Unknown, Profiles[u], Build).score
                                                 >= PickScore(n, Unknown, Profiles[u], Build).score
                    /\ \A w \in Wishes : PickScore(m, w, Unknown, Build).score
                                         >= PickScore(n, w, Unknown, Build).score
  BY Zenon DEF Dominance
<1>2. \A u \in DOMAIN Profiles : Weighing(Unknown, Profiles[u])
  BY PickScoreAssumption DEF Weighing
<1>3. \A w \in Wishes : Weighing(w, Unknown)
  BY DEF Weighing
<1> QED BY <1>1, <1>2, <1>3, ScoreNoLower

-----------------------------------------------------------------------------
(* A set in a strict total order                                              *)

StrictOrder(R, S) ==
    /\ \A x \in S : <<x, x>> \notin R
    /\ \A x, y \in S : x = y \/ <<x, y>> \in R \/ <<y, x>> \in R
    /\ \A x, y, z \in S : <<x, y>> \in R /\ <<y, z>> \in R => <<x, z>> \in R
Preceding(R, S, x) == {y \in S : <<y, x>> \in R}
ByPlace(s, R, S) ==
    /\ s = [i \in 1..Cardinality(S) |-> s[i]]
    /\ \A i \in 1..Cardinality(S) :
          (\E x \in S : Cardinality(Preceding(R, S, x)) = i - 1)
              => s[i] \in S /\ Cardinality(Preceding(R, S, s[i])) = i - 1
PlaceIn(R, S) == [x \in S |-> Cardinality(Preceding(R, S, x)) + 1]

LEMMA PlacesGrow ==
    ASSUME NEW S, IsFiniteSet(S), NEW R, StrictOrder(R, S), NEW x \in S, NEW y \in S, <<x, y>> \in R
    PROVE  PlaceIn(R, S)[x] < PlaceIn(R, S)[y]
<1> DEFINE before == Preceding(R, S, x)
           after == Preceding(R, S, y)
<1>1. before \in SUBSET after /\ x \in after /\ x \notin before
  BY DEF Preceding, StrictOrder
<1>2. IsFiniteSet(after) /\ IsFiniteSet(before)
  BY FS_Subset DEF Preceding
<1> HIDE DEF before, after
<1>3. Cardinality(before) <= Cardinality(after) /\ Cardinality(before) # Cardinality(after)
  BY <1>1, <1>2, FS_Subset
<1>4. Cardinality(before) \in Nat /\ Cardinality(after) \in Nat
  BY <1>2, FS_CardinalityType
<1>5. PlaceIn(R, S)[x] = Cardinality(before) + 1 /\ PlaceIn(R, S)[y] = Cardinality(after) + 1
  BY DEF PlaceIn, before, after
<1> QED BY <1>3, <1>4, <1>5

LEMMA PlacesAreAll ==
    ASSUME NEW S, IsFiniteSet(S), NEW R, StrictOrder(R, S)
    PROVE  PlaceIn(R, S) \in Surjection(S, 1..Cardinality(S))
<1> DEFINE n == Cardinality(S)
           place == PlaceIn(R, S)
<1>1. n \in Nat
  BY FS_CardinalityType
<1>2. ASSUME NEW x \in S PROVE place[x] \in 1..n
  <2> DEFINE before == Preceding(R, S, x)
  <2>1. before \in SUBSET S /\ x \notin before
    BY DEF Preceding, StrictOrder
  <2> HIDE DEF before
  <2>2. Cardinality(before) \in Nat /\ Cardinality(before) <= n /\ Cardinality(before) # n
    BY <2>1, FS_Subset, FS_CardinalityType
  <2>3. place[x] = Cardinality(before) + 1
    BY DEF PlaceIn, before
  <2> HIDE DEF place, n
  <2> QED BY <1>1, <2>2, <2>3
<1>3. place \in [S -> 1..n]
  <2>1. place = [x \in S |-> Cardinality(Preceding(R, S, x)) + 1]
    BY DEF PlaceIn
  <2> HIDE DEF place
  <2>2. place = [x \in S |-> place[x]]
    BY <2>1
  <2> QED BY <1>2, <2>2
<1>4. ASSUME NEW x \in S, NEW y \in S, x # y PROVE place[x] # place[y]
  <2>1. place[x] \in Nat /\ place[y] \in Nat
    BY <1>1, <1>2
  <2>2. place[x] < place[y] \/ place[y] < place[x]
    BY <1>4, PlacesGrow DEF StrictOrder
  <2> HIDE DEF place
  <2> QED BY <2>1, <2>2
<1> HIDE DEF place
<1>5. place \in Injection(S, 1..n)
  BY <1>3, <1>4 DEF Injection, IsInjective
<1>6. IsFiniteSet(1..n) /\ Cardinality(1..n) = n
  BY <1>1, FS_Interval
<1>7. place \in Surjection(S, 1..n)
  BY <1>5, <1>6, FS_Injection
<1> QED BY <1>7 DEF place

(* The sequence of a set in that order has its elements, ascending.           *)
LEMMA Ordered ==
    ASSUME NEW S, IsFiniteSet(S), NEW R, StrictOrder(R, S), NEW s, ByPlace(s, R, S)
    PROVE  /\ s \in Seq(S) /\ Len(s) = Cardinality(S)
           /\ \A x \in S : \E i \in 1..Len(s) : s[i] = x
           /\ \A i, j \in 1..Len(s) : i < j => <<s[i], s[j]>> \in R
<1> DEFINE n == Cardinality(S)
           place == PlaceIn(R, S)
<1>1. n \in Nat
  BY FS_CardinalityType
<1>2. \A x \in S : place[x] \in 1..n
  BY PlacesAreAll DEF Surjection
<1>3. \A i \in 1..n : \E x \in S : place[x] = i
  BY PlacesAreAll DEF Surjection
<1>4. ASSUME NEW x \in S, NEW i \in 1..n PROVE Cardinality(Preceding(R, S, x)) = i - 1 <=> place[x] = i
  <2>1. Cardinality(Preceding(R, S, x)) \in Nat
    BY FS_Subset, FS_CardinalityType DEF Preceding
  <2>2. place[x] = Cardinality(Preceding(R, S, x)) + 1
    BY DEF PlaceIn
  <2> HIDE DEF place
  <2> QED BY <1>1, <2>1, <2>2
<1> HIDE DEF place
<1>5. ASSUME NEW i \in 1..n PROVE s[i] \in S /\ place[s[i]] = i
  <2>2. PICK x \in S : place[x] = i
    BY <1>3
  <2>3. Cardinality(Preceding(R, S, x)) = i - 1
    BY <1>4, <2>2
  <2>4. s[i] \in S /\ Cardinality(Preceding(R, S, s[i])) = i - 1
    BY <2>3 DEF ByPlace
  <2> QED BY <1>4, <2>4
<1>6. s \in Seq(S) /\ Len(s) = n
  BY <1>1, <1>5 DEF ByPlace
<1>7. ASSUME NEW x \in S PROVE \E i \in 1..n : s[i] = x
  <2> DEFINE i == place[x]
  <2>1. i \in 1..n /\ s[i] \in S /\ place[s[i]] = place[x]
    BY <1>2, <1>5
  <2> HIDE DEF i
  <2>2. s[i] = x
    <3>1. <<s[i], x>> \in R => place[s[i]] < place[x]
      BY <2>1, PlacesGrow DEF place
    <3>2. <<x, s[i]>> \in R => place[x] < place[s[i]]
      BY <2>1, PlacesGrow DEF place
    <3>3. place[x] \in Nat
      BY <1>1, <1>2
    <3>4. <<s[i], x>> \notin R /\ <<x, s[i]>> \notin R
      BY <2>1, <3>1, <3>2, <3>3
    <3> QED BY <2>1, <3>4 DEF StrictOrder
  <2> QED BY <2>1, <2>2
<1>8. ASSUME NEW i \in 1..n, NEW j \in 1..n, i < j PROVE <<s[i], s[j]>> \in R
  <2>1. s[i] \in S /\ s[j] \in S /\ place[s[i]] = i /\ place[s[j]] = j
    BY <1>5
  <2>2. <<s[j], s[i]>> \in R => place[s[j]] < place[s[i]]
    BY <2>1, PlacesGrow DEF place
  <2>3. ~(j < i) /\ i # j
    BY <1>1, <1>8
  <2>4. s[i] # s[j] /\ <<s[j], s[i]>> \notin R
    BY <2>1, <2>2, <2>3
  <2> QED BY <2>1, <2>4 DEF StrictOrder
<1> QED BY <1>6, <1>7, <1>8

-----------------------------------------------------------------------------
(* The order of a ranking                                                     *)

(* Of two keys that differ in the last place, the first difference decides.   *)
Lower(a, b) ==
    a[1] < b[1] \/ (a[1] = b[1]
        /\ (a[2] < b[2] \/ (a[2] = b[2]
            /\ (a[3] < b[3] \/ (a[3] = b[3] /\ a[4] < b[4])))))

LEMMA FirstDecides ==
    ASSUME NEW a, NEW b, \A i \in 1..4 : a[i] \in Int /\ b[i] \in Int, a[4] # b[4], NEW j,
           j = CHOOSE d \in 1..4 : a[d] # b[d] /\ \A k \in 1..(d - 1) : a[k] = b[k]
    PROVE  a[j] < b[j] <=> Lower(a, b)
<1> DEFINE Decides(i) == a[i] # b[i] /\ \A k \in 1..(i - 1) : a[k] = b[k]
<1>1. /\ a[1] # b[1] => Decides(1)
      /\ a[1] = b[1] /\ a[2] # b[2] => Decides(2)
      /\ a[1] = b[1] /\ a[2] = b[2] /\ a[3] # b[3] => Decides(3)
      /\ a[1] = b[1] /\ a[2] = b[2] /\ a[3] = b[3] => Decides(4)
  OBVIOUS
<1>2. \E i \in 1..4 : Decides(i)
  BY <1>1
<1>3. j \in 1..4 /\ Decides(j)
  <2>1. j = CHOOSE i \in 1..4 : Decides(i)
    OBVIOUS
  <2> HIDE DEF Decides
  <2> QED BY <1>2, <2>1
<1>4. j = 1 \/ j = 2 \/ j = 3 \/ j = 4
  BY <1>3
<1>5. \A i \in 1..4 : a[i] \in Int /\ b[i] \in Int
  OBVIOUS
<1>6. CASE j = 1
  BY <1>3, <1>5, <1>6 DEF Lower
<1>7. CASE j = 2
  <2>1. a[1] = b[1] /\ a[2] # b[2]
    BY <1>3, <1>7
  <2> QED BY <1>5, <1>7, <2>1 DEF Lower
<1>8. CASE j = 3
  <2>1. a[1] = b[1] /\ a[2] = b[2] /\ a[3] # b[3]
    BY <1>3, <1>8
  <2> QED BY <1>5, <1>8, <2>1 DEF Lower
<1>9. CASE j = 4
  <2>1. a[1] = b[1] /\ a[2] = b[2] /\ a[3] = b[3]
    BY <1>3, <1>9
  <2> QED BY <1>5, <1>9, <2>1 DEF Lower
<1> QED BY <1>4, <1>6, <1>7, <1>8, <1>9

(* A key, and what decides between two rows.                                  *)
Key4(m, u) ==
    <<IF u = "gaming" /\ scoreRows[m][u].proxy THEN 1 ELSE 0,
      -scoreRows[m][u].score, machine[m].price, m>>

ScoreSound(m) ==
    \A u \in DOMAIN Profiles :
        /\ scoreRows[m][u].score \in Int \cup {Unknown}
        /\ scoreRows[m][u].proxy <=> ~Measured(m)
ScoresSound == \A m \in Models : scoreRows[m] # Unknown => ScoreSound(m)

ScoresInv == Catalogued /\ ScoresSound /\ MeasuredFirst

Rankable(u) == {m \in onSale : scoreRows[m] # Unknown /\ scoreRows[m][u].score # Unknown}

LEMMA KeysAreNumbers ==
    ASSUME Catalogued, ScoresSound, NEW u \in DOMAIN Profiles, NEW m \in Rankable(u)
    PROVE  \A i \in 1..4 : Key4(m, u)[i] \in Int
<1>1. m \in Models /\ scoreRows[m][u].score \in Int
  BY DEF Rankable, Catalogued, ScoresSound, ScoreSound
<1>2. m \in Int /\ machine[m].price \in Int
  BY <1>1, PickScoreAssumption DEF Catalogued
<1>3. /\ Key4(m, u)[1] \in Int /\ Key4(m, u)[2] \in Int
      /\ Key4(m, u)[3] \in Int /\ Key4(m, u)[4] \in Int
  BY <1>1, <1>2 DEF Key4
<1> QED BY <1>3

LEMMA PrecedesByKey ==
    ASSUME Catalogued, ScoresSound, NEW u \in DOMAIN Profiles,
           NEW m \in Rankable(u), NEW n \in Rankable(u), m # n
    PROVE  Precedes(m, n, u) <=> Lower(Key4(m, u), Key4(n, u))
<1> DEFINE a == Key4(m, u)
           b == Key4(n, u)
           j == CHOOSE d \in 1..4 : a[d] # b[d] /\ \A k \in 1..(d - 1) : a[k] = b[k]
<1>1. Precedes(m, n, u) <=> a[j] < b[j]
  BY Zenon DEF Precedes, Key4
<1>2. \A i \in 1..4 : a[i] \in Int /\ b[i] \in Int
  BY KeysAreNumbers
<1>3. a[4] # b[4]
  BY DEF Key4
<1> HIDE DEF a, b
<1>4. a[j] < b[j] <=> Lower(a, b)
  <2> DEFINE i == j
  <2>1. i = CHOOSE d \in 1..4 : a[d] # b[d] /\ \A k \in 1..(d - 1) : a[k] = b[k]
    OBVIOUS
  <2> HIDE DEF i
  <2>2. a[i] < b[i] <=> Lower(a, b)
    BY <1>2, <1>3, <2>1, FirstDecides
  <2> QED BY <2>2 DEF i
<1> QED BY <1>1, <1>4 DEF a, b

LEMMA LowerIsOrder ==
    ASSUME NEW a, NEW b, NEW c,
           \A i \in 1..4 : a[i] \in Int /\ b[i] \in Int /\ c[i] \in Int
    PROVE  /\ a[4] # b[4] => Lower(a, b) \/ Lower(b, a)
           /\ Lower(a, b) /\ Lower(b, c) => Lower(a, c)
           /\ ~Lower(a, a)
           /\ Lower(a, b) => a[1] <= b[1]
<1>1. /\ a[1] \in Int /\ a[2] \in Int /\ a[3] \in Int /\ a[4] \in Int
      /\ b[1] \in Int /\ b[2] \in Int /\ b[3] \in Int /\ b[4] \in Int
      /\ c[1] \in Int /\ c[2] \in Int /\ c[3] \in Int /\ c[4] \in Int
  OBVIOUS
<1> QED BY <1>1 DEF Lower

(* A ranking puts every measured machine before every other in gaming.        *)
LEMMA RankingSound ==
    ASSUME Catalogued, ScoresSound, NEW u \in DOMAIN Profiles, NEW r, r = Ranking(u)
    PROVE  /\ r \in Seq(Models)
           /\ u = "gaming" => \A i, j \in 1..Len(r) : i < j /\ Measured(r[j]) => Measured(r[i])
<1> DEFINE rows == Rankable(u)
           S == {m \in rows : LineLeader(m, rows, u)}
           R == {p \in S \X S : p[1] # p[2] /\ Precedes(p[1], p[2], u)}
           n == Cardinality(S)
<1>1. r = [i \in 1..n |-> CHOOSE x \in S :
               Cardinality({y \in S : y # x /\ Precedes(y, x, u)}) = i - 1]
  BY DEF Ranking, Rankable, InOrder
<1>2. S \subseteq Rankable(u) /\ S \subseteq Models
  BY DEF Rankable, Catalogued
<1>3. IsFiniteSet(S)
  BY <1>2, FS_Subset, PickScoreAssumption
<1> HIDE DEF rows, S
<1>4. \A x, y \in S : <<x, y>> \in R <=> x # y /\ Precedes(x, y, u)
  OBVIOUS
<1>5. \A x, y \in S : <<x, y>> \in R <=> x # y /\ Lower(Key4(x, u), Key4(y, u))
  BY <1>2, <1>4, PrecedesByKey
<1> HIDE DEF R
<1>6. StrictOrder(R, S)
  <2>1. ASSUME NEW x \in S, NEW y \in S PROVE x = y \/ <<x, y>> \in R \/ <<y, x>> \in R
    <3>1. \A i \in 1..4 : Key4(x, u)[i] \in Int /\ Key4(y, u)[i] \in Int
      BY <1>2, KeysAreNumbers
    <3>2. x # y => Key4(x, u)[4] # Key4(y, u)[4]
      BY DEF Key4
    <3> QED BY <1>5, <3>1, <3>2, LowerIsOrder
  <2>2. ASSUME NEW x \in S, NEW y \in S, NEW z \in S, <<x, y>> \in R, <<y, z>> \in R
        PROVE  <<x, z>> \in R
    <3>1. \A i \in 1..4 : Key4(x, u)[i] \in Int /\ Key4(y, u)[i] \in Int /\ Key4(z, u)[i] \in Int
      BY <1>2, KeysAreNumbers
    <3>2. Lower(Key4(x, u), Key4(z, u)) /\ ~Lower(Key4(x, u), Key4(x, u))
      BY <1>5, <2>2, <3>1, LowerIsOrder
    <3> QED BY <1>5, <3>2
  <2>3. \A x \in S : <<x, x>> \notin R
    BY <1>4
  <2> QED BY <2>1, <2>2, <2>3 DEF StrictOrder
<1>7. \A x \in S : Preceding(R, S, x) = {y \in S : y # x /\ Precedes(y, x, u)}
  BY <1>4 DEF Preceding
<1>8. ASSUME NEW i \in 1..n, NEW w \in S, Cardinality(Preceding(R, S, w)) = i - 1
      PROVE  r[i] \in S /\ Cardinality(Preceding(R, S, r[i])) = i - 1
  <2>1. r[i] = CHOOSE x \in S : Cardinality({y \in S : y # x /\ Precedes(y, x, u)}) = i - 1
    BY <1>1
  <2>2. Cardinality({y \in S : y # w /\ Precedes(y, w, u)}) = i - 1
    BY <1>7, <1>8
  <2>3. r[i] \in S /\ Cardinality({y \in S : y # r[i] /\ Precedes(y, r[i], u)}) = i - 1
    BY <2>1, <2>2
  <2> QED BY <1>7, <2>3
<1>9. ByPlace(r, R, S)
  BY <1>1, <1>8 DEF ByPlace
<1>10. /\ r \in Seq(S) /\ Len(r) = n
       /\ \A i, j \in 1..Len(r) : i < j => <<r[i], r[j]>> \in R
  BY <1>3, <1>6, <1>9, Ordered
<1>11. ASSUME u = "gaming", NEW i \in 1..Len(r), NEW j \in 1..Len(r), i < j, Measured(r[j])
       PROVE  Measured(r[i])
  <2>1. r[i] \in S /\ r[j] \in S /\ <<r[i], r[j]>> \in R
    BY <1>10, <1>11
  <2>2. Lower(Key4(r[i], u), Key4(r[j], u))
    BY <1>5, <2>1
  <2>3. \A k \in 1..4 : Key4(r[i], u)[k] \in Int /\ Key4(r[j], u)[k] \in Int
    BY <1>2, <2>1, KeysAreNumbers
  <2>4. Key4(r[i], u)[1] <= Key4(r[j], u)[1]
    BY <2>2, <2>3, LowerIsOrder
  <2>5. \A m \in S : Key4(m, u)[1] = IF Measured(m) THEN 0 ELSE 1
    <3>1. \A m \in S : scoreRows[m][u].proxy <=> ~Measured(m)
      BY <1>2 DEF Rankable, ScoresSound, ScoreSound
    <3>2. \A m : Key4(m, u)[1] = IF scoreRows[m][u].proxy THEN 1 ELSE 0
      BY <1>11 DEF Key4
    <3> QED BY <3>1, <3>2
  <2> QED BY <1>11, <2>1, <2>4, <2>5
<1>12. r \in Seq(Models)
  BY <1>2, <1>10
<1> QED BY <1>11, <1>12

(* The score of a stored row is a number, and its flag says what was known.   *)
LEMMA FactorIsNumber ==
    ASSUME Catalogued, NEW build, build = Build, NEW m \in onSale, NEW f \in Factors
    PROVE  FactorScore(m, f, Unknown, build) \in Int
<1>1. ASSUME NEW g \in Ranked
      PROVE  Up(Value(m, g), g, build) \in Int /\ Down(Value(m, g), g, build) \in Int
  <2>1. CASE Value(m, g) = Unknown
    BY <2>1 DEF Up, Down, Normalize, Neutral
  <2>2. CASE Value(m, g) # Unknown
    <3>1. Value(m, g) \in Nat
      BY <2>2, ValuesAreNumbers DEF Catalogued
    <3>2. Value(m, g) <= Value(m, g)
      BY <3>1
    <3> QED BY <2>2, <3>2, NormalizeGrows
  <2> QED BY <2>1, <2>2
<1>2. CASE f \in {"cpu", "gpu", "battery"}
  <2>1. FactorScore(m, f, Unknown, build) = Up(Value(m, f), f, build) /\ f \in Ranked
    BY <1>2 DEF FactorScore, Up, Ranked
  <2> QED BY <1>1, <2>1
<1>3. CASE f = "portability"
  <2>1. FactorScore(m, f, Unknown, build) = Down(machine[m].weight, "weight", build)
    BY <1>3 DEF FactorScore, Down
  <2>2. machine[m].weight = Value(m, "weight") /\ "weight" \in Ranked
    BY DEF Value, Ranked
  <2> QED BY <1>1, <2>1, <2>2
<1>4. CASE f = "price"
  <2> DEFINE p == machine[m].price
             v == IF p = 0 THEN Unknown ELSE p
  <2>1. FactorScore(m, f, Unknown, build) = Down(v, "price", build)
    BY <1>4 DEF FactorScore, ScorePrice, Down
  <2>2. v = Value(m, "price") /\ "price" \in Ranked
    BY DEF Value, Ranked
  <2> HIDE DEF v
  <2> QED BY <1>1, <2>1, <2>2
<1>5. CASE f = "ram_storage"
  <2> DEFINE ram == Up(machine[m].ram, "ram", build)
             disk == Up(machine[m].storage, "storage", build)
  <2>1. FactorScore(m, f, Unknown, build)
          = (3 * ram + 2 * (IF machine[m].hdd THEN Max({0, disk - 450}) ELSE disk)) \div 5
    BY <1>5 DEF FactorScore, ScoreRamStorage, Up
  <2>2. /\ machine[m].ram = Value(m, "ram") /\ machine[m].storage = Value(m, "storage")
        /\ "ram" \in Ranked /\ "storage" \in Ranked
    BY DEF Value, Ranked
  <2>3. ram \in Int /\ disk \in Int
    BY <1>1, <2>2
  <2> HIDE DEF ram, disk
  <2>4. disk - 450 \in Int
    BY <2>3
  <2>5. Max({0, disk - 450}) \in Int
    BY <2>4, MaxWithZero
  <2> DEFINE room == IF machine[m].hdd THEN Max({0, disk - 450}) ELSE disk
  <2>6. room \in Int
    BY <2>3, <2>5
  <2>7. FactorScore(m, f, Unknown, build) = (3 * ram + 2 * room) \div 5
    BY <2>1
  <2> HIDE DEF room
  <2> QED BY <2>3, <2>6, <2>7
<1>6. CASE f = "screen_size"
  <2>1. FactorScore(m, f, Unknown, build) = ScoreScreen(m, Unknown)
    BY <1>6 DEF FactorScore
  <2> QED BY <2>1 DEF ScoreScreen, Neutral
<1>7. CASE f = "brand"
  <2>1. FactorScore(m, f, Unknown, build) = ScoreBrand(m, Unknown)
    BY <1>7 DEF FactorScore
  <2> QED BY <2>1 DEF ScoreBrand, Neutral
<1> QED BY <1>2, <1>3, <1>4, <1>5, <1>6, <1>7 DEF Factors

LEMMA NewRowSound ==
    ASSUME Catalogued, NEW m \in onSale, NEW u \in DOMAIN Profiles,
           NEW row, row = PickScore(m, Unknown, Profiles[u], Build)
    PROVE  row.score \in Int \cup {Unknown} /\ (row.proxy <=> ~Measured(m))
<1> DEFINE build == Build
           weight == [f \in Factors |-> Weight(Unknown, Profiles[u], f)]
           parts == [f \in Factors |-> weight[f] * FactorScore(m, f, Unknown, build)]
           total == 30 * SumOf(weight)
<1>1. Weighing(Unknown, Profiles[u])
  BY PickScoreAssumption DEF Weighing
<1>2. weight \in [Factors -> Nat] /\ SumOf(weight) \in Nat /\ SumOf(weight) > 0
  <2>1. weight \in [Factors -> Nat] /\ \E f \in Factors : weight[f] > 0
    BY <1>1, WeightsArePositive
  <2> HIDE DEF weight
  <2> QED BY <2>1, SumPositive
<1>3. /\ row.score = IF CpuMark(m) = Unknown /\ GpuMark(m) = Unknown THEN Unknown
                     ELSE Rounded(SumOf(parts), total)
      /\ row.proxy = GpuFlags(m).proxy
  BY Zenon DEF PickScore
<1> HIDE DEF weight
<1>4. parts \in [Factors -> Int]
  <2>1. \A f \in Factors : weight[f] \in Nat /\ FactorScore(m, f, Unknown, build) \in Int
    BY <1>2, FactorIsNumber
  <2> HIDE DEF build
  <2>2. \A f \in Factors : weight[f] * FactorScore(m, f, Unknown, build) \in Int
    BY <2>1
  <2> QED BY <2>2
<1> HIDE DEF parts
<1>5. SumOf(parts) \in Int
  BY <1>4, SumGrows
<1>6. total \in Nat /\ total > 0
  BY <1>2
<1> HIDE DEF total
<1>7. Rounded(SumOf(parts), total) \in Int
  BY <1>5, <1>6 DEF Rounded
<1>8. GpuFlags(m).proxy <=> ~Measured(m)
  BY Zenon DEF GpuFlags, Measured
<1> QED BY <1>3, <1>7, <1>8

(* What was served stays true while no machine changes.                       *)
LEMMA ServedNext ==
    ASSUME machine' = machine
    PROVE  /\ \A m : Measured(m)' <=> Measured(m)
           /\ MeasuredFirst' <=>
                 (served'.useCase = "gaming" =>
                     \A i, j \in DOMAIN served'.ids :
                         i < j /\ Measured(served'.ids[j]) => Measured(served'.ids[i]))
  BY DEF MeasuredFirst, Measured, GpuMark, OfStandIn

LEMMA ScoresStart == ASSUME ScoreInit PROVE ScoresInv
<1>1. Catalogued
  BY DEF ScoreInit, Catalogued
<1>2. ScoresSound
  BY DEF ScoreInit, ScoresSound
<1>3. served.ids = <<>>
  BY DEF ScoreInit, Unserved
<1>4. MeasuredFirst
  BY <1>3 DEF MeasuredFirst
<1> QED BY <1>1, <1>2, <1>4 DEF ScoresInv

LEMMA ScoresStep ==
    ASSUME ScoresInv, ScoreNext
    PROVE  ScoresInv'
<1> USE DEF ScoresInv
<1>1. ASSUME Summarise PROVE ScoresInv'
  <2>1. machine' = machine /\ onSale' = onSale /\ scoreRows' = scoreRows
    BY <1>1 DEF Summarise
  <2>2. served'.ids = <<>>
    BY <1>1 DEF Summarise, Unserved
  <2>3. MeasuredFirst'
    BY <2>1, <2>2, ServedNext
  <2>4. Catalogued' /\ ScoresSound'
    BY <2>1 DEF Catalogued, ScoresSound, ScoreSound, Measured, GpuMark, OfStandIn
  <2> QED BY <2>3, <2>4
<1>2. ASSUME Recalculate PROVE ScoresInv'
  <2>1. machine' = machine /\ onSale' = onSale /\ served' = served
    BY <1>2 DEF Recalculate
  <2>2. Catalogued' /\ MeasuredFirst'
    BY <2>1 DEF Catalogued, MeasuredFirst, Measured, GpuMark, OfStandIn
  <2>3. ASSUME NEW m \in Models, scoreRows'[m] # Unknown PROVE ScoreSound(m)'
    <3>1. CASE m \in onSale
      <4>1. scoreRows'[m] = [u \in DOMAIN Profiles |-> PickScore(m, Unknown, Profiles[u], Build)]
        BY <1>2, <3>1 DEF Recalculate
      <4>2. ASSUME NEW u \in DOMAIN Profiles
            PROVE  /\ scoreRows'[m][u].score \in Int \cup {Unknown}
                   /\ scoreRows'[m][u].proxy <=> ~Measured(m)
        BY <3>1, <4>1, NewRowSound
      <4> QED BY <2>1, <4>2 DEF ScoreSound, Measured, GpuMark, OfStandIn
    <3>2. CASE m \notin onSale
      <4>1. scoreRows'[m] = scoreRows[m]
        BY <1>2, <3>2 DEF Recalculate
      <4>2. ScoreSound(m)
        BY <2>3, <4>1 DEF ScoresSound
      <4> QED BY <2>1, <4>1, <4>2 DEF ScoreSound, Measured, GpuMark, OfStandIn
    <3> QED BY <3>1, <3>2
  <2> QED BY <2>2, <2>3 DEF ScoresSound
<1>3. ASSUME NEW k \in Models, ChangeStatus(k) PROVE ScoresInv'
  <2>1. machine' = machine /\ scoreRows' = scoreRows /\ served' = served
        /\ onSale' \subseteq onSale \cup {k}
    BY <1>3 DEF ChangeStatus
  <2> QED BY <2>1 DEF Catalogued, ScoresSound, ScoreSound, MeasuredFirst, Measured, GpuMark, OfStandIn
<1>4. ASSUME NEW u \in DOMAIN Profiles, NEW limit \in 1..2, Rank(u, limit) PROVE ScoresInv'
  <2>1. machine' = machine /\ onSale' = onSale /\ scoreRows' = scoreRows
    BY <1>4 DEF Rank
  <2> DEFINE r == Ranking(u)
             k == IF Len(r) < limit THEN Len(r) ELSE limit
  <2>2. served'.useCase = u /\ served'.ids = SubSeq(r, 1, k)
    BY <1>4 DEF Rank, Unserved, First
  <2>3. /\ r \in Seq(Models)
        /\ u = "gaming" => \A i, j \in 1..Len(r) : i < j /\ Measured(r[j]) => Measured(r[i])
    BY RankingSound
  <2> HIDE DEF r
  <2>4. k \in 0..Len(r) /\ Len(r) \in Nat
    BY <2>3
  <2> HIDE DEF k
  <2>5. DOMAIN SubSeq(r, 1, k) = 1..k /\ \A i \in 1..k : SubSeq(r, 1, k)[i] = r[i]
    BY <2>3, <2>4
  <2>6. 1..k \subseteq 1..Len(r)
    BY <2>4
  <2>7. MeasuredFirst'
    BY <2>1, <2>2, <2>3, <2>5, <2>6, ServedNext
  <2>8. Catalogued' /\ ScoresSound'
    BY <2>1 DEF Catalogued, ScoresSound, ScoreSound, Measured, GpuMark, OfStandIn
  <2> QED BY <2>7, <2>8
<1> QED BY <1>1, <1>2, <1>3, <1>4 DEF ScoreNext

-----------------------------------------------------------------------------
(* The parts together: a behaviour is about one of them.                      *)

CatalogueInv ==
    /\ part = "families" => FilingInv
    /\ part = "jobs" => JobsInv
    /\ part = "scores" => ScoresInv
    /\ part = "options" => OptionsInv
    /\ part = "reviews" => ClaimsInv
    /\ part = "pages" => PagesInv

(* A step is one of the part's, or none.                                      *)
LEMMA PartSteps ==
    ASSUME [CatalogueNext]_<<part, catalogues>>
    PROVE  /\ part' = part
           /\ part = "families" => [Fa!CatalogNext]_filing
           /\ part = "jobs" => [Cj!CatalogNext]_jobs
           /\ part = "scores" => [ScoreNext]_scores
           /\ part = "options" => [Ao!OptionsNext]_shop
           /\ part = "reviews" => [Rp!PagesNext]_reviews
           /\ part = "pages" => [Sp!SavedNext]_saved
  BY DEF CatalogueNext, catalogues

(* Each part begins in its invariant.                                         *)
LEMMA CatalogueStart ==
    ASSUME CatalogueAssumption, CatalogueInit
    PROVE  CatalogueInv
<1>1. part = "families" => FilingInv
  BY DEF CatalogueInit, Fa!CatalogInit, FilingInv, Decided, Fa!Automatic, Fa!Quiet
<1>2. part = "jobs" => JobsInv
  BY JobsStart DEF CatalogueAssumption, CatalogueInit
<1>3. part = "pages" => PagesInv
  BY PagesStart DEF CatalogueAssumption, CatalogueInit
<1>4. part = "options" => OptionsInv
  BY OptionsStart DEF CatalogueAssumption, CatalogueInit
<1>5. part = "reviews" => ClaimsInv
  BY DEF CatalogueInit, Rp!PagesInit, ClaimsInv
<1>6. part = "scores" => ScoresInv
  BY ScoresStart DEF CatalogueInit
<1> QED BY <1>1, <1>2, <1>3, <1>4, <1>5, <1>6 DEF CatalogueInv

(* And stays in it.                                                           *)
LEMMA CatalogueStep ==
    ASSUME CatalogueAssumption, CatalogueInv, [CatalogueNext]_<<part, catalogues>>
    PROVE  CatalogueInv'
<1>1. part = "families" => FilingInv'
  <2>1. CASE UNCHANGED filing
    BY <2>1 DEF filing, CatalogueInv, FilingInv
  <2> QED BY <2>1, PartSteps, FilingStep DEF CatalogueAssumption, CatalogueInv
<1>2. part = "jobs" => JobsInv'
  <2>1. ASSUME UNCHANGED jobs, JobsInv PROVE JobsInv'
    BY <2>1 DEF jobs, JobsInv, RowsSound, JobSound, Computing, Counting, Cj!Read, OneScoring,
                Cj!ScoresFollowMarks
  <2> QED BY <2>1, PartSteps, JobsStep DEF CatalogueAssumption, CatalogueInv
<1>3. part = "pages" => PagesInv'
  <2>1. ASSUME UNCHANGED saved, PagesInv PROVE PagesInv'
    <3>1. QueueSound' /\ RowsApart' /\ DOMAIN batch' = Requests
      BY <2>1 DEF saved, PagesInv, QueueSound, RowsApart
    <3>2. ASSUME NEW r \in Requests, batch'[r] # None PROVE BatchSound(batch[r])'
      BY <2>1, <3>2 DEF saved, PagesInv, BatchSound, Coming
    <3> QED BY <3>1, <3>2 DEF PagesInv
  <2> QED BY <2>1, PartSteps, PagesStep DEF CatalogueAssumption, CatalogueInv
<1>4. part = "options" => OptionsInv'
  <2>1. ASSUME UNCHANGED shop, OptionsInv PROVE OptionsInv'
    BY <2>1 DEF shop, OptionsInv, FetchSound, Whole, Asking, Holding
  <2> QED BY <2>1, PartSteps, OptionsStep DEF CatalogueAssumption, CatalogueInv
<1>5. part = "reviews" => ClaimsInv'
  <2>1. ASSUME UNCHANGED reviews, ClaimsInv PROVE ClaimsInv'
    BY <2>1 DEF reviews, ClaimsInv
  <2> QED BY <2>1, PartSteps, ClaimsStep DEF CatalogueInv
<1>6. part = "scores" => ScoresInv'
  <2>1. ASSUME UNCHANGED scores, ScoresInv PROVE ScoresInv'
    BY <2>1 DEF scores, ScoresInv, Catalogued, ScoresSound, ScoreSound, MeasuredFirst,
                Measured, GpuMark, OfStandIn
  <2> QED BY <2>1, PartSteps, ScoresStep DEF CatalogueInv
<1> QED BY <1>1, <1>2, <1>3, <1>4, <1>5, <1>6, PartSteps DEF CatalogueInv

(* So every behaviour does.                                                   *)
LEMMA CatalogueAlways == ASSUME CatalogueAssumption PROVE CatalogueSpec => []CatalogueInv
  BY CatalogueStart, CatalogueStep, PTL DEF CatalogueSpec

(* A run's counts are what it stored, for any number of laptops and of runs   *)
(* beside it.                                                                 *)
THEOREM CountsAreStored == ASSUME CatalogueAssumption PROVE CatalogueSpec => []CountedIsStored
<1>1. CatalogueInv => CountedIsStored
  BY SoundCounts DEF CatalogueInv, CountedIsStored
<1> QED BY <1>1, CatalogueAlways, PTL

(* Once the recalculation that a refresh queued has completed, no score is of *)
(* older marks, whatever ran beside it.                                       *)
THEOREM ScoresAreOfTheMarks == ASSUME CatalogueAssumption PROVE CatalogueSpec => []ScoresFollowMarks
<1>1. CatalogueInv => ScoresFollowMarks
  BY SoundCounts DEF CatalogueInv, ScoresFollowMarks
<1> QED BY <1>1, CatalogueAlways, PTL

(* A target on html_uploaded, its slug its brand's own, has a page that its   *)
(* parse is handed, however batches overlapped, failed or named their pages.  *)
THEOREM QueuedTargetsHavePages == ASSUME CatalogueAssumption PROVE CatalogueSpec => []QueuedHasPage
<1>1. CatalogueInv => QueuedHasPage
  BY SoundQueue DEF CatalogueInv, QueuedHasPage, CatalogueAssumption
<1> QED BY <1>1, CatalogueAlways, PTL

(* An automatic assignment that nobody overtook joins the family that all the *)
(* laptop's siblings are in, for any number of laptops, families and editors. *)
THEOREM FamiliesAreEvident == ASSUME CatalogueAssumption PROVE CatalogueSpec => NeverGuesses
<1>1. ASSUME CatalogueInv, [CatalogueNext]_<<part, catalogues>>
      PROVE  [part = "families" => Fa!NeverGuessesStep]_filing
  <2> SUFFICES ASSUME part = "families", ~UNCHANGED filing PROVE Fa!NeverGuessesStep
    OBVIOUS
  <2> QED BY <1>1, PartSteps, StepNeverGuesses DEF CatalogueInv
<1> QED BY <1>1, CatalogueAlways, PTL DEF CatalogueSpec, NeverGuesses

(* What a batch reports is what its commit did: the rows it added, every      *)
(* document once, and no fewer targets than the queue grew by.                *)
THEOREM SummariesAreTrue == ASSUME CatalogueAssumption PROVE CatalogueSpec => SummaryIsTrue
<1>1. ASSUME CatalogueInv, [CatalogueNext]_<<part, catalogues>>
      PROVE  [part = "pages" => Sp!SummaryIsTrueStep]_saved
  <2> SUFFICES ASSUME part = "pages", ~UNCHANGED saved PROVE Sp!SummaryIsTrueStep
    OBVIOUS
  <2> QED BY <1>1, PartSteps, SummaryStep DEF CatalogueInv, CatalogueAssumption
<1> QED BY <1>1, CatalogueAlways, PTL DEF CatalogueSpec, SummaryIsTrue

(* Whatever fetches of Apple's options ran over each other, failed or were    *)
(* rolled back, a configured price is one that Apple asked for that           *)
(* configuration at one time, and a listed price is the price charged.        *)
THEOREM QuotesAreTrue == ASSUME CatalogueAssumption PROVE CatalogueSpec => []QuotesAreApples
<1>1. CatalogueInv => QuotesAreApples
  BY QuotesHold DEF CatalogueInv, QuotesAreApples, CatalogueAssumption
<1> QED BY <1>1, CatalogueAlways, PTL

(* A laptop's page, the assistant and the coverage numbers agree whether it   *)
(* has reviews, wherever claims were placed and laptops moved since; and the  *)
(* linking screen agrees with the run on what can be told apart.              *)
THEOREM ReadersNeverContradict == ASSUME CatalogueAssumption PROVE CatalogueSpec => []ReadersAgree
<1>1. CatalogueInv => ReadersAgree
  BY PagesAgree, ScreenAgrees DEF CatalogueInv, ReadersAgree, Rp!ReadersAgree, CatalogueAssumption
<1> QED BY <1>1, CatalogueAlways, PTL

(* A laptop that is no worse than another in any respect, all of it known,    *)
(* scores no lower, for whatever catalogue, tables, profiles and wishes.      *)
THEOREM BetterScoresNoLower == ASSUME CatalogueAssumption PROVE CatalogueSpec => []DominanceHolds
<1>1. CatalogueInv => DominanceHolds
  BY Dominates DEF CatalogueInv, ScoresInv, DominanceHolds
<1> QED BY <1>1, CatalogueAlways, PTL

(* A gaming ranking, of whatever scores are stored, never lists a laptop      *)
(* whose GPU was unknown or scored by a stand-in before a measured one.       *)
THEOREM MeasuredAreListedFirst == ASSUME CatalogueAssumption PROVE CatalogueSpec => []MeasuredComesFirst
<1>1. CatalogueInv => MeasuredComesFirst
  BY DEF CatalogueInv, ScoresInv, MeasuredComesFirst
<1> QED BY <1>1, CatalogueAlways, PTL
=============================================================================
