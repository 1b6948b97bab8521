-------------------------- MODULE LaptopPriceProofs --------------------------
(* Proofs about LaptopPrice, for any number of batches, requests, admins and  *)
(* guide prices, any first rows, and any number of edits, failures and        *)
(* crashes.                                                                   *)
EXTENDS LaptopPrice, TLAPS

\* Where an actor can be, and what it then has in memory.
Place == {"idle", "queued", "plan", "llm", "look", "save", "refresh", "record", "mark", "sources"}
Goal == Status \cup {"keep"}
Op == [at : Place, seen : Row, found : Amount, goal : Goal, pay : BOOLEAN]

TypeOK ==
    /\ brand \in Brand
    /\ row \in Row
    /\ newest \in Newest
    /\ raw \in {"pending", "failed", "completed"}
    /\ op \in [Actor -> Op]
    /\ edits \in 0..MaxEdits /\ guides \in 0..MaxGuides
    /\ singles \in 0..MaxSingles /\ faults \in 0..MaxFaults
    /\ origin \in Source \cup {"raced"}
    /\ fresh \subseteq Actor

\* Who a price's history row, still to come, will name.
Setter(a) == IF a \in Run THEN "page" ELSE "manual"

\* The price of an actor that still owes a history row, and what the row will state.
Debt(a) ==
    /\ row.price # 0 => origin = Setter(a)
    /\ op[a].at = "record" => op[a].found = row.price

\* What an actor read is what is stored.
Read(a) ==
    \/ op[a].at = "mark" /\ ~op[a].pay
    \/ /\ op[a].at \in {"plan", "llm", "look", "save", "sources"}
       /\ op[a].seen = row
       /\ op[a].pay => op[a].found # row.price

\* A decision made on a history row read earlier still agrees with who set the price.
Decided(a) ==
    /\ a = Apply /\ op[a].at = "save" => origin = "guide"
    /\ a \in Run /\ op[a].pay => origin \in Replaceable \ {"none"}

\* What holds of one actor.
Knows(a) ==
    /\ a \in fresh => Read(a)
    /\ op[a].at = "plan" \/ op[a].pay => brand = "apple"
    /\ op[a].pay => op[a].found # 0
    /\ a \in Guide /\ op[a].at \in {"sources", "save"} => op[a].found # 0
    /\ a \in Guide /\ op[a].at = "save" => op[a].found # op[a].seen.price
    /\ a \in Editor /\ op[a].at = "save" => op[a].goal # "keep"
    /\ ~Raced /\ Owes(a) => Debt(a)
    /\ ~Raced /\ a \in fresh /\ row.price # 0 => Decided(a)

\* No two history rows are due at once, and none while some reads are good.
OneDebt ==
    /\ ~Raced => \A a, b \in Actor : Owes(a) /\ Owes(b) => a = b
    /\ fresh # {} => \A a \in Actor : ~Owes(a)

\* A history without rows has no price.
NoneIsNone == newest.source = "none" => newest.price = 0

\* The inductive invariant.
PriceInv == /\ TypeOK /\ OneDebt /\ NoneIsNone /\ HistoryAgrees /\ UnpricedNotActive
            /\ \A a \in Actor : Knows(a)

-----------------------------------------------------------------------------
(* Steps.                                                                     *)

Tallies ==
    /\ raw \in {"pending", "failed", "completed"}
    /\ edits \in 0..MaxEdits /\ guides \in 0..MaxGuides
    /\ singles \in 0..MaxSingles /\ faults \in 0..MaxFaults

\* a goes on without writing: it may read, decide, or find nothing to record.
Moves(a) ==
    /\ UNCHANGED <<brand, row, newest, origin>> /\ Tallies'
    /\ \E o \in Op : op' = [op EXCEPT ![a] = o]
    /\ fresh' \subseteq fresh \cup {a}
    /\ a \in fresh' \ fresh => \A b \in Actor : ~Owes(b)
    /\ Owes(a)' => Owes(a)
    /\ ~Raced /\ Owes(a) /\ ~Owes(a)' => row.price = 0
    /\ Knows(a)'

\* a commits target: with the price as it was, with its history row, or with the history
\* row still to come.
CommitsAs(a, target, source, o) ==
    /\ Commit(a, target, source) /\ Tallies' /\ brand' = brand
    /\ op[a].at = "save" /\ op' = [op EXCEPT ![a] = o]
    /\ ~o.pay
    /\ target.price = 0 => target.status # "active"
    /\ \/ /\ target.price = op[a].seen.price
          /\ newest' = newest /\ o.at \in {"idle", "mark"}
       \/ /\ Writes(a, target) /\ target.price # 0 /\ source # "none"
          /\ a \in fresh => target.price # op[a].seen.price
          /\ newest' = [price |-> target.price, source |-> source]
          /\ o.at \in {"idle", "mark"}
       \/ /\ Writes(a, target) /\ source = Setter(a)
          /\ target.price = op[a].seen.price => target.price = 0
          /\ newest' = newest /\ o.at \in {"refresh", "record"}
          /\ o.at = "record" => o.found = target.price

Commits(a) == \E target \in Row, source \in Source, o \in Op : CommitsAs(a, target, source, o)

\* What an actor starts or ends with is typed, and knows nothing.
LEMMA Plain ==
    ASSUME PriceAssumption, NEW place \in Place
    PROVE  [Idle EXCEPT !.at = place] \in Op /\ [Idle EXCEPT !.at = place].pay = FALSE
           /\ [Idle EXCEPT !.at = place].at = place
           /\ [Idle EXCEPT !.at = place].seen = Absent
           /\ Idle \in Op /\ Idle.pay = FALSE /\ Idle.at = "idle" /\ Absent \in Row
<1>1. 0 \in Amount
  BY DEF Amount, PriceAssumption
<1>2. Absent \in Row
  BY <1>1 DEF Absent, Row
<1>3. Idle \in Op
  BY <1>1, <1>2 DEF Idle, Op, Place, Goal
<1> QED BY <1>2, <1>3 DEF Idle, Op

\* A step that leaves an actor with nothing in memory but its place.
LEMMA Leaves ==
    ASSUME TypeOK, NEW a \in Actor, NEW o \in Op, ~o.pay,
           o.at \in {"idle", "queued", "mark"}, op' = [op EXCEPT ![a] = o],
           UNCHANGED <<brand, row, newest, origin>>, Tallies',
           fresh' \subseteq fresh, a \in fresh' => o.at = "mark",
           ~Owes(a) \/ row.price = 0
    PROVE  Moves(a)
<1>1. op'[a] = o
  BY DEF TypeOK
<1>2. ~Owes(a)'
  BY <1>1 DEF Owes
<1>3. Knows(a)'
  BY <1>1, <1>2 DEF Knows, Read, Decided, Guide, Raced
<1> QED BY <1>2, <1>3 DEF Moves

\* A step that reads the row.
LEMMA Reading ==
    ASSUME TypeOK, NEW a \in Actor, NEW o \in Op, ~o.pay, o.seen = row,
           o.at \in {"plan", "save", "sources"}, o.at = "plan" => brand = "apple",
           a \in Guide => o.at # "save" /\ o.found # 0,
           a \in Editor => o.goal # "keep",
           op' = [op EXCEPT ![a] = o], ~Owes(a), Reads(a),
           UNCHANGED <<brand, row, newest, origin>>, Tallies'
    PROVE  Moves(a)
<1>1. op'[a] = o
  BY DEF TypeOK
<1>2. ~Owes(a)'
  BY <1>1 DEF Owes
<1>3. fresh' \subseteq fresh \cup {a} /\ (a \in fresh' \ fresh => \A b \in Actor : ~Owes(b))
  BY DEF Reads
<1>4. Apply \in Guide
  BY DEF Guide
<1>5. Knows(a)'
  BY <1>1, <1>2, <1>4 DEF Knows, Read, Decided, Raced
<1> QED BY <1>2, <1>3, <1>5 DEF Moves

\* Who is who.
LEMMA Roles ==
    ASSUME PriceAssumption
    PROVE  /\ \A r \in Run : r \notin Guide /\ r \notin Editor /\ r # Apply /\ r \in Actor
           /\ \A e \in Editor : e \notin Run /\ e \notin Guide /\ e # Apply /\ e \in Actor
           /\ \A g \in Guide : g \notin Run /\ g \notin Editor /\ g \in Actor
           /\ Batch \subseteq Run /\ Single \subseteq Run /\ Apply \in Guide /\ User \subseteq Guide
  BY DEF PriceAssumption, Actor, Guide, Run

\* A step that leaves the bounds' counters alone, or counts one up, keeps their types.
LEMMA TalliesKept ==
    ASSUME PriceAssumption, TypeOK,
           raw' = raw \/ raw' \in {"failed", "completed"},
           edits' = edits \/ (edits < MaxEdits /\ edits' = edits + 1),
           guides' = guides \/ (guides < MaxGuides /\ guides' = guides + 1),
           singles' = singles \/ (singles < MaxSingles /\ singles' = singles + 1),
           faults' = faults \/ (faults < MaxFaults /\ faults' = faults + 1)
    PROVE  Tallies'
<1> USE DEF PriceAssumption, TypeOK
<1>1. edits' \in 0..MaxEdits
  OBVIOUS
<1>2. guides' \in 0..MaxGuides
  OBVIOUS
<1>3. singles' \in 0..MaxSingles
  OBVIOUS
<1>4. faults' \in 0..MaxFaults
  OBVIOUS
<1> QED BY <1>1, <1>2, <1>3, <1>4 DEF Tallies

\* What an extraction run does up to its commit, and after its history row, is a move.
LEMMA RunMoves ==
    ASSUME PriceAssumption, PriceInv, NEW r \in Run,
           Begin(r) \/ Plan(r) \/ Answer(r) \/ Look(r) \/ Mark(r) \/ LlmFails(r) \/ Collide(r)
    PROVE  Moves(r)
<1>1. r \in Actor /\ r \notin Guide /\ r \notin Editor /\ r # Apply
  BY Roles
<1>2. TypeOK /\ op[r] \in Op /\ Knows(r)
  BY <1>1 DEF PriceInv, TypeOK
<1>3. CASE Begin(r)
  <2>1. Tallies'
    BY <1>2, <1>3, TalliesKept DEF Begin, bounds
  <2>2. CASE brand = "asus"
    <3>1. op' = [op EXCEPT ![r].at = "llm"] /\ fresh' = fresh
          /\ UNCHANGED <<brand, row, newest, origin>> /\ op[r].at = "queued"
      BY <1>3, <2>2 DEF Begin, Goto
    <3> DEFINE o == [op[r] EXCEPT !.at = "llm"]
    <3>2. o \in Op /\ op' = [op EXCEPT ![r] = o] /\ op'[r] = o
      BY <1>1, <1>2, <3>1 DEF Op, Place, TypeOK
    <3>3. r \notin fresh
      BY <1>2, <3>1 DEF Knows, Read
    <3>4. o.pay = op[r].pay /\ o.found = op[r].found /\ o.at = "llm"
      BY <1>2 DEF Op
    <3>5. Knows(r)' /\ ~Owes(r) /\ ~Owes(r)'
      BY <1>1, <1>2, <3>1, <3>2, <3>3, <3>4 DEF Knows, Owes
    <3> QED BY <2>1, <3>1, <3>2, <3>5 DEF Moves
  <2>3. CASE brand = "apple"
    <3>1. PICK p \in Amount :
             op' = [op EXCEPT ![r] = [Idle EXCEPT !.at = "plan", !.seen = row, !.found = p]]
      BY <1>3, <2>3 DEF Begin
    <3> DEFINE o == [Idle EXCEPT !.at = "plan", !.seen = row, !.found = p]
    <3>2. o \in Op /\ ~o.pay /\ o.seen = row /\ o.at = "plan"
      BY <1>2, Plain DEF Op, Idle, Place, TypeOK
    <3>3. ~Owes(r) /\ Reads(r) /\ UNCHANGED <<brand, row, newest, origin>>
      BY <1>3, <2>3 DEF Begin, Owes
    <3> QED BY <1>1, <1>2, <2>1, <2>3, <3>1, <3>2, <3>3, Reading
  <2> QED BY <1>2, <2>2, <2>3 DEF TypeOK, Brand
<1>4. CASE Plan(r)
  <2> DEFINE c == op[r]
             pay == /\ c.found \notin {0, c.seen.price}
                    /\ c.seen.price = 0 \/ newest.source \in Replaceable
             goal == IF c.seen.status = "discontinued" THEN "active" ELSE "keep"
             o == [c EXCEPT !.at = "llm", !.pay = pay, !.goal = goal]
  <2>1. c.at = "plan" /\ UNCHANGED <<brand, row, newest, origin, fresh>> /\ Tallies'
    BY <1>2, <1>4, TalliesKept DEF Plan, bounds, history
  <2>2. op' = [op EXCEPT ![r] = o]
    BY <1>1, <1>2, <1>4 DEF Plan, TypeOK, Op
  <2>3. pay \in BOOLEAN /\ goal \in Goal
    BY DEF Goal, Status
  <2>4. o \in Op /\ o.at = "llm" /\ o.pay = pay /\ o.found = c.found /\ o.seen = c.seen
    BY <1>2, <2>3 DEF Op, Place
  <2>5. op'[r] = o
    BY <1>1, <1>2, <2>2 DEF TypeOK
  <2>6. ASSUME ~Raced, r \in fresh, row.price # 0, pay PROVE origin \in Replaceable \ {"none"}
    <3>1. c.seen = row
      BY <1>2, <2>1, <2>6 DEF Knows, Read
    <3>2. newest = [price |-> row.price, source |-> origin]
      BY <2>6 DEF PriceInv, OneDebt, HistoryAgrees
    <3>3. newest.source \in Replaceable /\ newest.source # "none"
      BY <2>6, <3>1, <3>2 DEF PriceInv, NoneIsNone
    <3> QED BY <3>2, <3>3
  <2>7. Knows(r)' /\ ~Owes(r) /\ ~Owes(r)'
    BY <1>1, <1>2, <2>1, <2>4, <2>5, <2>6 DEF Knows, Owes, Read, Decided, Raced
  <2> QED BY <2>1, <2>2, <2>4, <2>7 DEF Moves
<1>5. CASE Answer(r)
  <2>1. op[r].at = "llm" /\ UNCHANGED <<brand, row, newest, origin, fresh>> /\ Tallies'
    BY <1>2, <1>5, TalliesKept DEF Answer, bounds, history
  <2>2. CASE Settle(r)
    <3>1. op' = [op EXCEPT ![r] = [Idle EXCEPT !.at = "mark"]]
      BY <2>2 DEF Settle, GoOn
    <3> QED BY <1>1, <1>2, <2>1, <3>1, Plain, Leaves DEF Place, Owes
  <2>3. CASE \E p \in Amount : brand = "asus" /\ op' = [op EXCEPT ![r].at = "look", ![r].found = p]
    <3>1. PICK p \in Amount : op' = [op EXCEPT ![r].at = "look", ![r].found = p]
      BY <2>3
    <3> DEFINE o == [op[r] EXCEPT !.at = "look", !.found = p]
    <3>2. o \in Op /\ op' = [op EXCEPT ![r] = o] /\ op'[r] = o
      BY <1>1, <1>2, <3>1 DEF Op, Place, TypeOK
    <3>3. o.at = "look" /\ o.pay = op[r].pay /\ o.found = p /\ o.seen = op[r].seen
      BY <1>2 DEF Op
    <3>4. ~op[r].pay
      BY <1>2, <2>3 DEF Knows
    <3>5. Knows(r)' /\ ~Owes(r) /\ ~Owes(r)'
      BY <1>1, <1>2, <2>1, <3>2, <3>3, <3>4 DEF Knows, Owes, Read, Decided, Raced
    <3> QED BY <2>1, <3>2, <3>5 DEF Moves
  <2>4. CASE \E place \in {"save", "look"} : Goto(r, place)
    <3>1. PICK place \in {"save", "look"} : op' = [op EXCEPT ![r].at = place]
      BY <2>4 DEF Goto
    <3> DEFINE o == [op[r] EXCEPT !.at = place]
    <3>2. o \in Op /\ op' = [op EXCEPT ![r] = o] /\ op'[r] = o
      BY <1>1, <1>2, <3>1 DEF Op, Place, TypeOK
    <3>3. o.at = place /\ o.pay = op[r].pay /\ o.found = op[r].found /\ o.seen = op[r].seen
      BY <1>2 DEF Op
    <3>4. Knows(r)' /\ ~Owes(r) /\ ~Owes(r)'
      BY <1>1, <1>2, <2>1, <3>2, <3>3 DEF Knows, Owes, Read, Decided, Raced
    <3> QED BY <2>1, <3>2, <3>4 DEF Moves
  <2> QED BY <1>5, <2>2, <2>3, <2>4 DEF Answer
<1>6. CASE Look(r)
  <2> DEFINE o == [op[r] EXCEPT !.at = "save", !.seen = row]
  <2>1. /\ op[r].at = "look" /\ op' = [op EXCEPT ![r] = o]
        /\ UNCHANGED <<brand, row, newest, origin>> /\ Tallies'
    BY <1>1, <1>2, <1>6, TalliesKept DEF Look, bounds, TypeOK, Op
  <2>2. o \in Op /\ o.at = "save" /\ o.seen = row /\ o.pay = op[r].pay
        /\ o.found = op[r].found /\ ~Owes(r)
    BY <1>2, <2>1 DEF Op, Place, TypeOK, Owes
  <2>3. CASE brand = "asus"
    <3>1. Reads(r) /\ ~o.pay
      BY <1>2, <1>6, <2>2, <2>3 DEF Look, Knows
    <3> QED BY <1>1, <1>2, <2>1, <2>2, <3>1, Reading
  <2>4. CASE brand # "asus"
    <3>1. fresh' = fresh /\ op'[r] = o
      BY <1>1, <1>2, <1>6, <2>1, <2>4 DEF Look, TypeOK
    <3>2. Knows(r)' /\ ~Owes(r)'
      BY <1>1, <1>2, <2>1, <2>2, <3>1 DEF Knows, Owes, Read, Decided, Raced
    <3> QED BY <2>1, <2>2, <3>1, <3>2 DEF Moves
  <2> QED BY <2>3, <2>4
<1>7. CASE Mark(r)
  <2>1. /\ op' = [op EXCEPT ![r] = Idle] /\ fresh' = fresh \ {r} /\ ~Owes(r)
        /\ UNCHANGED <<brand, row, newest, origin>> /\ Tallies'
    BY <1>2, <1>7, TalliesKept DEF Mark, Stop, Owes, bounds
  <2> QED BY <1>1, <1>2, <2>1, Plain, Leaves DEF Place
<1>8. CASE LlmFails(r)
  <2>1. /\ Stop(r) \/ GoOn(r, "queued")
        /\ fresh' = fresh \ {r} /\ ~Owes(r)
        /\ UNCHANGED <<brand, row, newest, origin>> /\ Tallies'
    BY <1>2, <1>8, TalliesKept DEF LlmFails, Owes
  <2>2. CASE Stop(r)
    BY <1>1, <1>2, <2>1, <2>2, Plain, Leaves DEF Place, Stop
  <2>3. CASE GoOn(r, "queued")
    BY <1>1, <1>2, <2>1, <2>3, Plain, Leaves DEF Place, GoOn
  <2> QED BY <2>1, <2>2, <2>3
<1>9. CASE Collide(r)
  <2>1. /\ op' = [op EXCEPT ![r] = Idle] /\ fresh' = fresh \ {r} /\ ~Owes(r)
        /\ UNCHANGED <<brand, row, newest, origin>> /\ Tallies'
    BY <1>2, <1>9, TalliesKept DEF Collide, Stop, Owes, bounds
  <2> QED BY <1>1, <1>2, <2>1, Plain, Leaves DEF Place
<1> QED BY <1>3, <1>4, <1>5, <1>6, <1>7, <1>8, <1>9

\* A history row is due for the price read now, or none is when it is gone.
LEMMA RefreshMoves ==
    ASSUME PriceAssumption, PriceInv, NEW a \in Actor, Refresh(a)
    PROVE  Moves(a)
<1>1. TypeOK /\ op[a] \in Op /\ Knows(a)
  BY DEF PriceInv, TypeOK
<1>2. /\ op[a].at = "refresh" /\ Owes(a)
      /\ UNCHANGED <<brand, row, newest, origin, fresh>> /\ Tallies'
  BY <1>1, TalliesKept DEF Refresh, Owes, bounds, history
<1>3. a \notin fresh
  BY <1>1, <1>2 DEF Knows, Read
<1>4. CASE row.price # 0
  <2> DEFINE o == [Idle EXCEPT !.at = "record", !.found = row.price]
  <2>1. op' = [op EXCEPT ![a] = o]
    BY <1>4 DEF Refresh, Owe
  <2>2. o \in Op /\ ~o.pay /\ o.at = "record" /\ o.found = row.price
    <3>1. Idle \in Op /\ Idle.pay = FALSE /\ "record" \in Place /\ row.price \in Amount
      BY <1>1, Plain DEF Place, TypeOK, Row
    <3> QED BY <3>1 DEF Op
  <2>3. op'[a] = o
    BY <1>1, <2>1 DEF TypeOK
  <2>4. Knows(a)' /\ Owes(a)'
    BY <1>1, <1>2, <1>3, <2>2, <2>3 DEF Knows, Owes, Debt, Raced
  <2> QED BY <1>2, <2>1, <2>2, <2>4 DEF Moves
<1>5. CASE row.price = 0
  <2>1. op' = [op EXCEPT ![a] = [Idle EXCEPT !.at = "mark"]] \/ op' = [op EXCEPT ![a] = Idle]
    BY <1>5 DEF Refresh, Settle, GoOn, Stop
  <2> QED BY <1>1, <1>2, <1>3, <1>5, <2>1, Plain, Leaves DEF Place
<1> QED BY <1>4, <1>5

\* Batches and requests are started, forms and guides sent, refused or set aside.
LEMMA OtherMoves ==
    ASSUME PriceAssumption, PriceInv
    PROVE  /\ \A b \in Batch : ProcessAllPending(b) \/ RetryFailed(b) => Moves(b)
           /\ \A s \in Single : ProcessOne(s) => Moves(s)
           /\ \A e \in Editor : Edit(e) \/ EditRefused(e) => Moves(e)
           /\ \A g \in Guide : GuideRead(g) \/ Sources(g) => Moves(g)
<1> TypeOK
  BY DEF PriceInv
<1>1. ASSUME NEW r \in Run, op[r].at = "idle", Goto(r, "queued"), Tallies',
             UNCHANGED <<brand, row, newest, origin, fresh>>
      PROVE  Moves(r)
  <2> DEFINE o == [op[r] EXCEPT !.at = "queued"]
  <2>1. r \in Actor /\ op[r] \in Op /\ Knows(r)
    BY Roles DEF PriceInv, TypeOK
  <2>2. o \in Op /\ o.at = "queued" /\ o.pay = op[r].pay /\ o.found = op[r].found
    BY <2>1 DEF Op, Place
  <2>3. op' = [op EXCEPT ![r] = o] /\ op'[r] = o
    BY <1>1, <2>1 DEF Goto, TypeOK, Op
  <2>4. r \notin fresh /\ ~Owes(r)
    BY <1>1, <2>1 DEF Knows, Read, Owes
  <2>5. Knows(r)' /\ ~Owes(r)'
    BY <1>1, <2>1, <2>2, <2>3, <2>4 DEF Knows, Owes
  <2> QED BY <1>1, <2>2, <2>3, <2>4, <2>5 DEF Moves
<1>2. ASSUME NEW b \in Batch, ProcessAllPending(b) \/ RetryFailed(b) PROVE Moves(b)
  <2>1. /\ op[b].at = "idle" /\ Goto(b, "queued")
        /\ UNCHANGED <<brand, row, newest, origin, fresh>> /\ Tallies'
    BY <1>2, TalliesKept DEF ProcessAllPending, RetryFailed, ProcessPending, bounds, history
  <2> QED BY <1>1, <2>1, Roles
<1>3. ASSUME NEW s \in Single, ProcessOne(s) PROVE Moves(s)
  <2>1. /\ op[s].at = "idle" /\ Goto(s, "queued")
        /\ UNCHANGED <<brand, row, newest, origin, fresh>> /\ Tallies'
    BY <1>3, TalliesKept DEF ProcessOne, history
  <2> QED BY <1>1, <2>1, Roles
<1>4. ASSUME NEW e \in Editor, Edit(e) PROVE Moves(e)
  <2>1. PICK f \in Form : op' = [op EXCEPT ![e] = [Idle EXCEPT !.at = "save", !.seen = row,
                                                   !.found = f.price, !.goal = f.status]]
    BY <1>4 DEF Edit
  <2> DEFINE o == [Idle EXCEPT !.at = "save", !.seen = row, !.found = f.price, !.goal = f.status]
  <2>2. f.price \in Amount /\ f.status \in Status
    BY DEF PriceAssumption
  <2>3. o \in Op /\ ~o.pay /\ o.seen = row /\ o.at = "save" /\ o.goal # "keep"
    BY <2>2, Plain DEF Op, Idle, Place, Goal, Status, TypeOK
  <2>4. ~Owes(e) /\ Reads(e) /\ UNCHANGED <<brand, row, newest, origin>> /\ Tallies'
    BY <1>4, TalliesKept DEF Edit, Owes
  <2> QED BY <2>1, <2>3, <2>4, Reading, Roles
<1>5. ASSUME NEW e \in Editor, EditRefused(e) PROVE Moves(e)
  <2>1. /\ op' = [op EXCEPT ![e] = Idle] /\ fresh' = fresh \ {e} /\ ~Owes(e)
        /\ UNCHANGED <<brand, row, newest, origin>> /\ Tallies'
    BY <1>5, TalliesKept DEF EditRefused, Stop, Owes, bounds
  <2> QED BY <2>1, Plain, Leaves, Roles DEF Place
<1>6. ASSUME NEW g \in Guide, GuideRead(g) PROVE Moves(g)
  <2>1. PICK p \in Amount \ {0} :
           op' = [op EXCEPT ![g] = [Idle EXCEPT !.at = "sources", !.seen = row, !.found = p]]
    BY <1>6 DEF GuideRead
  <2> DEFINE o == [Idle EXCEPT !.at = "sources", !.seen = row, !.found = p]
  <2>2. o \in Op /\ ~o.pay /\ o.seen = row /\ o.at = "sources" /\ o.found # 0
    BY Plain DEF Op, Idle, Place, TypeOK
  <2>3. ~Owes(g) /\ Reads(g) /\ UNCHANGED <<brand, row, newest, origin>> /\ Tallies'
    BY <1>6, TalliesKept DEF GuideRead, Owes
  <2> QED BY <2>1, <2>2, <2>3, Reading, Roles
<1>7. ASSUME NEW g \in Guide, Sources(g) PROVE Moves(g)
  <2>1. /\ op[g].at = "sources" /\ ~Owes(g) /\ g \notin Run /\ g \notin Editor /\ g \in Actor
        /\ UNCHANGED <<brand, row, newest, origin>> /\ Tallies'
    BY <1>7, TalliesKept, Roles DEF Sources, Owes, bounds
  <2>2. op[g] \in Op /\ Knows(g)
    BY <2>1 DEF PriceInv, TypeOK
  <2>3. CASE op' = [op EXCEPT ![g] = Idle] /\ fresh' = fresh \ {g}
    BY <2>1, <2>3, Plain, Leaves DEF Place
  <2>4. CASE /\ Goto(g, "save") /\ fresh' = fresh
             /\ \/ g = Apply /\ Decide(op[g].seen.price, newest.source, op[g].found) = "fill"
                \/ g # Apply /\ op[g].seen.price # op[g].found
    <3> DEFINE o == [op[g] EXCEPT !.at = "save"]
    <3>1. o \in Op /\ op' = [op EXCEPT ![g] = o] /\ op'[g] = o
      BY <2>1, <2>2, <2>4 DEF Op, Place, TypeOK, Goto
    <3>2. o.at = "save" /\ o.pay = op[g].pay /\ o.found = op[g].found /\ o.seen = op[g].seen
      BY <2>2 DEF Op
    <3>3. o.found # 0 /\ o.found # o.seen.price
      BY <2>1, <2>2, <2>4, <3>2 DEF Decide, Knows
    <3>4. ASSUME ~Raced, g \in fresh, row.price # 0, g = Apply PROVE origin = "guide"
      <4>1. op[g].seen = row
        BY <2>1, <2>2, <3>4 DEF Knows, Read
      <4>2. newest = [price |-> row.price, source |-> origin]
        BY <3>4 DEF PriceInv, OneDebt, HistoryAgrees
      <4>3. newest.source = "guide"
        BY <2>4, <3>4, <4>1 DEF Decide
      <4> QED BY <4>2, <4>3
    <3>5. Knows(g)' /\ ~Owes(g)'
      BY <2>1, <2>2, <2>4, <3>1, <3>2, <3>3, <3>4 DEF Knows, Owes, Read, Decided, Raced
    <3> QED BY <2>1, <2>4, <3>1, <3>5 DEF Moves
  <2> QED BY <1>7, <2>3, <2>4 DEF Sources, Stop
<1> QED BY <1>2, <1>3, <1>4, <1>5, <1>6, <1>7

-----------------------------------------------------------------------------
(* Commits.                                                                   *)

\* The mapper event keeps the price, and takes a laptop without one off sale.
LEMMA DemotedRow ==
    ASSUME NEW r \in Row
    PROVE  /\ Demoted(r) \in Row /\ Demoted(r).price = r.price
           /\ r.price = 0 => Demoted(r).status # "active"
  BY DEF Demoted, Row, Status

\* An insert makes a price of its own the laptop's.
LEMMA InsertCommits ==
    ASSUME PriceAssumption, TypeOK, NEW a \in Actor,
           NEW new \in Row, NEW source \in Source \ {"none"},
           new.status # "absent",
           Insert(a, new, source), Tallies', brand' = brand, op[a].at = "save",
           NEW o \in Op, op' = [op EXCEPT ![a] = o], ~o.pay,
           \/ /\ source = Setter(a) /\ newest' = newest
              /\ o.at = "refresh"
           \/ /\ newest' = IF new.price # 0 THEN [price |-> new.price, source |-> source]
                         ELSE newest
              /\ o.at \in {"idle", "mark"}
    PROVE  Commits(a)
<1> DEFINE target == Demoted(new)
<1>1. /\ target \in Row /\ target.price = new.price
      /\ target.price = 0 => target.status # "active"
      /\ target.status # "absent"
  BY DemotedRow DEF Demoted, Row
<1>2. /\ Commit(a, target, source)
      /\ op[a].seen.price = 0 /\ target # op[a].seen /\ Writes(a, target)
  BY <1>1 DEF Insert, Absent, Writes
<1>3. CommitsAs(a, target, source, o)
  BY <1>1, <1>2 DEF CommitsAs
<1> QED BY <1>1, <1>3 DEF Commits

\* A run's four ways to write its laptop, and what each leaves to be recorded.
LEMMA RunCommits ==
    ASSUME PriceAssumption, PriceInv, NEW r \in Run,
           PageInsert(r) \/ PageUpdate(r) \/ AppleInsert(r) \/ AppleUpdate(r)
    PROVE  Commits(r)
<1> DEFINE c == op[r]
<1>1. r \in Actor /\ Setter(r) = "page"
  BY Roles DEF Setter
<1>2. TypeOK /\ c \in Op /\ Knows(r) /\ c.seen \in Row /\ c.found \in Amount
      /\ c.seen.price \in Amount
  BY <1>1 DEF PriceInv, TypeOK, Op, Row
<1>3. /\ [Idle EXCEPT !.at = "refresh"] \in Op /\ ~[Idle EXCEPT !.at = "refresh"].pay
      /\ [Idle EXCEPT !.at = "refresh"].at = "refresh"
      /\ [Idle EXCEPT !.at = "mark"] \in Op /\ ~[Idle EXCEPT !.at = "mark"].pay
      /\ [Idle EXCEPT !.at = "mark"].at = "mark"
  BY Plain DEF Place
<1>4. c.at = "save" /\ brand' = brand /\ Tallies'
  BY <1>2, TalliesKept DEF PageInsert, PageUpdate, AppleInsert, AppleUpdate, bounds
<1>5. CASE PageInsert(r)
  <2> DEFINE new == [price |-> c.found, status |-> "active"]
  <2>1. new \in Row /\ new.status # "absent"
    BY <1>2 DEF Row, Status
  <2>2. Insert(r, new, "page") /\ newest' = newest /\ GoOn(r, "refresh")
    BY <1>5 DEF PageInsert
  <2> QED BY <1>1, <1>2, <1>3, <1>4, <2>1, <2>2, InsertCommits DEF Source, GoOn
<1>6. CASE AppleInsert(r)
  <2> DEFINE new == [price |-> c.found, status |-> "inactive"]
  <2>1. new \in Row /\ new.status # "absent"
    BY <1>2 DEF Row, Status
  <2>2. /\ Insert(r, new, "apple-buy-page") /\ GoOn(r, "mark")
        /\ newest' = IF c.found # 0 THEN [price |-> c.found, source |-> "apple-buy-page"]
                      ELSE newest
    BY <1>6 DEF AppleInsert, Settle
  <2> QED BY <1>1, <1>2, <1>3, <1>4, <2>1, <2>2, InsertCommits DEF Source, GoOn
<1>7. CASE PageUpdate(r)
  <2> DEFINE new == [c.seen EXCEPT !.price = Kept(r)]
             target == Demoted(new)
  <2>1. new \in Row /\ new.price = Kept(r)
    BY <1>2 DEF Row, Kept
  <2>2. target \in Row /\ target.price = Kept(r) /\ (target.price = 0 => target.status # "active")
    BY <2>1, DemotedRow
  <2>3. Commit(r, target, "page") /\ newest' = newest
    BY <1>7 DEF PageUpdate
  <2>4. CASE c.found \in {0, c.seen.price}
    <3>1. GoOn(r, "mark") /\ target.price = c.seen.price
      BY <1>7, <2>2, <2>4 DEF PageUpdate, Settle, Kept
    <3>2. CommitsAs(r, target, "page", [Idle EXCEPT !.at = "mark"])
      BY <1>3, <1>4, <2>2, <2>3, <3>1 DEF CommitsAs, GoOn
    <3> QED BY <1>3, <2>2, <3>2 DEF Commits, Source
  <2>5. CASE c.found \notin {0, c.seen.price}
    <3> DEFINE o == [Idle EXCEPT !.at = "record", !.found = c.found]
    <3>1. o \in Op /\ ~o.pay /\ o.at = "record" /\ o.found = c.found
      BY <1>2, Plain DEF Op, Idle, Place
    <3>2. op' = [op EXCEPT ![r] = o] /\ target.price = c.found
      BY <1>7, <2>2, <2>5 DEF PageUpdate, Owe, Kept
    <3>3. Writes(r, target) /\ target.price # c.seen.price
      BY <2>5, <3>2 DEF Writes
    <3>4. CommitsAs(r, target, "page", o)
      BY <1>1, <1>4, <2>2, <2>3, <3>1, <3>2, <3>3 DEF CommitsAs
    <3> QED BY <2>2, <3>1, <3>4 DEF Commits, Source
  <2> QED BY <2>4, <2>5
<1>8. CASE AppleUpdate(r)
  <2> DEFINE priced == IF c.pay THEN c.found ELSE c.seen.price
             listed == IF c.goal = "keep" THEN c.seen.status ELSE c.goal
             target == Demoted([price |-> priced, status |-> listed])
  <2>1. [price |-> priced, status |-> listed] \in Row
    BY <1>2 DEF Op, Row, Goal
  <2>2. target \in Row /\ target.price = priced /\ (target.price = 0 => target.status # "active")
    BY <2>1, DemotedRow
  <2>3. /\ Commit(r, target, "apple-buy-page") /\ GoOn(r, "mark")
        /\ newest' = IF c.pay THEN [price |-> c.found, source |-> "apple-buy-page"] ELSE newest
    BY <1>8 DEF AppleUpdate, Settle
  <2>4. CASE ~c.pay
    <3>1. CommitsAs(r, target, "apple-buy-page", [Idle EXCEPT !.at = "mark"])
      BY <1>3, <1>4, <2>2, <2>3, <2>4 DEF CommitsAs, GoOn
    <3> QED BY <1>3, <2>2, <3>1 DEF Commits, Source
  <2>5. CASE c.pay
    <3>1. target.price # 0 /\ Writes(r, target) /\ (r \in fresh => target.price # c.seen.price)
      BY <1>2, <1>4, <2>2, <2>5 DEF Knows, Read, Writes
    <3>2. CommitsAs(r, target, "apple-buy-page", [Idle EXCEPT !.at = "mark"])
      BY <1>3, <1>4, <2>2, <2>3, <2>5, <3>1 DEF CommitsAs, GoOn
    <3> QED BY <1>3, <2>2, <3>2 DEF Commits, Source
  <2> QED BY <2>4, <2>5
<1> QED BY <1>5, <1>6, <1>7, <1>8

\* The writes of an admin's form and of a guide price.
LEMMA OtherCommits ==
    ASSUME PriceAssumption, PriceInv
    PROVE  /\ \A e \in Editor : EditCreate(e) \/ EditUpdate(e) => Commits(e)
           /\ \A g \in Guide : GuideSave(g) => Commits(g)
<1>1. ASSUME NEW e \in Editor, EditCreate(e) \/ EditUpdate(e) PROVE Commits(e)
  <2> DEFINE c == op[e]
             new == [price |-> c.found, status |-> c.goal]
  <2>1. TypeOK /\ e \in Actor /\ Setter(e) = "manual" /\ c \in Op /\ c.found \in Amount
    BY Roles DEF Setter, PriceInv, TypeOK, Op
  <2>2. c.at = "save" /\ brand' = brand /\ newest' = newest /\ Tallies'
    BY <1>1, <2>1, TalliesKept DEF EditCreate, EditUpdate, bounds
  <2>3. c.goal \in Status
    BY <2>1, <2>2 DEF PriceInv, Knows, Op, Goal
  <2>4. new \in Row /\ new.status # "absent"
    BY <2>1, <2>3 DEF Row, Status
  <2>5. /\ [Idle EXCEPT !.at = "refresh"] \in Op /\ ~[Idle EXCEPT !.at = "refresh"].pay
        /\ [Idle EXCEPT !.at = "refresh"].at = "refresh"
        /\ Idle \in Op /\ ~Idle.pay /\ Idle.at = "idle"
    BY Plain DEF Place
  <2>6. CASE EditCreate(e)
    <3> DEFINE o == [Idle EXCEPT !.at = "refresh"]
    <3>1. Insert(e, new, "manual") /\ newest' = newest /\ op' = [op EXCEPT ![e] = o]
      BY <2>2, <2>6 DEF EditCreate, GoOn
    <3>2. o \in Op /\ ~o.pay /\ o.at = "refresh" /\ "manual" \in Source \ {"none"}
      BY <2>5 DEF Source
    <3> HIDE DEF o, new, c
    <3> QED BY <2>1, <2>2, <2>4, <3>1, <3>2, InsertCommits DEF c
  <2>7. CASE EditUpdate(e)
    <3> DEFINE target == Demoted(new)
    <3>1. /\ target \in Row /\ target.price = c.found
             /\ (target.price = 0 => target.status # "active")
      BY <2>4, DemotedRow
    <3>2. /\ Commit(e, target, "manual")
          /\ IF c.found # c.seen.price THEN GoOn(e, "refresh") ELSE Stop(e)
      BY <2>7 DEF EditUpdate
    <3>3. c.found # c.seen.price => Writes(e, target)
      BY <3>1 DEF Writes
    <3> DEFINE o == IF c.found # c.seen.price THEN [Idle EXCEPT !.at = "refresh"] ELSE Idle
    <3>4. CommitsAs(e, target, "manual", o)
      BY <2>1, <2>2, <2>5, <3>1, <3>2, <3>3 DEF CommitsAs, GoOn, Stop
    <3> QED BY <2>5, <3>1, <3>4 DEF Commits, Source
  <2> QED BY <1>1, <2>6, <2>7
<1>2. ASSUME NEW g \in Guide, GuideSave(g) PROVE Commits(g)
  <2> DEFINE c == op[g]
             new == [c.seen EXCEPT !.price = c.found]
             target == Demoted(new)
  <2>1. TypeOK /\ g \in Actor /\ c \in Op /\ c.found \in Amount /\ c.seen \in Row /\ Knows(g)
    BY Roles DEF PriceInv, TypeOK, Op
  <2>2. c.at = "save" /\ brand' = brand /\ Tallies'
    BY <1>2, <2>1, TalliesKept DEF GuideSave, bounds
  <2>3. new \in Row /\ new.price = c.found
    BY <2>1 DEF Row
  <2>4. target \in Row /\ target.price = c.found /\ target.price # 0 /\ target.price # c.seen.price
    BY <2>1, <2>2, <2>3, DemotedRow DEF Knows
  <2>5. Commit(g, target, "guide") /\ newest' = [price |-> c.found, source |-> "guide"]
        /\ op' = [op EXCEPT ![g] = Idle]
    BY <1>2 DEF GuideSave, Stop
  <2>6. Writes(g, target) /\ Idle \in Op /\ ~Idle.pay /\ Idle.at = "idle"
    BY <2>4, Plain DEF Writes, Place
  <2>7. CommitsAs(g, target, "guide", Idle)
    BY <2>2, <2>4, <2>5, <2>6 DEF CommitsAs
  <2> QED BY <2>4, <2>6, <2>7 DEF Commits, Source
<1> QED BY <1>1, <1>2

-----------------------------------------------------------------------------
(* The invariant.                                                             *)

\* A step that writes nothing keeps the invariant.
LEMMA MovesKeep ==
    ASSUME PriceInv, NEW a \in Actor, Moves(a)
    PROVE  PriceInv'
<1>1. PICK o \in Op : op' = [op EXCEPT ![a] = o]
  BY DEF Moves
<1>2. TypeOK'
  BY <1>1 DEF PriceInv, TypeOK, Moves, Tallies
<1>3. ASSUME NEW b \in Actor, b # a
      PROVE  op'[b] = op[b] /\ (Owes(b)' <=> Owes(b)) /\ Knows(b)'
  <2>1. op'[b] = op[b] /\ (b \in fresh' => b \in fresh)
    BY <1>1, <1>3 DEF PriceInv, TypeOK, Moves
  <2> QED BY <2>1 DEF PriceInv, Moves, Knows, Read, Owes, Debt, Decided, Raced
<1>4. \A b \in Actor : Knows(b)'
  BY <1>3 DEF Moves
<1>5. \A b \in Actor : Owes(b)' => Owes(b)
  BY <1>3 DEF Moves
<1>6. OneDebt'
  <2>1. ~Raced' => \A b, c \in Actor : Owes(b)' /\ Owes(c)' => b = c
    BY <1>5 DEF PriceInv, OneDebt, Moves, Raced
  <2>2. fresh' # {} => \A b \in Actor : ~Owes(b)
    BY DEF PriceInv, OneDebt, Moves
  <2> QED BY <1>5, <2>1, <2>2 DEF OneDebt
<1>7. HistoryAgrees'
  <2> SUFFICES ASSUME ~Raced', row'.price # 0, \A b \in Actor : ~Owes(b)'
               PROVE  newest' = [price |-> row'.price, source |-> origin']
    BY DEF HistoryAgrees
  <2>1. \A b \in Actor : ~Owes(b)
    BY <1>3 DEF Moves, Raced
  <2> QED BY <2>1 DEF PriceInv, HistoryAgrees, Moves, Raced
<1>8. NoneIsNone' /\ UnpricedNotActive'
  BY DEF PriceInv, NoneIsNone, UnpricedNotActive, Moves, Raced
<1> QED BY <1>2, <1>4, <1>6, <1>7, <1>8 DEF PriceInv

\* What a commit does: it is late; it writes nothing; or the row becomes what it computed
\* from the row as it is, and no other writer is between two commits.
LEMMA CommitCases ==
    ASSUME PriceInv, NEW a \in Actor, NEW target \in Row, NEW source \in Source,
           op[a].at = "save", Commit(a, target, source)
    PROVE  \/ Raced' /\ row' \in Row
              /\ (fresh' = {} \/ (fresh' = fresh \ {a} /\ ~Writes(a, target)))
           \/ /\ ~Writes(a, target) /\ row' = row /\ origin' = origin /\ fresh' = fresh \ {a}
           \/ /\ Writes(a, target) /\ ~Raced /\ fresh' = {} /\ a \in fresh
              /\ op[a].seen = row /\ row' = target
              /\ \A b \in Actor : ~Owes(b)
              /\ origin' = IF target.price # row.price THEN source ELSE origin
<1>1. op[a] \in Op /\ op[a].seen \in Row /\ row \in Row /\ Knows(a)
  BY DEF PriceInv, TypeOK, Op
<1>2. row' = [c \in {"price", "status"} |-> IF target[c] # op[a].seen[c] THEN target[c] ELSE row[c]]
  BY DEF Commit, Update
<1>3. row' \in Row
  BY <1>1, <1>2 DEF Row
<1>4. CASE ~Writes(a, target)
  <2>1. target = op[a].seen
    BY <1>4 DEF Writes
  <2>2. row' = row
    BY <1>1, <1>2, <2>1 DEF Row
  <2>3. fresh' = fresh \ {a} /\ (Raced' \/ origin' = origin)
    BY <1>4, <2>1 DEF Commit, Raced
  <2> QED BY <1>3, <1>4, <2>2, <2>3
<1>5. CASE Writes(a, target) /\ (Raced \/ Overlaps(a))
  <2>1. fresh' = {}
    BY <1>5 DEF Commit
  <2>2. Raced'
    <3>1. origin' = IF Raced \/ (Writes(a, target) /\ Overlaps(a)) THEN "raced"
                    ELSE IF target.price # op[a].seen.price THEN source ELSE origin
      BY DEF Commit
    <3>2. origin' = "raced"
      BY <1>5, <3>1
    <3> QED BY <3>2 DEF Raced
  <2> QED BY <1>3, <2>1, <2>2
<1>6. CASE Writes(a, target) /\ ~Raced /\ ~Overlaps(a)
  <2>1. a \in fresh /\ \A b \in Actor \ {a} : ~Owes(b)
    BY <1>6 DEF Overlaps
  <2>2. op[a].seen = row /\ ~Owes(a)
    BY <1>1, <2>1 DEF Knows, Read, Owes
  <2>3. row' = target
    BY <1>1, <1>2, <2>2 DEF Row
  <2> QED BY <1>6, <2>1, <2>2, <2>3 DEF Commit
<1> QED BY <1>4, <1>5, <1>6

\* A commit keeps it: late, without effect, or first with what it read.
LEMMA CommitsKeep ==
    ASSUME PriceInv, NEW a \in Actor, Commits(a)
    PROVE  PriceInv'
<1>1. PICK target \in Row, source \in Source, o \in Op : CommitsAs(a, target, source, o)
  BY DEF Commits
<1>2. Commit(a, target, source) /\ op[a].at = "save" /\ op' = [op EXCEPT ![a] = o] /\ ~o.pay
      /\ o.at \in {"idle", "mark", "refresh", "record"} /\ Tallies' /\ brand' = brand
  BY <1>1 DEF CommitsAs
<1>3. op'[a] = o /\ \A b \in Actor : b # a => op'[b] = op[b]
  BY <1>2 DEF PriceInv, TypeOK
<1>4. a \notin fresh' /\ fresh' \subseteq fresh
  BY <1>2 DEF Commit
<1>5. ~Owes(a) /\ \A b \in Actor : b # a => (Owes(b)' <=> Owes(b))
  BY <1>2, <1>3 DEF Owes
<1>6. TypeOK'
  <2>1. row' \in Row
    BY <1>2, CommitCases DEF PriceInv, TypeOK
  <2>2. origin' \in Source \cup {"raced"}
    BY <1>2 DEF Commit, PriceInv, TypeOK
  <2>3. newest' \in Newest
    BY <1>1 DEF CommitsAs, Newest, Row, PriceInv, TypeOK
  <2>4. op' \in [Actor -> Op]
    BY <1>2 DEF PriceInv, TypeOK
  <2> QED BY <1>2, <1>4, <2>1, <2>2, <2>3, <2>4 DEF PriceInv, TypeOK, Tallies
<1>7. NoneIsNone'
  BY <1>1 DEF CommitsAs, PriceInv, NoneIsNone
<1>8. CASE Raced'
  <2>1. ASSUME NEW b \in Actor PROVE Knows(b)'
    <3>1. CASE b = a
      BY <1>2, <1>3, <1>4, <1>8, <3>1 DEF Knows
    <3>2. CASE b # a
      <4>1. Knows(b) /\ op'[b] = op[b]
        BY <1>3, <3>2 DEF PriceInv
      <4>2. b \in fresh' => row' = row
        <5> SUFFICES ASSUME b \in fresh' PROVE row' = row
          OBVIOUS
        <5>1. ~Writes(a, target)
          BY <1>2 DEF Commit
        <5>2. target = op[a].seen
          BY <5>1 DEF Writes
        <5> QED BY <1>2, <5>2 DEF Commit, Update, Row, PriceInv, TypeOK
      <4> QED BY <1>2, <1>4, <1>8, <4>1, <4>2 DEF Knows, Read
    <3> QED BY <3>1, <3>2
  <2>2. OneDebt'
    <3> SUFFICES ASSUME fresh' # {}, NEW b \in Actor PROVE ~Owes(b)'
      BY <1>8 DEF OneDebt
    <3>1. ~Writes(a, target)
      BY <1>2 DEF Commit
    <3>2. o.at \in {"idle", "mark"}
      BY <1>1, <3>1 DEF CommitsAs
    <3>3. ~Owes(a)'
      BY <1>3, <3>2 DEF Owes
    <3>4. ~Owes(b)
      BY <1>4 DEF PriceInv, OneDebt
    <3> QED BY <1>5, <3>3, <3>4
  <2> QED BY <1>6, <1>7, <1>8, <2>1, <2>2 DEF PriceInv, HistoryAgrees, UnpricedNotActive
<1>9. CASE ~Raced' /\ ~Writes(a, target)
  <2>1. row' = row /\ origin' = origin /\ fresh' = fresh \ {a}
    BY <1>2, <1>9, CommitCases
  <2>2. newest' = newest /\ o.at \in {"idle", "mark"}
    BY <1>1, <1>9 DEF CommitsAs
  <2>3. ~Owes(a)' /\ \A b \in Actor : Owes(b)' <=> Owes(b)
    BY <1>3, <1>5, <2>2 DEF Owes
  <2>4. ASSUME NEW b \in Actor PROVE Knows(b)'
    <3>1. CASE b = a
      BY <1>2, <1>3, <1>4, <2>2, <2>3, <3>1 DEF Knows
    <3>2. CASE b # a
      <4>1. Knows(b) /\ op'[b] = op[b]
        BY <1>3, <3>2 DEF PriceInv
      <4> QED BY <1>2, <1>4, <2>1, <2>3, <4>1 DEF Knows, Read, Debt, Decided, Raced
    <3> QED BY <3>1, <3>2
  <2>5. OneDebt' /\ HistoryAgrees' /\ UnpricedNotActive'
    BY <2>1, <2>2, <2>3 DEF PriceInv, OneDebt, HistoryAgrees, UnpricedNotActive, Raced
  <2> QED BY <1>6, <1>7, <2>4, <2>5 DEF PriceInv
<1>10. CASE ~Raced' /\ Writes(a, target)
  <2>1. /\ ~Raced /\ fresh' = {} /\ a \in fresh /\ op[a].seen = row /\ row' = target
        /\ \A b \in Actor : ~Owes(b)
        /\ origin' = IF target.price # row.price THEN source ELSE origin
    BY <1>2, <1>10, CommitCases
  <2>2. \A b \in Actor : Owes(b)' => b = a
    BY <1>5, <2>1
  <2>3. Owes(a)' => Debt(a)'
    BY <1>1, <1>3, <2>1 DEF CommitsAs, Owes, Debt, Setter
  <2>4. ASSUME NEW b \in Actor PROVE Knows(b)'
    <3>1. CASE b = a
      BY <1>2, <1>3, <2>1, <2>3, <3>1 DEF Knows
    <3>2. CASE b # a
      <4>1. Knows(b) /\ op'[b] = op[b] /\ ~Owes(b)'
        BY <1>3, <2>2, <3>2 DEF PriceInv
      <4> QED BY <1>2, <2>1, <4>1 DEF Knows
    <3> QED BY <3>1, <3>2
  <2>5. HistoryAgrees'
    <3> SUFFICES ASSUME row'.price # 0, ~Owes(a)'
                 PROVE  newest' = [price |-> row'.price, source |-> origin']
      BY DEF HistoryAgrees
    <3>1. o.at \in {"idle", "mark"}
      BY <1>1, <1>3 DEF CommitsAs, Owes
    <3>2. CASE newest' = newest /\ target.price = op[a].seen.price
      BY <2>1, <3>2 DEF PriceInv, HistoryAgrees
    <3>3. CASE /\ newest' = [price |-> target.price, source |-> source]
               /\ target.price # op[a].seen.price
      BY <2>1, <3>3
    <3> QED BY <1>1, <2>1, <3>1, <3>2, <3>3 DEF CommitsAs
  <2>6. UnpricedNotActive'
    BY <1>1, <2>1 DEF CommitsAs, UnpricedNotActive
  <2>7. OneDebt'
    BY <2>1, <2>2 DEF OneDebt
  <2> QED BY <1>6, <1>7, <2>4, <2>5, <2>6, <2>7 DEF PriceInv
<1> QED BY <1>8, <1>9, <1>10

\* The history row arrives.
LEMMA RecordKeeps ==
    ASSUME PriceAssumption, PriceInv, NEW a \in Actor, a \notin Guide, Record(a)
    PROVE  PriceInv'
<1>1. /\ op[a].at = "record" /\ UNCHANGED <<brand, row, origin, fresh>>
      /\ newest' = [price |-> op[a].found, source |-> Setter(a)]
  BY DEF Record, Setter, history
<1>2. PICK o \in Op : ~o.pay /\ o.at \in {"idle", "mark"} /\ op' = [op EXCEPT ![a] = o]
  BY Plain DEF Record, Settle, Stop, GoOn, Place
<1>3. op[a] \in Op /\ op'[a] = o /\ \A b \in Actor : b # a => op'[b] = op[b]
  BY <1>2 DEF PriceInv, TypeOK
<1>4. Owes(a) /\ ~Owes(a)' /\ \A b \in Actor : b # a => (Owes(b)' <=> Owes(b))
  BY <1>1, <1>2, <1>3 DEF Owes
<1>5. fresh = {}
  BY <1>4 DEF PriceInv, OneDebt
<1>6. Tallies'
  BY TalliesKept DEF PriceInv, Record, bounds
<1>7. newest' \in Newest /\ NoneIsNone'
  BY <1>1, <1>3 DEF Newest, Op, Source, Setter, NoneIsNone
<1>8. TypeOK'
  BY <1>1, <1>2, <1>6, <1>7 DEF PriceInv, TypeOK, Tallies
<1>9. ASSUME NEW b \in Actor PROVE Knows(b)'
  <2>1. CASE b = a
    BY <1>1, <1>2, <1>3, <1>4, <1>5, <2>1 DEF Knows
  <2>2. CASE b # a
    <3>1. Knows(b) /\ op'[b] = op[b]
      BY <1>3, <2>2 DEF PriceInv
    <3> QED BY <1>1, <1>4, <1>5, <2>2, <3>1 DEF Knows, Debt, Raced
  <2> QED BY <2>1, <2>2
<1>10. OneDebt' /\ UnpricedNotActive'
  BY <1>1, <1>4, <1>5 DEF PriceInv, OneDebt, UnpricedNotActive, Raced
<1>11. HistoryAgrees'
  BY <1>1, <1>4 DEF PriceInv, Knows, Debt, HistoryAgrees, Raced
<1> QED BY <1>7, <1>8, <1>9, <1>10, <1>11 DEF PriceInv

\* Nobody is at work after a crash; a history row that was due is lost with it.
LEMMA CrashKeeps ==
    ASSUME PriceAssumption, PriceInv, Crash
    PROVE  PriceInv'
<1>1. /\ op' = [a \in Actor |-> Idle] /\ fresh' = {} /\ UNCHANGED <<brand, row, newest>>
      /\ origin' = IF \E a \in Actor : Owes(a) THEN "raced" ELSE origin
  BY DEF Crash
<1>2. Tallies'
  BY TalliesKept DEF PriceInv, Crash
<1>3. Idle \in Op /\ ~Idle.pay /\ Idle.at = "idle"
  BY Plain DEF Place
<1>4. TypeOK'
  BY <1>1, <1>2, <1>3 DEF PriceInv, TypeOK, Tallies
<1>5. \A a \in Actor : op'[a] = Idle /\ ~Owes(a)'
  BY <1>1, <1>3 DEF Owes
<1>6. \A a \in Actor : Knows(a)'
  BY <1>1, <1>3, <1>5 DEF Knows
<1>7. OneDebt' /\ NoneIsNone' /\ HistoryAgrees' /\ UnpricedNotActive'
  BY <1>1, <1>5 DEF PriceInv, OneDebt, NoneIsNone, HistoryAgrees, UnpricedNotActive, Raced
<1> QED BY <1>4, <1>6, <1>7 DEF PriceInv

\* The rows the program starts on satisfy it.
LEMMA PriceInit ==
    ASSUME PriceAssumption, Init
    PROVE  PriceInv
<1>1. PICK f \in First : brand = f.brand /\ row = f.row /\ newest = f.newest
  BY DEF Init
<1>2. f \in [brand : Brand, row : Row, newest : Newest]
  BY DEF PriceAssumption
<1>3. Idle \in Op /\ ~Idle.pay /\ Idle.at = "idle"
  BY Plain DEF Place
<1>4. newest.source \in Source /\ newest.source # "raced"
  BY <1>1, <1>2 DEF Newest, Source
<1>5. {edits, guides, singles, faults} = {0}
      /\ {MaxEdits, MaxGuides, MaxSingles, MaxFaults} \subseteq Nat
  BY DEF Init, PriceAssumption
<1>6. edits \in 0..MaxEdits /\ guides \in 0..MaxGuides
      /\ singles \in 0..MaxSingles /\ faults \in 0..MaxFaults
  BY <1>5
<1>7. TypeOK
  BY <1>1, <1>2, <1>3, <1>4, <1>6 DEF Init, TypeOK
<1>8. \A a \in Actor : op[a] = Idle /\ ~Owes(a)
  BY <1>3 DEF Init, Owes
<1>9. \A a \in Actor : Knows(a)
  BY <1>3, <1>8 DEF Init, Knows
<1>10. newest.price = 0 <=> newest.source = "none"
  BY <1>1 DEF PriceAssumption
<1>11. row.price # 0 => newest = [price |-> row.price, source |-> origin]
  BY <1>1, <1>2 DEF PriceAssumption, Init, Newest
<1>12. OneDebt /\ NoneIsNone /\ HistoryAgrees
  BY <1>8, <1>10, <1>11 DEF Init, OneDebt, NoneIsNone, HistoryAgrees
<1>13. UnpricedNotActive
  BY <1>1 DEF PriceAssumption, UnpricedNotActive
<1> QED BY <1>7, <1>9, <1>12, <1>13 DEF PriceInv

\* Every step keeps it.
LEMMA PriceStep ==
    ASSUME PriceAssumption, PriceInv, [Next]_vars
    PROVE  PriceInv'
<1>1. ASSUME NEW r \in Run, LlmFails(r) \/ Work(r) PROVE PriceInv'
  <2>1. r \in Actor /\ r \notin Guide
    BY Roles
  <2>2. CASE \/ Begin(r) \/ Plan(r) \/ Answer(r) \/ Look(r) \/ Mark(r) \/ LlmFails(r) \/ Collide(r)
             \/ Refresh(r)
    BY <2>1, <2>2, RunMoves, RefreshMoves, MovesKeep
  <2>3. CASE PageInsert(r) \/ PageUpdate(r) \/ AppleInsert(r) \/ AppleUpdate(r)
    BY <2>1, <2>3, RunCommits, CommitsKeep
  <2>4. CASE Record(r)
    BY <2>1, <2>4, RecordKeeps
  <2> QED BY <1>1, <2>2, <2>3, <2>4 DEF Work, Save
<1>2. ASSUME NEW e \in Editor, Edit(e) \/ Editing(e) PROVE PriceInv'
  <2>1. e \in Actor /\ e \notin Guide
    BY Roles
  <2>2. CASE Edit(e) \/ EditRefused(e) \/ Refresh(e)
    BY <2>1, <2>2, OtherMoves, RefreshMoves, MovesKeep
  <2>3. CASE EditCreate(e) \/ EditUpdate(e)
    BY <2>1, <2>3, OtherCommits, CommitsKeep
  <2>4. CASE Record(e)
    BY <2>1, <2>4, RecordKeeps
  <2> QED BY <1>2, <2>2, <2>3, <2>4 DEF Editing
<1>3. ASSUME NEW b \in Batch, ProcessAllPending(b) \/ RetryFailed(b) PROVE PriceInv'
  BY <1>3, Roles, OtherMoves, MovesKeep
<1>4. ASSUME NEW s \in Single, ProcessOne(s) PROVE PriceInv'
  BY <1>4, Roles, OtherMoves, MovesKeep
<1>5. ASSUME NEW g \in Guide, GuideRead(g) \/ Sources(g) \/ GuideSave(g) PROVE PriceInv'
  BY <1>5, Roles, OtherMoves, OtherCommits, MovesKeep, CommitsKeep
<1>6. ASSUME ApplyPriceGuide \/ \E u \in User : UsePriceFromGuide(u) PROVE PriceInv'
  BY <1>5, <1>6, Roles DEF ApplyPriceGuide, UsePriceFromGuide
<1>7. CASE UNCHANGED vars
  BY <1>7 DEF vars, bounds, history, PriceInv, TypeOK, OneDebt, NoneIsNone, HistoryAgrees,
              UnpricedNotActive, Knows, Read, Owes, Debt, Decided, Raced
<1> QED BY <1>1, <1>2, <1>3, <1>4, <1>5, <1>6, <1>7, CrashKeeps DEF Next

\* The table's columns and what every actor holds in memory are typed.
THEOREM TypeCorrect == Spec => []TypeOK
<1>1. PriceInv => TypeOK
  BY DEF PriceInv
<1> QED BY <1>1, PriceInit, PriceStep, PriceAssumption, PTL DEF Spec

\* Between two writers the newest history row states the stored price and who set it, for
\* any number of them, unless a commit was made on outdated reads or inside another's two.
THEOREM HistoryTellsThePrice == Spec => []HistoryAgrees
<1>1. PriceInv => HistoryAgrees
  BY DEF PriceInv
<1> QED BY <1>1, PriceInit, PriceStep, PriceAssumption, PTL DEF Spec

\* A laptop whose price is unknown is not on sale, whichever path wrote its row.
THEOREM UnpricedIsOffSale == Spec => []UnpricedNotActive
<1>1. PriceInv => UnpricedNotActive
  BY DEF PriceInv
<1> QED BY <1>1, PriceInit, PriceStep, PriceAssumption, PTL DEF Spec

\* A guide and an Apple run replace only a price that was theirs to replace when they
\* commit, although they decided on a history row they had read before.
THEOREM DecisionsHold == Spec => DecisionsKept
<1> USE PriceAssumption
<1>1. ASSUME PriceInv, ~Raced', row.price # 0
      PROVE  /\ GuideSave(Apply) => origin = "guide"
             /\ \A r \in Run : AppleUpdate(r) /\ row'.price # row.price
                                => origin \in Replaceable \ {"none"}
  <2>1. ASSUME GuideSave(Apply) PROVE origin = "guide"
    <3> DEFINE new == [op[Apply].seen EXCEPT !.price = op[Apply].found]
               target == Demoted(new)
    <3>1. Apply \in Actor /\ Apply \in Guide /\ Apply \notin Run
      BY Roles
    <3>2. op[Apply] \in Op /\ Knows(Apply) /\ op[Apply].at = "save"
      BY <1>1, <2>1, <3>1 DEF PriceInv, TypeOK, GuideSave
    <3>3. new \in Row /\ new.price = op[Apply].found
      BY <3>2 DEF Op, Row
    <3>4. target \in Row /\ target.price # op[Apply].seen.price
      BY <3>1, <3>2, <3>3, DemotedRow DEF Knows
    <3>5. Commit(Apply, target, "guide") /\ Writes(Apply, target)
      BY <2>1, <3>4 DEF GuideSave, Writes
    <3>6. ~Raced /\ Apply \in fresh
      BY <1>1, <3>1, <3>2, <3>4, <3>5, CommitCases DEF Source
    <3> QED BY <1>1, <3>2, <3>6 DEF Knows, Decided
  <2>2. ASSUME NEW r \in Run, AppleUpdate(r), row'.price # row.price
        PROVE  origin \in Replaceable \ {"none"}
    <3> DEFINE c == op[r]
               priced == IF c.pay THEN c.found ELSE c.seen.price
               listed == IF c.goal = "keep" THEN c.seen.status ELSE c.goal
               target == Demoted([price |-> priced, status |-> listed])
    <3>1. r \in Actor /\ c \in Op /\ Knows(r) /\ c.at = "save"
      BY <1>1, <2>2, Roles DEF PriceInv, TypeOK, AppleUpdate
    <3>2. [price |-> priced, status |-> listed] \in Row
      BY <3>1 DEF Op, Row, Goal
    <3>3. target \in Row /\ target.price = priced
      BY <3>2, DemotedRow
    <3>4. Commit(r, target, "apple-buy-page")
      BY <2>2 DEF AppleUpdate
    <3>5. ~Raced /\ r \in fresh /\ c.seen = row /\ row' = target
      BY <1>1, <2>2, <3>1, <3>3, <3>4, CommitCases DEF Source
    <3>6. c.pay
      BY <2>2, <3>3, <3>5
    <3> QED BY <1>1, <3>1, <3>5, <3>6 DEF Knows, Decided
  <2> QED BY <2>1, <2>2
<1> QED BY <1>1, PriceInit, PriceStep, PTL DEF Spec, DecisionsKept

=============================================================================
