-------------------------- MODULE RangesCacheProofs --------------------------
(***************************************************************************)
(* Proofs about RangesCache for any number of source tables, requests and  *)
(* writing sessions.  The argument: what a build will store covers every   *)
(* write announced before it read the generation, and generations order    *)
(* those promises.                                                         *)
(***************************************************************************)
EXTENDS RangesCache, TLAPS

Active(b) == pc[b] \in {"read", "build"}

\* Pointwise order of vectors.
Leq(x, y) == \A t \in Table : x[t] <= y[t]

\* What is announced or about to be is in the tables.
DbInv ==
    /\ Leq(announced, db)
    /\ \A w \in Writer : Leq(wrote[w], db)

\* A build keeps its promise in every table it has read, and the promise is the
\* whole of what is announced as long as no generation has begun since.
BuildInv ==
    \A b \in Builder : Active(b) =>
        /\ at[b] <= generation
        /\ at[b] = generation => Leq(announced, promise[b])
        /\ Leq(promise[b], announced)
        /\ \A t \in Table : t < next[b] => promise[b][t] <= got[b][t]
        /\ pc[b] = "build" => next[b] = Tables + 1

\* A later generation promises no less.
OrderInv ==
    \A b, c \in Builder : Active(b) /\ Active(c) /\ at[b] <= at[c] => Leq(promise[b], promise[c])

\* The copy is a build that ended.
CopyInv ==
    copy # NoCopy =>
        /\ built <= generation
        /\ built = generation => Leq(announced, sure)
        /\ Leq(sure, announced)
        /\ Leq(sure, copy)
        /\ \A b \in Builder : Active(b) /\ built <= at[b] => Leq(sure, promise[b])

IInv == TypeOK /\ DbInv /\ BuildInv /\ OrderInv /\ CopyInv

-----------------------------------------------------------------------------
LEMMA TableFacts == /\ Table \subseteq Nat
                    /\ \A t \in Table : t < Tables + 1 /\ t + 1 \in 1..(Tables + 1)
                    /\ 1 \in 1..(Tables + 1)
                    /\ \A t \in Table : ~(t < 1)
                    /\ Zero \in Vector /\ NoCopy \notin Vector
  BY CacheAssumption DEF Table, Zero, Vector

LEMMA InitIInv == Init => IInv
<1> SUFFICES ASSUME Init PROVE IInv
  OBVIOUS
<1> USE TableFacts, CacheAssumption DEF Init
<1>1. TypeOK
  <2>1. /\ db \in Vector /\ announced \in Vector /\ sure \in Vector
        /\ wrote \in [Writer -> Vector] /\ committed \in [Writer -> BOOLEAN]
    OBVIOUS
  <2>2. /\ generation \in Nat /\ built \in Nat \cup {-1} /\ copy \in Vector \cup {NoCopy}
        /\ (copy = NoCopy <=> built = -1) /\ expired \in BOOLEAN
    OBVIOUS
  <2>3. /\ pc \in [Builder -> {"idle", "cold", "read", "build"}]
        /\ at \in [Builder -> Nat]
        /\ got \in [Builder -> Vector] /\ promise \in [Builder -> Vector]
        /\ next \in [Builder -> 1..(Tables + 1)]
    OBVIOUS
  <2>4. writes \in 0..MaxWrites /\ faults \in 0..MaxFaults
    OBVIOUS
  <2> QED BY <2>1, <2>2, <2>3, <2>4 DEF TypeOK
<1>2. DbInv /\ BuildInv /\ OrderInv /\ CopyInv
  BY DEF DbInv, BuildInv, OrderInv, CopyInv, Leq, Zero, Active, Builder, Table
<1> QED BY <1>1, <1>2 DEF IInv

\* Two facts of arithmetic.
LEMMA Between == \A x, y \in Nat : (x <= y /\ y <= x => x = y) /\ (x < y + 1 /\ x # y => x < y)
  OBVIOUS

LEMMA NewerFacts == ASSUME NEW x \in Nat, NEW y \in Nat
                    PROVE  Newer(x, y) \in Nat /\ x <= Newer(x, y) /\ y <= Newer(x, y)
                           /\ (Newer(x, y) = x \/ Newer(x, y) = y)
  BY DEF Newer

\* No step leaves the types.
LEMMA TypeStep == TypeOK /\ [Next]_vars => TypeOK'
<1> SUFFICES ASSUME TypeOK, [Next]_vars PROVE TypeOK'
  OBVIOUS
<1> USE TableFacts, CacheAssumption DEF TypeOK, cache, builders, writers, bounds
<1>0. ASSUME NEW b \in Builder, BeginBuild(b)
      PROVE  /\ pc' \in [Builder -> {"idle", "cold", "read", "build"}]
             /\ at' \in [Builder -> Nat] /\ next' \in [Builder -> 1..(Tables + 1)]
             /\ got' \in [Builder -> Vector] /\ promise' \in [Builder -> Vector]
  BY <1>0 DEF BeginBuild
<1>1. ASSUME NEW b \in Builder, Done(b)
      PROVE  /\ pc' \in [Builder -> {"idle", "cold", "read", "build"}]
             /\ at' \in [Builder -> Nat] /\ next' \in [Builder -> 1..(Tables + 1)]
             /\ got' \in [Builder -> Vector] /\ promise' \in [Builder -> Vector]
  BY <1>1 DEF Done
<1>2. ASSUME NEW w \in Writer, NEW T \in SUBSET Table, Commit(w, T) PROVE TypeOK'
  <2>1. db' \in Vector /\ [t \in Table |-> IF t \in T THEN db[t] + 1 ELSE 0] \in Vector
    BY <1>2 DEF Commit, Vector
  <2> QED BY <1>2, <2>1 DEF Commit
<1>3. ASSUME NEW w \in Writer, Invalidate(w) PROVE TypeOK'
  <2>1. announced' \in Vector
    <3>1. \A t \in Table : announced[t] \in Nat /\ wrote[w][t] \in Nat
      BY DEF Vector
    <3>2. \A t \in Table : Newer(announced[t], wrote[w][t]) \in Nat
      BY <3>1, NewerFacts
    <3> QED BY <1>3, <3>2 DEF Invalidate, Vector
  <2>2. generation' \in Nat /\ wrote' \in [Writer -> Vector] /\ committed' \in [Writer -> BOOLEAN]
    BY <1>3 DEF Invalidate
  <2> QED BY <1>3, <2>1, <2>2 DEF Invalidate
<1>4. ASSUME NEW t \in Table, WriteOutside(t) PROVE TypeOK'
  <2>1. db' \in Vector
    BY <1>4 DEF WriteOutside, Vector
  <2> QED BY <1>4, <2>1 DEF WriteOutside
<1>5. CASE Expire
  BY <1>5 DEF Expire
<1>6. CASE GetStale
  BY <1>0, <1>6 DEF GetStale, Builder
<1>7. ASSUME NEW q \in Request, ForceRefresh(q) \/ BuildInline(q) PROVE TypeOK'
  BY <1>0, <1>7 DEF ForceRefresh, BuildInline, Builder
<1>8. ASSUME NEW b \in Builder, Read(b) PROVE TypeOK'
  <2>1. next[b] \in Table /\ next[b] + 1 \in 1..(Tables + 1)
    BY <1>8 DEF Read, Table
  <2>2. [got[b] EXCEPT ![next[b]] = db[next[b]]] \in Vector
    BY <2>1 DEF Vector
  <2>3. got' = [got EXCEPT ![b] = [got[b] EXCEPT ![next[b]] = db[next[b]]]]
    BY <1>8 DEF Read
  <2>4. got' \in [Builder -> Vector]
    BY <2>2, <2>3
  <2>5. next' \in [Builder -> 1..(Tables + 1)]
    BY <1>8, <2>1 DEF Read
  <2> QED BY <1>8, <2>4, <2>5 DEF Read
<1>9. ASSUME NEW b \in Builder, Build(b) PROVE TypeOK'
  BY <1>9 DEF Build
<1>10. ASSUME NEW b \in Builder, Store(b) PROVE TypeOK'
  <2>1. got[b] # NoCopy /\ at[b] # -1
    OBVIOUS
  <2> QED BY <1>1, <1>10, <2>1 DEF Store, Keep
<1>11. ASSUME NEW b \in Builder, Fail(b) PROVE TypeOK'
  BY <1>1, <1>11 DEF Fail
<1>12. CASE Restart
  <2>1. /\ pc' \in [Builder -> {"idle", "cold", "read", "build"}]
        /\ at' \in [Builder -> Nat] /\ next' \in [Builder -> 1..(Tables + 1)]
        /\ got' \in [Builder -> Vector] /\ promise' \in [Builder -> Vector]
        /\ wrote' \in [Writer -> Vector] /\ committed' \in [Writer -> BOOLEAN]
    BY <1>12 DEF Restart
  <2>2. faults' \in 0..MaxFaults
    BY <1>12 DEF Restart
  <2> QED BY <1>12, <2>1, <2>2 DEF Restart
<1>13. CASE UNCHANGED vars
  BY <1>13 DEF vars
<1> QED BY <1>2, <1>3, <1>4, <1>5, <1>6, <1>7, <1>8, <1>9, <1>10, <1>11, <1>12, <1>13
        DEF Next, Work, GetCold

\* The cache and its builds keep their types.
THEOREM TypeCorrect == Spec => []TypeOK
<1>1. Init => TypeOK
  BY InitIInv DEF IInv
<1> QED BY <1>1, TypeStep, PTL DEF Spec

-----------------------------------------------------------------------------
(* Steps that move the tables or the announcements.                        *)

LEMMA WriteStep ==
    ASSUME IInv, TypeOK',
           (\E w \in Writer : Invalidate(w) \/ \E T \in SUBSET Table : Commit(w, T))
               \/ (\E t \in Table : WriteOutside(t)) \/ Expire \/ UNCHANGED vars
    PROVE  (DbInv /\ BuildInv /\ OrderInv /\ CopyInv)'
<1> USE TableFacts DEF IInv, TypeOK, cache, builders, writers, bounds, Vector
<1>1. ASSUME NEW w \in Writer, Invalidate(w) PROVE (DbInv /\ BuildInv /\ OrderInv /\ CopyInv)'
  <2>1. Leq(announced, announced')
    <3>1. \A t \in Table : announced'[t] = Newer(announced[t], wrote[w][t])
      BY <1>1 DEF Invalidate
    <3> QED BY <3>1, NewerFacts DEF Leq
  <2>2. Leq(announced', db)
    <3>1. \A t \in Table : announced'[t] = announced[t] \/ announced'[t] = wrote[w][t]
      BY <1>1, NewerFacts DEF Invalidate
    <3> QED BY <3>1 DEF Leq, DbInv
  <2>3. generation' = generation + 1 /\ UNCHANGED <<db, copy, built, sure, builders>>
    BY <1>1 DEF Invalidate
  <2>4. DbInv'
    <3>1. \A v \in Writer : wrote'[v] = wrote[v] \/ wrote'[v] = Zero
      BY <1>1 DEF Invalidate
    <3> QED BY <2>2, <2>3, <3>1 DEF DbInv, Leq, Zero
  <2>5. BuildInv'
    BY <2>1, <2>3 DEF BuildInv, Active, Leq
  <2>6. OrderInv'
    BY <2>3 DEF OrderInv, Active, Leq
  <2>7. CopyInv'
    BY <2>1, <2>3 DEF CopyInv, Active, Leq
  <2> QED BY <2>4, <2>5, <2>6, <2>7
<1>2. ASSUME Leq(db, db'), UNCHANGED <<announced, generation, copy, built, sure, builders>>,
             \A w \in Writer : Leq(wrote'[w], db')
      PROVE  (DbInv /\ BuildInv /\ OrderInv /\ CopyInv)'
  <2>1. DbInv'
    BY <1>2 DEF DbInv, Leq
  <2>2. BuildInv' /\ OrderInv' /\ CopyInv'
    BY <1>2 DEF BuildInv, OrderInv, CopyInv, Active, Leq
  <2> QED BY <2>1, <2>2
<1>3. ASSUME NEW w \in Writer, NEW T \in SUBSET Table, Commit(w, T)
      PROVE  (DbInv /\ BuildInv /\ OrderInv /\ CopyInv)'
  <2>1. Leq(db, db') /\ UNCHANGED <<announced, generation, copy, built, sure, builders>>
    BY <1>3 DEF Commit, Leq
  <2>2. ASSUME NEW v \in Writer PROVE Leq(wrote'[v], db')
    <3>1. CASE v = w
      BY <1>3, <3>1 DEF Commit, Leq
    <3>2. CASE v # w
      BY <1>3, <2>1, <3>2 DEF Commit, DbInv, Leq
    <3> QED BY <3>1, <3>2
  <2> QED BY <1>2, <2>1, <2>2
<1>4. ASSUME NEW t \in Table, WriteOutside(t) PROVE (DbInv /\ BuildInv /\ OrderInv /\ CopyInv)'
  <2>1. Leq(db, db') /\ UNCHANGED <<announced, generation, copy, built, sure, builders, wrote>>
    BY <1>4 DEF WriteOutside, Leq
  <2> QED BY <1>2, <2>1 DEF DbInv, Leq
<1>5. CASE Expire \/ UNCHANGED vars
  <2>1. UNCHANGED <<db, announced, generation, copy, built, sure, builders, wrote>>
    BY <1>5 DEF Expire, vars
  <2> QED BY <1>2, <2>1 DEF DbInv, Leq
<1> QED BY <1>1, <1>3, <1>4, <1>5

-----------------------------------------------------------------------------
(* Steps of a build.                                                       *)

LEMMA BeginStep ==
    ASSUME IInv, TypeOK', NEW b \in Builder, BeginBuild(b),
           UNCHANGED <<db, announced, cache, writers>>
    PROVE  (DbInv /\ BuildInv /\ OrderInv /\ CopyInv)'
<1> USE TableFacts DEF IInv, TypeOK, cache, writers, Vector
<1>1. /\ pc'[b] = "read" /\ at'[b] = generation /\ next'[b] = 1 /\ promise'[b] = announced
      /\ \A c \in Builder \ {b} : /\ pc'[c] = pc[c] /\ at'[c] = at[c] /\ next'[c] = next[c]
                                  /\ promise'[c] = promise[c] /\ got'[c] = got[c]
  BY DEF BeginBuild
<1>2. DbInv'
  BY DEF DbInv, Leq
<1>3. BuildInv'
  <2>1. ASSUME NEW c \in Builder \ {b}, Active(c)'
        PROVE  /\ at'[c] <= generation' /\ (at'[c] = generation' => Leq(announced', promise'[c]))
               /\ Leq(promise'[c], announced')
               /\ \A t \in Table : t < next'[c] => promise'[c][t] <= got'[c][t]
               /\ pc'[c] = "build" => next'[c] = Tables + 1
    BY <1>1, <2>1 DEF BuildInv, Active
  <2>2. /\ at'[b] <= generation' /\ Leq(announced', promise'[b]) /\ Leq(promise'[b], announced')
        /\ \A t \in Table : ~(t < next'[b])
        /\ pc'[b] # "build"
    BY <1>1 DEF Leq
  <2>3. ASSUME NEW c \in Builder PROVE c = b \/ c \in Builder \ {b}
    OBVIOUS
  <2> QED BY <2>1, <2>2, <2>3 DEF BuildInv, Leq
<1>4. OrderInv'
  <2> SUFFICES ASSUME NEW c \in Builder, NEW d \in Builder, Active(c)', Active(d)', at'[c] <= at'[d]
               PROVE  Leq(promise'[c], promise'[d])
    BY DEF OrderInv, Leq
  <2>1. CASE c # b /\ d # b
    BY <1>1, <2>1 DEF OrderInv, Active, Leq
  <2>2. CASE d = b
    BY <1>1, <2>2 DEF BuildInv, Active, Leq
  <2>3. CASE c = b /\ d # b
    <3>1. Active(d) /\ at[d] \in Nat /\ generation <= at[d] /\ promise'[d] = promise[d]
      BY <1>1, <2>3 DEF Active
    <3>2. at[d] = generation
      <4>1. at[d] <= generation
        BY <3>1 DEF BuildInv
      <4>2. generation \in Nat
        OBVIOUS
      <4> QED BY <3>1, <4>1, <4>2, Between
    <3>3. Leq(announced, promise[d])
      BY <3>1, <3>2 DEF BuildInv
    <3> QED BY <1>1, <2>3, <3>1, <3>3
  <2> QED BY <2>1, <2>2, <2>3
<1>5. CopyInv'
  BY <1>1 DEF CopyInv, Active, Leq
<1> QED BY <1>2, <1>3, <1>4, <1>5

LEMMA ReadStep ==
    ASSUME IInv, TypeOK', NEW b \in Builder, Read(b) \/ Build(b)
    PROVE  (DbInv /\ BuildInv /\ OrderInv /\ CopyInv)'
<1> USE TableFacts DEF IInv, TypeOK, cache, writers, Vector
<1>1. UNCHANGED <<db, announced, cache, writers, at, promise>>
  BY DEF Read, Build
<1>2. \A c \in Builder : Active(c)' <=> Active(c)
  BY DEF Read, Build, Active
<1>3. DbInv' /\ OrderInv' /\ CopyInv'
  BY <1>1, <1>2 DEF DbInv, OrderInv, CopyInv, Leq
<1>4. ASSUME NEW c \in Builder, Active(c), NEW t \in Table, t < next'[c]
      PROVE  promise[c][t] <= got'[c][t]
  <2>1. CASE got'[c] = got[c] /\ next'[c] = next[c]
    BY <1>4, <2>1 DEF BuildInv
  <2>2. CASE Read(b) /\ c = b
    <3>1. next'[b] = next[b] + 1 /\ next[b] \in Table
      BY <2>2 DEF Read, Table
    <3>2. got'[b] = [got[b] EXCEPT ![next[b]] = db[next[b]]]
      BY <2>2 DEF Read
    <3>3. CASE t = next[b]
      <4>1. got'[b][t] = db[t]
        BY <3>1, <3>2, <3>3
      <4>2. promise[b][t] <= announced[t] /\ announced[t] <= db[t]
        BY <1>4, <2>2 DEF BuildInv, DbInv, Leq
      <4> QED BY <2>2, <4>1, <4>2
    <3>4. CASE t # next[b]
      <4>1. t < next[b] /\ got'[b][t] = got[b][t]
        <5>1. t \in Nat /\ next[b] \in Nat /\ t < next[b] + 1
          BY <1>4, <2>2, <3>1
        <5>2. t < next[b]
          BY <3>4, <5>1, Between
        <5>3. got[b] \in Vector
          OBVIOUS
        <5> QED BY <3>2, <3>4, <5>2, <5>3
      <4>2. promise[b][t] <= got[b][t]
        BY <1>4, <2>2, <4>1 DEF BuildInv
      <4> QED BY <2>2, <4>1, <4>2
    <3> QED BY <3>3, <3>4
  <2> QED BY <2>1, <2>2 DEF Read, Build
<1>5. ASSUME NEW c \in Builder, pc'[c] = "build" PROVE next'[c] = Tables + 1
  <2>1. CASE pc[c] = "build"
    <3>1. next[c] = Tables + 1
      BY <2>1 DEF BuildInv, Active
    <3> QED BY <2>1, <3>1 DEF Read, Build
  <2>2. CASE pc[c] # "build"
    <3>1. c = b /\ Build(b)
      BY <1>5, <2>2 DEF Read, Build
    <3>2. next[b] \in 1..(Tables + 1) /\ next[b] > Tables /\ next'[c] = next[b]
      BY <3>1 DEF Build
    <3> QED BY <3>2, CacheAssumption
  <2> QED BY <2>1, <2>2
<1>6. BuildInv'
  BY <1>1, <1>2, <1>4, <1>5 DEF BuildInv, Leq
<1> QED BY <1>3, <1>6

\* The builds left when one leaves.
LEMMA LeaveStep ==
    ASSUME IInv, TypeOK', NEW b \in Builder, Done(b), UNCHANGED <<db, announced, generation, writers>>
    PROVE  /\ DbInv' /\ BuildInv' /\ OrderInv'
           /\ \A c \in Builder : Active(c)' => Active(c) /\ at'[c] = at[c] /\ promise'[c] = promise[c]
<1> USE TableFacts DEF IInv, TypeOK, writers, Vector
<1>1. /\ ~Active(b)'
      /\ \A c \in Builder \ {b} : /\ pc'[c] = pc[c] /\ at'[c] = at[c] /\ next'[c] = next[c]
                                  /\ promise'[c] = promise[c] /\ got'[c] = got[c]
  BY DEF Done, Active
<1>2. DbInv'
  BY DEF DbInv, Leq
<1>3. BuildInv' /\ OrderInv'
  BY <1>1 DEF BuildInv, OrderInv, Active, Leq
<1> QED BY <1>1, <1>2, <1>3 DEF Active

\* What a build stores covers its promise, and at least what the copy it replaces
\* was sure to hold.
LEMMA Kept ==
    ASSUME IInv, NEW b \in Builder, pc[b] = "build"
    PROVE  Leq(promise[b], got[b]) /\ (copy # NoCopy /\ built <= at[b] => Leq(sure, got[b]))
<1> USE TableFacts DEF IInv, TypeOK, Vector
<1>1. Leq(promise[b], got[b])
  BY DEF BuildInv, Active, Leq
<1>2. copy # NoCopy /\ built <= at[b] => Leq(sure, promise[b])
  BY DEF CopyInv, Active
<1> QED BY <1>1, <1>2 DEF Leq

LEMMA StoreStep ==
    ASSUME IInv, TypeOK', NEW b \in Builder, Store(b) \/ Fail(b)
    PROVE  (DbInv /\ BuildInv /\ OrderInv /\ CopyInv)'
<1>1. Done(b) /\ Active(b) /\ UNCHANGED <<db, announced, generation, writers>>
  BY DEF Store, Fail, Keep, Active, cache
<1>2. /\ DbInv' /\ BuildInv' /\ OrderInv'
      /\ \A c \in Builder : Active(c)' => Active(c) /\ at'[c] = at[c] /\ promise'[c] = promise[c]
  BY <1>1, LeaveStep
<1> USE TableFacts DEF IInv, TypeOK, Vector
<1>3. CASE UNCHANGED cache
  BY <1>1, <1>2, <1>3 DEF CopyInv, cache, Leq
<1>4. CASE pc[b] = "build" /\ Keep(b, at[b])
  <2>1. copy' = got[b] /\ built' = at[b] /\ sure' = promise[b] /\ generation' = generation
    BY <1>4 DEF Keep
  <2>2. /\ at[b] <= generation
        /\ at[b] = generation => Leq(announced, promise[b])
        /\ Leq(promise[b], announced)
    BY <1>1 DEF BuildInv
  <2>3. Leq(promise[b], got[b])
    BY <1>4, Kept
  <2>4. ASSUME NEW c \in Builder, Active(c)', built' <= at'[c] PROVE Leq(sure', promise'[c])
    BY <1>1, <1>2, <2>1, <2>4 DEF OrderInv
  <2> QED BY <1>1, <1>2, <2>1, <2>2, <2>3, <2>4 DEF CopyInv, Leq
<1> QED BY <1>3, <1>4 DEF Store, Fail

LEMMA Inductive == IInv /\ [Next]_vars => IInv'
<1> SUFFICES ASSUME IInv, [Next]_vars, TypeOK' PROVE (DbInv /\ BuildInv /\ OrderInv /\ CopyInv)'
  BY TypeStep DEF IInv
<1>1. CASE GetStale
  BY <1>1, BeginStep DEF GetStale, Builder, writers, bounds
<1>2. ASSUME NEW q \in Request, ForceRefresh(q) PROVE (DbInv /\ BuildInv /\ OrderInv /\ CopyInv)'
  <2>1. \A c \in Builder : Active(c)' => Active(c) /\ pc'[c] = pc[c]
    BY <1>2 DEF ForceRefresh, Active, Builder, IInv, TypeOK
  <2>2. UNCHANGED <<db, announced, cache, at, got, next, promise, writers>>
    BY <1>2 DEF ForceRefresh
  <2> QED BY <2>1, <2>2 DEF IInv, DbInv, BuildInv, OrderInv, CopyInv, Leq, cache, writers, Active
<1>3. ASSUME NEW q \in Request, BuildInline(q) PROVE (DbInv /\ BuildInv /\ OrderInv /\ CopyInv)'
  BY <1>3, BeginStep DEF BuildInline, Builder, writers, bounds
<1>4. ASSUME NEW b \in Builder, Work(b) \/ Fail(b) PROVE (DbInv /\ BuildInv /\ OrderInv /\ CopyInv)'
  BY <1>4, ReadStep, StoreStep DEF Work
<1>5. CASE Restart
  <2> USE TableFacts, CacheAssumption DEF Restart, IInv, TypeOK, Vector
  <2>1. DbInv'
    BY <1>5 DEF DbInv, Leq, Zero
  <2>2. \A b \in Builder : Active(b)' => b = Thread
    BY <1>5 DEF Active
  <2>3. /\ at'[Thread] = 0 /\ next'[Thread] = 1 /\ promise'[Thread] = announced /\ pc'[Thread] = "read"
        /\ announced' = announced /\ generation' = 0 /\ copy' = NoCopy
    BY <1>5 DEF Builder
  <2>4. BuildInv'
    <3>1. /\ at'[Thread] <= generation' /\ Leq(announced', promise'[Thread])
          /\ Leq(promise'[Thread], announced')
          /\ \A t \in Table : ~(t < next'[Thread])
          /\ pc'[Thread] # "build"
      BY <2>3 DEF Leq
    <3> QED BY <2>2, <3>1 DEF BuildInv, Leq
  <2>5. OrderInv' /\ CopyInv'
    BY <2>2, <2>3 DEF OrderInv, CopyInv, Leq
  <2> QED BY <2>1, <2>4, <2>5
<1> QED BY <1>1, <1>2, <1>3, <1>4, <1>5, WriteStep DEF Next, GetCold

LEMMA IInvHolds == Spec => []IInv
<1> QED BY InitIInv, Inductive, PTL DEF Spec

\* A copy that get would not call stale holds every announced write, however
\* builds and writes overlap (ranges_cache.py, the generation counter).
THEOREM CurrentCopyIsFresh == Spec => []FreshIsCurrent
<1>1. IInv => FreshIsCurrent
  <2> SUFFICES ASSUME IInv, built = generation, NEW t \in Table PROVE copy[t] >= announced[t]
    BY DEF FreshIsCurrent
  <2>1. copy # NoCopy
    BY DEF IInv, TypeOK
  <2>2. sure[t] <= copy[t] /\ announced[t] <= sure[t]
    BY <2>1 DEF IInv, CopyInv, Leq
  <2>3. copy[t] \in Nat /\ announced[t] \in Nat /\ sure[t] \in Nat
    BY <2>1 DEF IInv, TypeOK, Vector
  <2> QED BY <2>2, <2>3
<1> QED BY <1>1, IInvHolds, PTL

\* No store takes an announced write back out of the cache (store).
THEOREM CopyNeverStepsBack == Spec => NoStepBack
<1> DEFINE Forward == copy # NoCopy /\ copy' # NoCopy => \A t \in Table : copy'[t] >= sure[t]
<1>1. IInv /\ [Next]_vars => [Forward]_vars
  <2> SUFFICES ASSUME IInv, Next, copy # NoCopy, copy' # NoCopy, NEW t \in Table
               PROVE  copy'[t] >= sure[t]
    OBVIOUS
  <2>1. CASE copy' = copy
    <3>1. sure[t] <= copy[t]
      BY DEF IInv, CopyInv, Leq
    <3>2. sure[t] \in Nat /\ copy[t] \in Nat
      BY DEF IInv, TypeOK, Vector
    <3> QED BY <2>1, <3>1, <3>2
  <2>2. ASSUME NEW b \in Builder, Store(b), at[b] >= built PROVE copy'[t] >= sure[t]
    <3>1. copy' = got[b] /\ pc[b] = "build"
      BY <2>2 DEF Store, Keep
    <3>2. built \in Int /\ at[b] \in Int /\ sure[t] \in Nat /\ got[b][t] \in Nat
      BY DEF IInv, TypeOK, Vector
    <3>3. Leq(sure, got[b])
      BY <2>2, <3>1, <3>2, Kept
    <3> QED BY <3>1, <3>2, <3>3 DEF Leq
  <2>3. copy' = copy \/ (\E b \in Builder : Store(b) /\ at[b] >= built)
    BY DEF Next, Work, Commit, Invalidate, WriteOutside, Expire, GetStale, Restart, GetCold, ForceRefresh,
           BuildInline, BeginBuild, Read, Build, Store, Fail, cache
  <2> QED BY <2>1, <2>2, <2>3
<1> QED BY <1>1, IInvHolds, PTL DEF Spec, NoStepBack

=============================================================================
