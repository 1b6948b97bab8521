------------------------- MODULE ReviewClaimsProofs -------------------------
(***************************************************************************)
(* Proofs about ReviewClaims for every transcript, every set of families   *)
(* and every number of edits, failures, crashes and uses of the script.    *)
(* The first part holds whenever links are edited; the second while no     *)
(* edit has hit a run.                                                     *)
(***************************************************************************)
EXTENDS ReviewClaims, TLAPS

\* Without the script: what a run may rely on whoever edits links meanwhile.  It
\* stages only for a marked review, and what it has to write is not there yet.
RunInv ==
    scripts = 0 =>
        /\ pc # "idle" => (staging <=> autoSwap)
        /\ pc # "idle" /\ staging => marked
        /\ pc = "swap" => staging
        /\ pc = "windows" /\ ~staging => \A w \in todo : live[w] = NoClaim

JobInv == TypeOK /\ StagedIsMarked /\ RunInv

\* With the script too, and the links left alone: a run that missed nothing has
\* staged all it passed, so it swaps a complete set only.
StageInv ==
    /\ autoSwap => staging
    /\ ~raced =>
        /\ pc = "windows" /\ staging /\ ~missed => Window \ todo \subseteq Saved(staged)
        /\ pc = "swap" => Saved(staged) = Window

\* Without the script and with the links left alone: the run's links are today's
\* and what is staged is for them.
QuietInv ==
    ~raced /\ scripts = 0 =>
        /\ pc # "idle" => cands = Effective
        /\ pc = "windows" /\ ~staging => ~marked
        /\ ~marked => \A w \in Window : live[w] \in {NoClaim, Effective}
        /\ \A w \in Window : staged[w] \in {NoClaim, Effective}

\* A review that never matched has nothing to its name, and a rematch in flight
\* has no auto link to replace: where its link will count, no claim stands that
\* is not marked.
PendingInv ==
    /\ status # "matched" => auto = {} /\ pc = "idle" /\ Saved(live) = {} /\ Saved(staged) = {}
    /\ rematching => auto = {}
    /\ ~raced /\ rematching /\ human = {} =>
           pc = "idle" /\ Saved(staged) = {} /\ (marked \/ Saved(live) = {})

-----------------------------------------------------------------------------
LEMMA NoClaimsType == NoClaims \in Claims
  BY DEF NoClaims, Claims

LEMMA InitJob == Init => JobInv /\ StageInv /\ QuietInv /\ PendingInv
<1> SUFFICES ASSUME Init PROVE JobInv /\ StageInv /\ QuietInv /\ PendingInv
  OBVIOUS
<1> USE ReviewAssumption DEF Init
<1>1. TypeOK
  <2>1. auto \in SUBSET Family
    OBVIOUS
  <2>2. status \in {"pending", "matched", "irrelevant"} /\ rematching \in BOOLEAN
    OBVIOUS
  <2>3. live \in Claims /\ staged \in Claims
    BY NoClaimsType
  <2>4. /\ edits \in 0..MaxEdits /\ failures \in 0..MaxFailures
        /\ crashes \in 0..MaxCrashes /\ scripts \in 0..MaxScripts
    OBVIOUS
  <2> QED BY <2>1, <2>2, <2>3, <2>4 DEF TypeOK
<1>2. StagedIsMarked /\ RunInv /\ StageInv /\ QuietInv /\ PendingInv
  BY DEF StagedIsMarked, RunInv, StageInv, QuietInv, PendingInv, Saved, NoClaims
<1> QED BY <1>1, <1>2 DEF JobInv

\* No step leaves the types.
LEMMA TypeStep == TypeOK /\ [Next]_vars => TypeOK'
<1> SUFFICES ASSUME TypeOK, [Next]_vars PROVE TypeOK'
  OBVIOUS
<1> USE ReviewAssumption DEF TypeOK, Claims, links, claims, run, bounds
<1>1. Effective \in SUBSET Family
  BY DEF Effective
<1>2. ASSUME NEW f \in Family, AddLink(f) PROVE TypeOK'
  BY <1>2, NoClaimsType DEF AddLink, CountEdit, OnLinksChanged
<1>3. ASSUME NEW f \in Family, DeleteLink(f) PROVE TypeOK'
  BY <1>3, NoClaimsType DEF DeleteLink, CountEdit, OnLinksChanged
<1>4. ASSUME NEW s \in BOOLEAN, BeginRun(s), UNCHANGED bounds \/ CountScript PROVE TypeOK'
  <2>1. /\ raced' \in BOOLEAN /\ edits' \in 0..MaxEdits /\ failures' \in 0..MaxFailures
        /\ crashes' \in 0..MaxCrashes /\ scripts' \in 0..MaxScripts
    BY <1>4 DEF CountScript
  <2>2. /\ UNCHANGED <<links, claims>>
        /\ autoSwap' \in BOOLEAN /\ staging' \in BOOLEAN /\ missed' \in BOOLEAN
        /\ todo' \in SUBSET Window /\ cands' \in SUBSET Family
        /\ pc' \in {"idle", "windows", "swap"}
    BY <1>1, <1>4 DEF BeginRun, Saved
  <2> QED BY <2>1, <2>2
<1>5. ASSUME NEW w \in Window, SaveWindow(w) PROVE TypeOK'
  BY <1>5 DEF SaveWindow
<1>6. ASSUME NEW w \in Window, FailWindow(w) PROVE TypeOK'
  BY <1>6 DEF FailWindow
<1>7. CASE EndWindows \/ Swap
  BY <1>7, NoClaimsType DEF EndWindows, Swap
<1>8. CASE SwapScript
  <2>1. scripts' \in 0..MaxScripts /\ UNCHANGED <<raced, edits, failures, crashes>>
    BY <1>8 DEF SwapScript, CountScript
  <2>2. UNCHANGED <<links, run>> /\ live' = staged /\ staged' = live /\ marked' = FALSE
    BY <1>8 DEF SwapScript
  <2> QED BY <2>1, <2>2
<1>9. CASE Crash
  BY <1>9 DEF Crash
<1>10. CASE UNCHANGED vars
  BY <1>10 DEF vars
<1>11. CASE SetIrrelevant
  BY <1>11 DEF SetIrrelevant
<1>12. CASE RematchRead \/ NotRematched
  BY <1>12 DEF RematchRead, NotRematched
<1>13. ASSUME NEW f \in Family, Rematched(f) PROVE TypeOK'
  BY <1>13 DEF Rematched
<1> QED BY <1>2, <1>3, <1>4, <1>5, <1>6, <1>7, <1>8, <1>9, <1>10, <1>11, <1>12, <1>13
        DEF Next, Rematch, Edit, BeginJob, Loop, Script, BeginScript

\* Every column and the run's variables keep their types.
THEOREM TypeCorrect == Spec => []TypeOK
<1>1. Init => TypeOK
  BY InitJob DEF JobInv
<1> QED BY <1>1, TypeStep, PTL DEF Spec

-----------------------------------------------------------------------------
(* Whenever links are edited.                                              *)

LEMMA ScriptCounts == TypeOK /\ Script => scripts' # 0
<1> SUFFICES ASSUME TypeOK, Script PROVE scripts' # 0
  OBVIOUS
<1>1. scripts \in Nat
  BY ReviewAssumption DEF TypeOK
<1>2. CountScript
  BY DEF Script, BeginScript, SwapScript
<1>3. scripts' = scripts + 1
  BY <1>2 DEF CountScript
<1> QED BY <1>1, <1>3

\* Dismissing and rematching leave claims and runs alone.
LEMMA StatusSteps == SetIrrelevant \/ Rematch => UNCHANGED <<claims, run, bounds, human>>
  BY DEF SetIrrelevant, Rematch, RematchRead, Rematched, NotRematched

\* Without the script, a staged claim keeps its mark and a run its destination.
LEMMA JobStep == JobInv /\ [Next]_vars => JobInv'
<1> SUFFICES ASSUME JobInv, [Next]_vars, scripts' = 0 PROVE StagedIsMarked' /\ RunInv'
  BY TypeStep DEF JobInv, StagedIsMarked, RunInv
<1> USE DEF JobInv, TypeOK, StagedIsMarked, RunInv, Claims, Saved, links, claims, run, bounds
<1>1. ASSUME NEW f \in Family, AddLink(f) \/ DeleteLink(f) PROVE StagedIsMarked' /\ RunInv'
  <2>1. staged' = NoClaims /\ live' = live /\ (marked => marked') /\ scripts' = scripts
    BY <1>1 DEF AddLink, DeleteLink, OnLinksChanged, CountEdit
  <2>2. UNCHANGED run
    BY <1>1 DEF AddLink, DeleteLink
  <2> QED BY <2>1, <2>2 DEF NoClaims
<1>2. CASE BeginJob
  <2>1. autoSwap' = marked /\ staging' = marked /\ UNCHANGED <<claims, scripts>>
    BY <1>2 DEF BeginJob, BeginRun
  <2>2. todo' = {} => marked
    BY <1>2 DEF BeginJob, BeginRun
  <2>3. ~marked => \A w \in todo' : live[w] = NoClaim
    BY <1>2, <2>1 DEF BeginJob, BeginRun
  <2>4. pc' = "swap" => todo' = {}
    BY <1>2 DEF BeginJob, BeginRun
  <2> QED BY <2>1, <2>2, <2>3, <2>4
<1>3. ASSUME NEW w \in Window, SaveWindow(w) PROVE StagedIsMarked' /\ RunInv'
  BY <1>3 DEF SaveWindow
<1>4. ASSUME NEW w \in Window, FailWindow(w) PROVE StagedIsMarked' /\ RunInv'
  BY <1>4 DEF FailWindow
<1>5. CASE EndWindows
  BY <1>5 DEF EndWindows
<1>6. CASE Swap
  BY <1>6 DEF Swap, NoClaims
<1>7. CASE Script
  BY <1>7, ScriptCounts
<1>8. CASE Crash
  BY <1>8 DEF Crash
<1>9. CASE UNCHANGED vars
  BY <1>9 DEF vars
<1>10. CASE SetIrrelevant \/ Rematch
  BY <1>10, StatusSteps
<1> QED BY <1>1, <1>2, <1>3, <1>4, <1>5, <1>6, <1>7, <1>8, <1>9, <1>10 DEF Next, Edit, Loop

LEMMA JobInvHolds == Spec => []JobInv
<1>1. Init => JobInv
  BY InitJob
<1>2. JobInv /\ [Next]_vars => JobInv'
  BY JobStep
<1> QED BY <1>1, <1>2, PTL DEF Spec

\* A review with staged claims stays marked, whatever the timing of link edits,
\* failures and crashes (on_links_changed, process_raw_review): a later run
\* always finds the set to complete.
THEOREM StagedStaysMarked == Spec => []StagedIsMarked
<1>1. JobInv => StagedIsMarked
  BY DEF JobInv
<1> QED BY <1>1, JobInvHolds, PTL

\* A public claim is replaced only by the swap of a marked review's staged set,
\* whatever the timing of link edits (process_raw_review, swap_claims).
THEOREM SwapOnly == Spec => ReplacedOnlyBySwap
<1> DEFINE Replaced == \A w \in Window : scripts' = 0 /\ live[w] # NoClaim /\ live'[w] # live[w]
                           => marked /\ ~marked' /\ live' = staged
<1>1. JobInv /\ [Next]_vars => [Replaced]_vars
  <2> SUFFICES ASSUME JobInv, Next, scripts' = 0 PROVE Replaced
    OBVIOUS
  <2> USE DEF JobInv, TypeOK, RunInv, Claims, links, claims, run, bounds
  <2>1. ASSUME NEW w \in Window, SaveWindow(w) PROVE Replaced
    BY <2>1 DEF SaveWindow, Next1
  <2>2. CASE Swap
    BY <2>2 DEF Swap
  <2>3. CASE Edit \/ BeginJob \/ EndWindows \/ Crash \/ \E w \in Window : FailWindow(w)
    BY <2>3 DEF Edit, AddLink, DeleteLink, OnLinksChanged, BeginJob, BeginRun, EndWindows,
                Crash, FailWindow
  <2>4. CASE Script
    BY <2>4, ScriptCounts
  <2>5. CASE SetIrrelevant \/ Rematch
    BY <2>5, StatusSteps
  <2> QED BY <2>1, <2>2, <2>3, <2>4, <2>5 DEF Next, Loop
<1> QED BY <1>1, JobInvHolds, PTL DEF Spec, ReplacedOnlyBySwap

-----------------------------------------------------------------------------
(* While no link edit has hit a run.                                       *)

LEMMA StageStep == TypeOK /\ StageInv /\ [Next]_vars => StageInv'
<1> SUFFICES ASSUME TypeOK, StageInv, [Next]_vars PROVE StageInv'
  OBVIOUS
<1> USE DEF StageInv, TypeOK, Claims, Saved, links, claims, run, bounds
<1>1. ASSUME NEW f \in Family, AddLink(f) \/ DeleteLink(f) PROVE StageInv'
  <2>1. (~raced' => ~raced /\ pc = "idle") /\ UNCHANGED run
    BY <1>1 DEF AddLink, DeleteLink, CountEdit
  <2> QED BY <2>1
<1>2. ASSUME NEW s \in BOOLEAN, BeginRun(s), raced' = raced PROVE StageInv'
  <2>1. autoSwap' => staging'
    BY <1>2 DEF BeginRun
  <2>2. staging' => Window \ todo' = Saved(staged)
    BY <1>2 DEF BeginRun
  <2>3. pc' = "swap" => todo' = {} /\ autoSwap'
    BY <1>2 DEF BeginRun
  <2>4. staged' = staged
    BY <1>2 DEF BeginRun
  <2> QED BY <1>2, <2>1, <2>2, <2>3, <2>4
<1>3. ASSUME NEW w \in Window, SaveWindow(w) PROVE StageInv'
  <2>1. cands # NoClaim
    BY ReviewAssumption
  <2>2. UNCHANGED <<pc, staging, autoSwap, missed, raced>> /\ pc = "windows"
    BY <1>3 DEF SaveWindow
  <2>3. staging /\ Window \ todo \subseteq Saved(staged) => Window \ todo' \subseteq Saved(staged')
    <3>1. staging => staged'[w] = cands /\ \A x \in Window \ {w} : staged'[x] = staged[x]
      BY <1>3 DEF SaveWindow
    <3> QED BY <1>3, <2>1, <3>1 DEF SaveWindow
  <2> QED BY <2>2, <2>3
<1>4. ASSUME NEW w \in Window, FailWindow(w) PROVE StageInv'
  BY <1>4 DEF FailWindow
<1>5. CASE EndWindows
  BY <1>5 DEF EndWindows
<1>6. CASE Swap \/ Crash
  BY <1>6 DEF Swap, Crash
<1>7. CASE SwapScript
  BY <1>7 DEF SwapScript, CountScript
<1>8. CASE UNCHANGED vars
  BY <1>8 DEF vars
<1>9. CASE SetIrrelevant \/ Rematch
  BY <1>9, StatusSteps
<1> QED BY <1>1, <1>2, <1>3, <1>4, <1>5, <1>6, <1>7, <1>8, <1>9
        DEF Next, Edit, BeginJob, Loop, Script, BeginScript, CountScript

\* A public window never loses its claim while no edit hits a run, with the
\* script in use: a swap happens only with every window staged, through
\* failures, crashes and resumed runs (on_links_changed).
THEOREM PageKeepsItsWindows == Spec => PageNeverShrinks
<1> DEFINE Grows == ~raced' => Saved(live) \subseteq Saved(live')
<1>1. TypeOK /\ StageInv /\ [Next]_vars => [Grows]_vars
  <2> SUFFICES ASSUME TypeOK, StageInv, Next, ~raced' PROVE Grows
    OBVIOUS
  <2> USE ReviewAssumption DEF StageInv, TypeOK, Claims, Saved, links, claims, run, bounds
  <2>1. ASSUME NEW w \in Window, SaveWindow(w) PROVE Grows
    <3>1. cands # NoClaim
      OBVIOUS
    <3> QED BY <2>1, <3>1 DEF SaveWindow
  <2>2. CASE Swap
    BY <2>2 DEF Swap
  <2>3. CASE SwapScript
    BY <2>3 DEF SwapScript
  <2>4. CASE Edit \/ BeginJob \/ BeginScript \/ EndWindows \/ Crash \/ \E w \in Window : FailWindow(w)
    BY <2>4 DEF Edit, AddLink, DeleteLink, OnLinksChanged, BeginJob, BeginScript, BeginRun,
                EndWindows, Crash, FailWindow
  <2>5. CASE SetIrrelevant \/ Rematch
    BY <2>5, StatusSteps
  <2> QED BY <2>1, <2>2, <2>3, <2>4, <2>5 DEF Next, Loop, Script
<1>2. Init => TypeOK /\ StageInv
  BY InitJob DEF JobInv
<1>3. (TypeOK /\ StageInv) /\ [Next]_vars => (TypeOK /\ StageInv)'
  BY TypeStep, StageStep
<1> QED BY <1>1, <1>2, <1>3, PTL DEF Spec, PageNeverShrinks

LEMMA PendingStep == TypeOK /\ PendingInv /\ [Next]_vars => PendingInv'
<1> SUFFICES ASSUME TypeOK, PendingInv, [Next]_vars PROVE PendingInv'
  OBVIOUS
<1> USE DEF PendingInv, Saved, links, claims, run, bounds
<1>1. ASSUME NEW f \in Family, AddLink(f) PROVE PendingInv'
  <2>1. /\ auto' = auto /\ UNCHANGED <<rematching, run, live>> /\ staged' = NoClaims
        /\ (status' # "matched" => status # "matched")
    BY <1>1 DEF AddLink, OnLinksChanged
  <2>2. human' # {}
    BY <1>1 DEF AddLink
  <2> QED BY <2>1, <2>2 DEF NoClaims
<1>2. ASSUME NEW f \in Family, DeleteLink(f) PROVE PendingInv'
  <2>1. /\ auto' \subseteq auto /\ UNCHANGED <<status, rematching, run, live>>
        /\ staged' = NoClaims /\ marked' = (marked \/ Saved(live) # {})
    BY <1>2 DEF DeleteLink, OnLinksChanged
  <2>2. ~raced' => pc = "idle"
    BY <1>2 DEF DeleteLink, CountEdit
  <2> QED BY <2>1, <2>2 DEF NoClaims
<1>3. CASE SetIrrelevant \/ Rematch
  BY <1>3, StatusSteps DEF SetIrrelevant, Rematch, RematchRead, Rematched, NotRematched
<1>4. ASSUME NEW s \in BOOLEAN, BeginRun(s), raced' = raced PROVE PendingInv'
  <2>1. status = "matched" /\ Effective # {} /\ UNCHANGED <<links, claims>>
    BY <1>4 DEF BeginRun, Processable
  <2>2. ~(rematching /\ human = {})
    BY <2>1 DEF Effective
  <2> QED BY <2>1, <2>2
<1>5. CASE Loop \/ Crash
  <2>1. /\ pc # "idle" /\ UNCHANGED <<links, raced>>
    BY <1>5 DEF Loop, EndWindows, Swap, SaveWindow, FailWindow, Crash
  <2>2. status = "matched" /\ ~(~raced /\ rematching /\ human = {})
    BY <2>1
  <2> QED BY <2>1, <2>2
<1>6. CASE SwapScript
  <2>1. status = "matched" /\ Effective # {} /\ UNCHANGED links
    BY <1>6 DEF SwapScript, Processable
  <2>2. ~(rematching /\ human = {})
    BY <2>1 DEF Effective
  <2> QED BY <2>1, <2>2
<1>7. CASE UNCHANGED vars
  BY <1>7 DEF vars
<1> QED BY <1>1, <1>2, <1>3, <1>4, <1>5, <1>6, <1>7
        DEF Next, Edit, BeginJob, Script, BeginScript, CountScript

LEMMA QuietStep == JobInv /\ StageInv /\ QuietInv /\ PendingInv /\ [Next]_vars => QuietInv'
<1> SUFFICES ASSUME JobInv, StageInv, QuietInv, PendingInv, [Next]_vars, ~raced', scripts' = 0
             PROVE  QuietInv'
  BY DEF QuietInv
<1> USE DEF JobInv, StageInv, QuietInv, TypeOK, RunInv, Claims, Saved, links, claims, run, bounds
<1>1. ASSUME NEW f \in Family, AddLink(f) \/ DeleteLink(f) PROVE QuietInv'
  <2>1. pc = "idle" /\ pc' = "idle" /\ staged' = NoClaims /\ live' = live
    BY <1>1 DEF AddLink, DeleteLink, CountEdit, OnLinksChanged
  <2>2. ~marked' => Saved(live) = {}
    BY <1>1 DEF AddLink, DeleteLink, OnLinksChanged
  <2> QED BY <2>1, <2>2 DEF NoClaims
<1>2. CASE BeginJob
  <2>1. /\ staging' = marked /\ cands' = Effective
        /\ UNCHANGED <<claims, links, bounds>>
    BY <1>2 DEF BeginJob, BeginRun
  <2>2. Effective' = Effective
    BY <2>1 DEF Effective
  <2> QED BY <2>1, <2>2
<1>3. ASSUME NEW w \in Window, SaveWindow(w) PROVE QuietInv'
  <2>1. Effective' = Effective /\ UNCHANGED bounds
    BY <1>3 DEF SaveWindow, Effective
  <2>2. CASE staging
    <3>1. staged' = [staged EXCEPT ![w] = Effective] /\ live' = live
      BY <1>3, <2>1, <2>2 DEF SaveWindow
    <3>2. staged'[w] = Effective /\ \A x \in Window \ {w} : staged'[x] = staged[x]
      BY <3>1
    <3> QED BY <1>3, <2>1, <2>2, <3>1, <3>2 DEF SaveWindow
  <2>3. CASE ~staging
    <3>1. live' = [live EXCEPT ![w] = Effective] /\ staged' = staged
      BY <1>3, <2>1, <2>3 DEF SaveWindow
    <3>2. live'[w] = Effective /\ \A x \in Window \ {w} : live'[x] = live[x]
      BY <3>1
    <3> QED BY <1>3, <2>1, <2>3, <3>1, <3>2 DEF SaveWindow
  <2> QED BY <2>2, <2>3
<1>4. ASSUME NEW w \in Window, FailWindow(w) PROVE QuietInv'
  BY <1>4 DEF FailWindow, Effective
<1>5. CASE EndWindows
  BY <1>5 DEF EndWindows, Effective
<1>6. CASE Swap
  BY <1>6 DEF Swap, NoClaims, Effective
<1>7. CASE Script
  BY <1>7, ScriptCounts
<1>8. CASE Crash
  BY <1>8 DEF Crash, Effective
<1>9. CASE UNCHANGED vars
  BY <1>9 DEF vars, Effective
<1>10. CASE SetIrrelevant \/ RematchRead \/ NotRematched
  BY <1>10 DEF SetIrrelevant, RematchRead, NotRematched, Effective
<1>11. ASSUME NEW f \in Family, Rematched(f) PROVE QuietInv'
  <2>1. rematching /\ UNCHANGED <<human, claims, run, bounds>>
    BY <1>11 DEF Rematched
  <2>2. CASE human # {}
    BY <2>1, <2>2 DEF Effective
  <2>3. CASE human = {}
    BY <2>1, <2>3 DEF PendingInv
  <2> QED BY <2>2, <2>3
<1> QED BY <1>1, <1>2, <1>3, <1>4, <1>5, <1>6, <1>7, <1>8, <1>9, <1>10, <1>11
        DEF Next, Edit, Loop, Rematch

LEMMA QuietInvHolds == Spec => [](JobInv /\ StageInv /\ QuietInv /\ PendingInv)
<1>1. Init => JobInv /\ StageInv /\ QuietInv /\ PendingInv
  BY InitJob
<1>2. (JobInv /\ StageInv /\ QuietInv /\ PendingInv) /\ [Next]_vars
          => (JobInv /\ StageInv /\ QuietInv /\ PendingInv)'
  BY JobStep, StageStep, QuietStep, PendingStep DEF JobInv
<1> QED BY <1>1, <1>2, PTL DEF Spec

\* An unmarked review shows claims of its current links only, and staged claims are
\* for them too: no resumed run completes an outdated set.
THEOREM ClaimsStayFresh == Spec => []ClaimsFollowLinks
<1>1. QuietInv => ClaimsFollowLinks
  BY DEF QuietInv, ClaimsFollowLinks, UnmarkedIsFresh, StagedIsFresh
<1> QED BY <1>1, QuietInvHolds, PTL

=============================================================================
