--------------------------- MODULE SliceWavesProofs ---------------------------
(***************************************************************************)
(* What SliceWaves guarantees for any number of slices, any plan whose     *)
(* dependencies point backwards, any paths, rounds and faults.             *)
(***************************************************************************)
EXTENDS SliceWaves, SliceScopesProofs, FiniteSetTheorems, TLAPS

Over == {"idle", "advance", "halt"}

\* A slice that is recorded has settled, and a run goes on only while none has halted.
Recorded ==
  /\ \A i \in Completed : at[i] \in {"advance", "halt"}
  /\ stage \in {"plan", "wave", "compose"} => \A i \in Completed : at[i] = "advance"

\* A slice that advances stayed in its allowlist, and no two of a wave overlap.
Confined ==
  /\ \A i \in Slice : at[i] = "advance" => wrote[i] \subseteq InScope(i)
  /\ \A i, j \in wave : i # j => ~Overlap(i, j)

\* The head has moved from the wave's base only where a recorded slice of it wrote.
HeadOfWave ==
  /\ stage = "wave" => head = base /\ wave \cap Completed = {}
  /\ stage = "compose" => /\ \A i \in wave : at[i] \in {"advance", "halt"}
                          /\ \A p \in Occupied : \E i \in wave \cap Completed : p \in wrote[i]

WaveInv == TypeOK /\ Recorded /\ Confined /\ HeadOfWave

LEMMA PlanType ==
  ASSUME plan \in Plans
  PROVE  /\ \A i \in Slice : plan.after[i] \subseteq Slice
         /\ \A i \in Slice : plan.allow[i] \in SUBSET Seq(STRING)
BY PlansAssumption DEF Slice

\* The scheduler's question is the same of either slice.
LEMMA OverlapIsMutual == \A i, j \in Slice : Overlap(i, j) <=> Overlap(j, i)
BY DEF Overlap, AllowlistsOverlap, GlobsMayMeet

\* Slices that the scheduler lets share a wave may write no path in common.
LEMMA ScopesApart ==
  ASSUME plan \in Plans, NEW i \in Slice, NEW j \in Slice, ~Overlap(i, j)
  PROVE  InScope(i) \cap InScope(j) = {}
<1>1. SUFFICES ASSUME NEW p \in InScope(i), p \in InScope(j) PROVE FALSE
  OBVIOUS
<1>2. p \in Seq(STRING) /\ Allows(plan.allow[i], p) /\ Allows(plan.allow[j], p)
  BY <1>1, PlansAssumption DEF InScope
<1>3. IsPrefix(p, p)
  BY <1>2, PrefixIs
<1>4. plan.allow[i] \in SUBSET Seq(STRING) /\ plan.allow[j] \in SUBSET Seq(STRING)
  BY PlanType
<1>5. ~AllowlistsOverlap(plan.allow[i], plan.allow[j])
  BY DEF Overlap
<1>6. QED
  BY <1>2, <1>3, <1>4, <1>5, SeparateScopes

LEMMA CompletedType ==
  ASSUME recorded \in Seq(Slice)
  PROVE  Completed \subseteq Slice /\ \A i : i \in Completed <=> \E k \in 1..Len(recorded) : recorded[k] = i
BY DEF Completed, ToSet

LEMMA CompletedGrows ==
  ASSUME recorded \in Seq(Slice), NEW i \in Slice, recorded' = Append(recorded, i)
  PROVE  /\ Completed' = Completed \cup {i}
         /\ recorded' \in Seq(Slice)
         /\ Len(recorded') = Len(recorded) + 1
         /\ recorded'[Len(recorded) + 1] = i
         /\ \A k \in 1..Len(recorded) : recorded'[k] = recorded[k]
<1>1. /\ recorded' \in Seq(Slice) /\ Len(recorded') = Len(recorded) + 1
      /\ recorded'[Len(recorded) + 1] = i
      /\ \A k \in 1..Len(recorded) : recorded'[k] = recorded[k]
  OBVIOUS
<1>2. DOMAIN recorded' = 1..(Len(recorded) + 1) /\ DOMAIN recorded = 1..Len(recorded)
  BY <1>1
<1>3. Len(recorded) \in Nat
  OBVIOUS
<1>4. ASSUME NEW x PROVE x \in Completed' <=> x \in Completed \/ x = i
  BY <1>1, <1>2, <1>3 DEF Completed, ToSet
<1>5. QED
  BY <1>1, <1>4

LEMMA TreeType == \A t \in Tree, p \in Paths : t[p] \in 0..N
BY DEF Tree


Places == {"idle", "start", "implement", "freeze", "verify", "candidate", "advance", "halt", "threw"}
Busy == {"start", "implement", "freeze", "verify", "candidate"}

-----------------------------------------------------------------------------
(* Types *)

LEMMA TypeOKInit == Init => TypeOK
<1>1. ASSUME Init PROVE TypeOK
  <2>1. <<>> \in Seq(Slice) /\ DOMAIN <<>> = {} /\ MaxRounds \in Nat /\ N \in Nat
    BY PlansAssumption
  <2>2. base \in Tree /\ head \in Tree
    BY <1>1, <2>1 DEF Init, Tree
  <2>3. at \in [Slice -> Places] /\ round \in [Slice -> 0..MaxRounds] /\ wrote \in [Slice -> SUBSET Paths]
    BY <1>1, <2>1 DEF Init, Places
  <2>4. saw \in [Slice -> Tree]
    BY <1>1, <2>2 DEF Init
  <2>5. recorded \in Seq(Slice) /\ IsInjective(recorded)
    BY <1>1, <2>1 DEF Init, IsInjective
  <2>6. QED
    BY <1>1, <2>2, <2>3, <2>4, <2>5 DEF Init, TypeOK, Places
<1>2. QED
  BY <1>1

LEMMA StartWaveTypes == TypeOK /\ StartWave => TypeOK'
<1>1. ASSUME TypeOK, StartWave PROVE TypeOK'
  <2>1. wave' \subseteq Slice /\ wrote' \in [Slice -> SUBSET Paths]
    BY <1>1 DEF StartWave
  <2>2. at' \in [Slice -> Places]
    BY <1>1 DEF StartWave, TypeOK, Places
  <2>3. saw' \in [Slice -> Tree] /\ base' \in Tree
    BY <1>1 DEF StartWave, TypeOK
  <2>4. QED
    BY <1>1, <2>1, <2>2, <2>3 DEF StartWave, TypeOK, Places, shared, pipeline
<1>2. QED
  BY <1>1

LEMMA GivenUpTypes ==
  ASSUME TypeOK, NEW i \in Slice
  PROVE  /\ Worktree(i) \in Slice \X (0..MaxRounds)
         /\ GivenUp(i) => {trees', reported'} \subseteq SUBSET (Slice \X (0..MaxRounds))
<1>1. Worktree(i) \in Slice \X (0..MaxRounds)
  BY DEF TypeOK, Worktree
<1>2. QED
  BY <1>1 DEF GivenUp, TypeOK

LEMMA WorkerTypes == ASSUME TypeOK, NEW i \in Slice, WorkerNext(i) PROVE TypeOK'
<1> DEFINE Refs == SUBSET (Slice \X (0..MaxRounds))
<1>1. CASE CreateWorktree(i)
  <2>1. at' \in [Slice -> Places]
    BY <1>1 DEF CreateWorktree, Goes, TypeOK, Places
  <2>2. trees' \in Refs
    BY <1>1, GivenUpTypes DEF CreateWorktree, TypeOK
  <2>3. QED
    BY <1>1, <2>1, <2>2 DEF CreateWorktree, TypeOK, Places, runner, pipeline
<1>2. CASE Implement(i)
  <2>1. at' \in [Slice -> Places] /\ wrote' \in [Slice -> SUBSET Paths]
    BY <1>2 DEF Implement, Goes, TypeOK, Places
  <2>2. QED
    BY <1>2, <2>1 DEF Implement, TypeOK, Places, runner, shared, pipeline
<1>3. CASE CreateRef(i)
  <2>1. at' \in [Slice -> Places]
    BY <1>3 DEF CreateRef, Goes, TypeOK, Places
  <2>2. <<i, round[i]>> \in Slice \X (0..MaxRounds)
    BY DEF TypeOK
  <2>3. known' \in Refs /\ refs' \in Refs
    BY <1>3, <2>2 DEF CreateRef, TypeOK
  <2>4. QED
    BY <1>3, <2>1, <2>3 DEF CreateRef, TypeOK, Places, runner, pipeline
<1>4. CASE Verify(i)
  <2>1. at' \in [Slice -> Places]
    BY <1>4 DEF Verify, Goes, TypeOK, Places
  <2>2. {trees', reported'} \subseteq Refs
    BY <1>4, GivenUpTypes DEF Verify
  <2>3. QED
    BY <1>4, <2>1, <2>2 DEF Verify, TypeOK, Places, runner, pipeline
<1>5. CASE WorkerThrows(i)
  <2>1. at' \in [Slice -> Places]
    BY <1>5 DEF WorkerThrows, Goes, TypeOK, Places
  <2>2. {trees', reported'} \subseteq Refs
    BY <1>5, GivenUpTypes DEF WorkerThrows, TypeOK
  <2>3. QED
    BY <1>5, <2>1, <2>2 DEF WorkerThrows, TypeOK, Places, runner, pipeline
<1>6. CASE Route(i)
  <2>1. PICK passed \in BOOLEAN :
          LET repairs == ~Clean(i, passed) /\ RoundsLeft(i)
          IN /\ Goes(i, "candidate", IF Clean(i, passed) THEN "advance"
                                     ELSE IF repairs THEN "start" ELSE "halt")
             /\ round' = [round EXCEPT ![i] = IF repairs THEN @ + 1 ELSE @]
             /\ UNCHANGED <<plan, runner, wrote, saw, known, shared, pipeline, alive>>
    BY <1>6 DEF Route
  <2>2. at' \in [Slice -> Places]
    BY <2>1 DEF Goes, TypeOK, Places
  <2>3. RoundsLeft(i) => round[i] + 1 \in 0..MaxRounds
    BY PlansAssumption DEF RoundsLeft, TypeOK
  <2>4. round' \in [Slice -> 0..MaxRounds]
    BY <2>1, <2>3 DEF TypeOK
  <2>5. QED
    BY <2>1, <2>2, <2>4 DEF TypeOK, Places, runner, shared, pipeline
<1>7. QED
  BY <1>1, <1>2, <1>3, <1>4, <1>5, <1>6 DEF WorkerNext

LEMMA ComposedType == ASSUME TypeOK, NEW i \in Slice PROVE Composed(i) \in Tree
<1>1. N \in Nat /\ i \in 0..N
  BY PlansAssumption DEF Slice
<1>2. \A p \in Paths : Composed(i)[p] \in 0..N
  BY <1>1, TreeType DEF Composed, Candidate, TypeOK
<1>3. QED
  BY <1>2 DEF Composed, Tree

LEMMA ComposeTypes == TypeOK /\ Compose => TypeOK'
<1>1. ASSUME TypeOK, Compose PROVE TypeOK'
  <2>1. PICK i \in wave :
          /\ Due(i) /\ ~Collides(i)
          /\ recorded' = Append(recorded, i)
          /\ IF at[i] = "advance"
               THEN head' = Composed(i) /\ stage' = IF wave \ Completed = {i} THEN "plan" ELSE stage
               ELSE stage' = "returned" /\ UNCHANGED head
    BY <1>1 DEF Compose
  <2>2. i \in Slice /\ recorded \in Seq(Slice) /\ i \notin Completed
    BY <1>1, <2>1 DEF TypeOK, Due
  <2>3. /\ recorded' \in Seq(Slice) /\ Len(recorded') = Len(recorded) + 1
        /\ recorded'[Len(recorded) + 1] = i
        /\ \A k \in 1..Len(recorded) : recorded'[k] = recorded[k]
    BY <2>1, <2>2, CompletedGrows
  <2>4. IsInjective(recorded')
    <3>1. \A k \in 1..Len(recorded) : recorded[k] # i
      BY <2>2, CompletedType
    <3>2. DOMAIN recorded' = 1..(Len(recorded) + 1) /\ DOMAIN recorded = 1..Len(recorded)
          /\ Len(recorded) \in Nat
      BY <2>2, <2>3
    <3>3. \A k, l \in 1..Len(recorded) : recorded[k] = recorded[l] => k = l
      BY <1>1, <3>2 DEF TypeOK, IsInjective
    <3>4. QED
      BY <2>3, <3>1, <3>2, <3>3 DEF IsInjective
  <2>5. head' \in Tree /\ stage' \in {"plan", "compose", "returned"}
    BY <1>1, <2>1, <2>2, ComposedType DEF Compose, TypeOK
  <2>6. QED
    BY <1>1, <2>3, <2>4, <2>5 DEF Compose, TypeOK, workers, shared, pipeline
<1>2. QED
  BY <1>1

LEMMA RunnerTypes == TypeOK /\ RunnerNext => TypeOK'
<1> SUFFICES ASSUME TypeOK, RunnerNext PROVE TypeOK'
  OBVIOUS
<1>1. CASE StartWave
  BY <1>1, StartWaveTypes
<1>2. CASE Compose
  BY <1>2, ComposeTypes
<1>3. CASE WaveSettles \/ AllAdvanced
  BY <1>3 DEF WaveSettles, AllAdvanced, TypeOK, workers, shared, pipeline
<1>4. CASE WaveFails \/ ComposeRefuses
  <2>1. refs' \subseteq refs
    BY <1>4 DEF WaveFails, ComposeRefuses, Dropped
  <2>2. QED
    BY <1>4, <2>1 DEF WaveFails, ComposeRefuses, TypeOK, workers, pipeline
<1>5. CASE Archive
  BY <1>5 DEF Archive, TypeOK, workers, shared
<1>6. CASE Dispose \/ DisposeFails
  BY <1>6 DEF Dispose, DisposeFails, TypeOK, workers, shared, pipeline
<1>7. CASE Release
  <2>1. {marker', lease', alive'} \subseteq BOOLEAN
    BY <1>7 DEF Release, TypeOK
  <2>2. QED
    BY <1>7, <2>1 DEF Release, TypeOK, workers, shared
<1>8. QED
  BY <1>1, <1>2, <1>3, <1>4, <1>5, <1>6, <1>7 DEF RunnerNext

LEMMA TypeOKNext == TypeOK /\ [Next]_vars => TypeOK'
<1> SUFFICES ASSUME TypeOK, [Next]_vars PROVE TypeOK'
  OBVIOUS
<1>1. CASE RunnerNext
  BY <1>1, RunnerTypes
<1>2. ASSUME NEW i \in Slice, WorkerNext(i) PROVE TypeOK'
  BY <1>2, WorkerTypes
<1>3. CASE Exit
  BY <1>3 DEF Exit, TypeOK, runner, workers, shared
<1>4. CASE Recover
  BY <1>4 DEF Recover, TypeOK, runner, workers
<1>5. CASE UNCHANGED vars
  BY <1>5 DEF vars, runner, workers, shared, pipeline, TypeOK
<1>6. QED
  BY <1>1, <1>2, <1>3, <1>4, <1>5 DEF Next

\* Every variable has its type: no slice is composed twice and no repair goes beyond the budget
\* (SliceRunner.run, routeSlice).
THEOREM TypeCorrect == Spec => []TypeOK
BY TypeOKInit, TypeOKNext, PTL DEF Spec

-----------------------------------------------------------------------------
(* A wave *)

\* A worker moves nothing of the run, and no slice that has settled.
LEMMA WorkerStep ==
  ASSUME TypeOK, NEW i \in Slice, WorkerNext(i)
  PROVE  /\ UNCHANGED <<plan, wave, base, recorded, head, stage, saw, pipeline, alive>>
         /\ at[i] \in Busy /\ at'[i] # "idle"
         /\ \A j \in Slice : j # i => at'[j] = at[j] /\ wrote'[j] = wrote[j]
         /\ at'[i] = "advance" => wrote'[i] \subseteq InScope(i)
<1>1. CASE CreateWorktree(i)
  BY <1>1 DEF CreateWorktree, Goes, TypeOK, Busy, runner
<1>2. CASE Implement(i)
  BY <1>2 DEF Implement, Goes, TypeOK, Busy, runner
<1>3. CASE CreateRef(i)
  BY <1>3 DEF CreateRef, Goes, TypeOK, Busy, runner
<1>4. CASE Verify(i)
  BY <1>4 DEF Verify, Goes, TypeOK, Busy, runner
<1>5. CASE WorkerThrows(i)
  BY <1>5 DEF WorkerThrows, Goes, TypeOK, Busy, runner
<1>6. CASE Route(i)
  BY <1>6 DEF Route, Goes, Clean, TypeOK, Busy, runner
<1>7. QED
  BY <1>1, <1>2, <1>3, <1>4, <1>5, <1>6 DEF WorkerNext

LEMMA WaveInvInit == Init => WaveInv
<1>1. ASSUME Init PROVE Recorded /\ Confined /\ HeadOfWave
  <2>1. Completed = {}
    BY <1>1 DEF Init, Completed, ToSet
  <2>2. QED
    BY <1>1, <2>1 DEF Init, Recorded, Confined, HeadOfWave
<1>2. QED
  BY <1>1, TypeOKInit DEF WaveInv

LEMMA WaveInvStart == WaveInv /\ StartWave => WaveInv'
<1> SUFFICES ASSUME WaveInv, StartWave PROVE WaveInv'
  OBVIOUS
<1> USE DEF WaveInv
<1>1. TypeOK'
  BY StartWaveTypes
<1>2. wave' \subseteq Slice /\ \A i \in Slice : i \in wave' <=> Joins(i, {j \in wave' : j < i})
  BY DEF StartWave, IsNextWave
<1>3. Completed' = Completed /\ wave' \cap Completed = {} /\ Completed \subseteq Slice
  <2>1. recorded' = recorded
    BY DEF StartWave
  <2>2. QED
    BY <1>2, <2>1, CompletedType DEF Completed, Joins, TypeOK
<1>4. Recorded'
  BY <1>3 DEF StartWave, Recorded
<1>5. Confined'
  <2>1. \A i \in Slice : at'[i] = "advance" => i \notin wave' /\ at[i] = "advance"
    BY DEF StartWave
  <2>2. \A i \in Slice : i \notin wave' => wrote'[i] = wrote[i]
    BY DEF StartWave
  <2>3. plan' = plan
    BY DEF StartWave
  <2>4. \A i \in Slice : at'[i] = "advance" => wrote'[i] \subseteq InScope(i)'
    BY <2>1, <2>2, <2>3 DEF Confined, InScope
  <2>5. \A i, j \in wave' : i < j => ~Overlap(j, i)
    BY <1>2 DEF Joins
  <2>6. \A i, j \in wave' : i # j => i < j \/ j < i
    BY <1>2 DEF Slice
  <2>7. \A i, j \in wave' : i # j => ~Overlap(i, j)
    BY <1>2, <2>5, <2>6, OverlapIsMutual
  <2>8. \A i, j \in wave' : i # j => ~Overlap(i, j)'
    BY <2>7, <2>3 DEF Overlap
  <2>9. QED
    BY <2>4, <2>8 DEF Confined
<1>6. HeadOfWave'
  BY <1>3 DEF StartWave, HeadOfWave
<1>7. QED
  BY <1>1, <1>4, <1>5, <1>6

LEMMA WaveInvWorker == ASSUME WaveInv, NEW i \in Slice, WorkerNext(i) PROVE WaveInv'
<1> USE DEF WaveInv
<1>1. TypeOK'
  BY WorkerTypes
<1>2. /\ UNCHANGED <<plan, wave, base, recorded, head, stage, saw, pipeline, alive>>
      /\ at[i] \in Busy /\ at'[i] # "idle"
      /\ \A j \in Slice : j # i => at'[j] = at[j] /\ wrote'[j] = wrote[j]
      /\ at'[i] = "advance" => wrote'[i] \subseteq InScope(i)
  BY WorkerStep
<1>3. Completed' = Completed /\ i \notin Completed /\ Completed \subseteq Slice
  BY <1>2, CompletedType DEF Recorded, Completed, Busy, TypeOK
<1>4. Recorded'
  BY <1>2, <1>3 DEF Recorded
<1>5. Confined'
  BY <1>2 DEF Confined, Overlap, InScope
<1>6. HeadOfWave'
  <2>1. Occupied' = Occupied
    BY <1>2 DEF Occupied
  <2>2. stage = "compose" => i \notin wave
    BY <1>2 DEF HeadOfWave, Busy
  <2>3. wave \subseteq Slice
    BY DEF TypeOK
  <2>4. QED
    BY <1>2, <1>3, <2>1, <2>2, <2>3 DEF HeadOfWave
<1>7. QED
  BY <1>1, <1>4, <1>5, <1>6

LEMMA WaveInvCompose == WaveInv /\ Compose => WaveInv'
<1> SUFFICES ASSUME WaveInv, Compose PROVE WaveInv'
  OBVIOUS
<1> USE DEF WaveInv
<1>1. PICK i \in wave :
        /\ Due(i) /\ ~Collides(i)
        /\ recorded' = Append(recorded, i)
        /\ IF at[i] = "advance"
             THEN head' = Composed(i) /\ stage' = IF wave \ Completed = {i} THEN "plan" ELSE stage
             ELSE stage' = "returned" /\ UNCHANGED head
  BY DEF Compose
<1>2. UNCHANGED <<plan, wave, base, at, wrote>> /\ stage = "compose"
  BY DEF Compose, workers
<1>3. i \in Slice /\ Completed' = Completed \cup {i}
  BY <1>1, CompletedGrows DEF TypeOK
<1>4. TypeOK'
  BY ComposeTypes
<1>5. Recorded'
  BY <1>1, <1>2, <1>3 DEF Recorded, HeadOfWave
<1>6. Confined'
  BY <1>2 DEF Confined, Overlap, InScope
<1>7. HeadOfWave'
  <2>1. CASE stage' # "compose"
    BY <1>1, <1>2, <2>1 DEF HeadOfWave
  <2>2. CASE stage' = "compose"
    <3>1. head' = Composed(i)
      BY <1>1, <2>2
    <3>2. ASSUME NEW p \in Occupied' PROVE \E j \in wave \cap Completed' : p \in wrote[j]
      <4>1. p \in Paths /\ head'[p] # base[p]
        BY <1>2 DEF Occupied
      <4>2. CASE p \in wrote[i]
        BY <1>3, <1>1, <4>2
      <4>3. CASE p \notin wrote[i]
        <5>1. p \in Occupied
          BY <3>1, <4>1, <4>3 DEF Composed, Occupied
        <5>2. QED
          BY <5>1, <1>2, <1>3 DEF HeadOfWave
      <4>4. QED
        BY <4>2, <4>3
    <3>3. QED
      BY <1>2, <2>2, <3>2 DEF HeadOfWave
  <2>3. QED
    BY <2>1, <2>2
<1>8. QED
  BY <1>4, <1>5, <1>6, <1>7

\* What the steps around the waves leave alone.
LEMMA WaveInvOther ==
  ASSUME WaveInv, TypeOK', UNCHANGED <<plan, wave, base, recorded, head, workers>>,
         stage' \in {"plan", "wave", "compose"} => stage' = stage
  PROVE  WaveInv'
<1> USE DEF WaveInv
<1>1. Completed' = Completed /\ Occupied' = Occupied
  BY DEF Completed, Occupied
<1>2. Recorded' /\ Confined'
  BY <1>1 DEF Recorded, Confined, Overlap, InScope, workers
<1>3. HeadOfWave'
  BY <1>1 DEF HeadOfWave, workers
<1>4. QED
  BY <1>2, <1>3

LEMMA WaveInvSettles == WaveInv /\ WaveSettles => WaveInv'
<1> SUFFICES ASSUME WaveInv, WaveSettles PROVE WaveInv'
  OBVIOUS
<1> USE DEF WaveInv
<1>1. TypeOK'
  BY RunnerTypes DEF RunnerNext
<1>2. /\ UNCHANGED <<plan, wave, base, recorded, head, at, wrote>>
      /\ stage = "wave" /\ stage' = "compose" /\ Settled
  BY DEF WaveSettles, workers
<1>3. Completed' = Completed /\ Occupied' = {}
  BY <1>2 DEF Completed, Occupied, HeadOfWave
<1>4. Recorded' /\ Confined'
  BY <1>2, <1>3 DEF Recorded, Confined, Overlap, InScope
<1>5. HeadOfWave'
  BY <1>2, <1>3 DEF HeadOfWave, Settled
<1>6. QED
  BY <1>1, <1>4, <1>5

LEMMA WaveInvNext == WaveInv /\ [Next]_vars => WaveInv'
<1> SUFFICES ASSUME WaveInv, [Next]_vars PROVE WaveInv'
  OBVIOUS
<1>1. TypeOK'
  BY TypeOKNext DEF WaveInv
<1>2. CASE StartWave
  BY <1>2, WaveInvStart
<1>3. CASE WaveSettles
  BY <1>3, WaveInvSettles
<1>4. CASE Compose
  BY <1>4, WaveInvCompose
<1>5. CASE WaveFails \/ ComposeRefuses \/ AllAdvanced \/ Archive \/ Dispose \/ DisposeFails \/ Release
  BY <1>1, <1>5, WaveInvOther
  DEF WaveFails, ComposeRefuses, AllAdvanced, Archive, Dispose, DisposeFails, Release
<1>6. ASSUME NEW i \in Slice, WorkerNext(i) PROVE WaveInv'
  BY <1>6, WaveInvWorker
<1>7. CASE Exit \/ Recover
  BY <1>1, <1>7, WaveInvOther DEF Exit, Recover, runner
<1>8. CASE UNCHANGED vars
  BY <1>1, <1>8, WaveInvOther DEF vars, runner
<1>9. QED
  BY <1>2, <1>3, <1>4, <1>5, <1>6, <1>7, <1>8 DEF Next, RunnerNext

LEMMA WaveInvAlways == Spec => []WaveInv
BY WaveInvInit, WaveInvNext, PTL DEF Spec

\* Two slices that both advance never collide when they are composed: only one that broke its
\* confinement meets the refusal, and it does not advance (composeSliceOntoHead, routeSlice).
THEOREM NoCollision == Spec => []AdvancedNeverCollide
<1>1. ASSUME WaveInv, NEW i \in wave, stage = "compose", Due(i), Collides(i) PROVE at[i] = "halt"
  <2>1. PICK p \in Paths : p \in wrote[i] /\ p \in Occupied
    BY <1>1 DEF Collides, Occupied
  <2>2. PICK j \in wave \cap Completed : p \in wrote[j]
    BY <1>1, <2>1 DEF WaveInv, HeadOfWave
  <2>3. i # j /\ at[j] = "advance" /\ i \in Slice /\ j \in Slice
    BY <1>1, <2>2 DEF Due, WaveInv, Recorded, TypeOK
  <2>4. at[i] # "advance"
    <3>1. ASSUME at[i] = "advance" PROVE p \in InScope(i) /\ p \in InScope(j) /\ ~Overlap(i, j)
      BY <1>1, <2>1, <2>2, <2>3, <3>1 DEF WaveInv, Confined
    <3>2. QED
      BY <1>1, <2>3, <3>1, ScopesApart DEF WaveInv, TypeOK
  <2>5. QED
    BY <1>1, <2>4 DEF WaveInv, HeadOfWave
<1>2. WaveInv => AdvancedNeverCollide
  BY <1>1 DEF AdvancedNeverCollide
<1>3. QED
  BY <1>2, WaveInvAlways, PTL

-----------------------------------------------------------------------------
(* The composed head *)

\* The places in the sequence of composed slices that advanced and wrote p.
Writes(p) == {k \in DOMAIN recorded : at[recorded[k]] = "advance" /\ p \in wrote[recorded[k]]}

LastWrite(p) ==
  \/ Writes(p) = {} /\ head[p] = 0
  \/ \E k \in Writes(p) : head[p] = recorded[k] /\ \A l \in Writes(p) : l <= k

LEMMA SequentialIs == ComposedIsSequential <=> \A p \in Paths : LastWrite(p)
BY DEF ComposedIsSequential, LastWrite, Writes

LEMMA SequentialIsNext == ComposedIsSequential' <=> \A p \in Paths : LastWrite(p)'
BY DEF ComposedIsSequential, LastWrite, Writes

\* But for composing and for a new wave, what is recorded stays as it is.
LEMMA RecordedStays ==
  ASSUME WaveInv, [Next]_vars, ~Compose
  PROVE  /\ recorded' = recorded /\ head' = head /\ plan' = plan
         /\ \A i \in Completed : at'[i] = at[i] /\ wrote'[i] = wrote[i]
<1> USE DEF WaveInv
<1>1. Completed \subseteq Slice
  BY CompletedType DEF TypeOK
<1>2. CASE StartWave
  <2>1. \A i \in Completed : i \notin wave'
    BY <1>1, <1>2 DEF StartWave, IsNextWave, Joins
  <2>2. QED
    BY <1>1, <1>2, <2>1 DEF StartWave
<1>3. CASE WaveSettles \/ WaveFails \/ ComposeRefuses \/ AllAdvanced \/ Archive \/ Dispose
           \/ DisposeFails \/ Release
  BY <1>3 DEF WaveSettles, WaveFails, ComposeRefuses, AllAdvanced, Archive, Dispose, DisposeFails,
              Release, workers
<1>4. ASSUME NEW i \in Slice, WorkerNext(i)
      PROVE  /\ recorded' = recorded /\ head' = head /\ plan' = plan
             /\ \A j \in Completed : at'[j] = at[j] /\ wrote'[j] = wrote[j]
  <2>1. i \notin Completed
    BY <1>4, WorkerStep DEF Recorded, Busy
  <2>2. QED
    BY <1>1, <1>4, <2>1, WorkerStep
<1>5. CASE Exit \/ Recover \/ UNCHANGED vars
  BY <1>5 DEF Exit, Recover, vars, runner, workers
<1>6. QED
  BY <1>2, <1>3, <1>4, <1>5 DEF Next, RunnerNext

LEMMA SequentialInit == Init => ComposedIsSequential
BY DEF Init, ComposedIsSequential

LEMMA SequentialStays ==
  ASSUME WaveInv, ComposedIsSequential, [Next]_vars, ~Compose
  PROVE  ComposedIsSequential'
<1>1. /\ recorded' = recorded /\ head' = head
      /\ \A k \in DOMAIN recorded : recorded[k] \in Completed
      /\ \A i \in Completed : at'[i] = at[i] /\ wrote'[i] = wrote[i]
  BY RecordedStays DEF Completed, ToSet
<1>2. ASSUME NEW p \in Paths PROVE LastWrite(p)'
  <2>1. Writes(p)' = Writes(p)
    BY <1>1 DEF Writes
  <2>2. LastWrite(p)
    BY SequentialIs
  <2>3. QED
    BY <1>1, <2>1, <2>2 DEF LastWrite
<1>3. QED
  BY <1>2, SequentialIsNext

LEMMA SequentialCompose ==
  ASSUME WaveInv, ComposedIsSequential, Compose
  PROVE  ComposedIsSequential'
<1> USE DEF WaveInv
<1>1. PICK i \in wave :
        /\ Due(i) /\ ~Collides(i)
        /\ recorded' = Append(recorded, i)
        /\ IF at[i] = "advance"
             THEN head' = Composed(i) /\ stage' = IF wave \ Completed = {i} THEN "plan" ELSE stage
             ELSE stage' = "returned" /\ UNCHANGED head
  BY DEF Compose
<1>2. i \in Slice /\ recorded \in Seq(Slice) /\ UNCHANGED <<at, wrote>>
  BY <1>1 DEF Compose, workers, TypeOK
<1> DEFINE n == Len(recorded)
<1>3. /\ n \in Nat /\ DOMAIN recorded = 1..n /\ DOMAIN recorded' = 1..(n + 1)
      /\ recorded'[n + 1] = i
      /\ \A k \in 1..n : recorded'[k] = recorded[k]
  BY <1>1, <1>2, CompletedGrows
<1> HIDE DEF n
<1>4. ASSUME NEW p \in Paths PROVE LastWrite(p)'
  <2> DEFINE Adds == at[i] = "advance" /\ p \in wrote[i]
  <2>1. LastWrite(p)
    BY SequentialIs
  <2>2. CASE Adds
    <3>1. n + 1 \in Writes(p)' /\ \A l \in Writes(p)' : l <= n + 1
      BY <1>2, <1>3, <2>2 DEF Writes
    <3>2. head'[p] = i
      BY <1>1, <2>2 DEF Composed, Candidate
    <3>3. QED
      BY <1>3, <3>1, <3>2 DEF LastWrite
  <2>3. CASE ~Adds
    <3>1. Writes(p)' = Writes(p) /\ Writes(p) \subseteq 1..n
      BY <1>2, <1>3, <2>3 DEF Writes
    <3>2. head'[p] = head[p]
      BY <1>1, <2>3 DEF Composed
    <3>3. QED
      BY <1>3, <2>1, <3>1, <3>2 DEF LastWrite
  <2>4. QED
    BY <2>2, <2>3
<1>5. QED
  BY <1>4, SequentialIsNext

LEMMA SequentialAlways == Spec => []ComposedIsSequential
<1>1. WaveInv /\ ComposedIsSequential /\ [Next]_vars => ComposedIsSequential'
  BY SequentialStays, SequentialCompose
<1>2. QED
  BY <1>1, SequentialInit, WaveInvAlways, PTL DEF Spec

\* However the slices of a wave finish, the composed candidate is what the slices that advanced
\* would have made one after the other (composeSliceOntoHead).
THEOREM ComposesInOrder == Spec => []ComposedIsSequential
BY SequentialAlways

-----------------------------------------------------------------------------
(* Dependencies *)

\* What slice i was based on has the work of d or of a slice composed after it.
Seen(i, d) ==
  \E k \in DOMAIN recorded :
    /\ recorded[k] = d /\ at[d] = "advance"
    /\ \A p \in wrote[d] : \E l \in k..Len(recorded) : saw[i][p] = recorded[l]

LEMMA DependenciesAre == DependenciesSeen <=>
        \A i \in Slice : at[i] # "idle" => \A d \in plan.after[i] : Seen(i, d)
BY DEF DependenciesSeen, Seen

LEMMA DependenciesAreNext == DependenciesSeen' <=>
        \A i \in Slice : at'[i] # "idle" => \A d \in plan'.after[i] : Seen(i, d)'
BY DEF DependenciesSeen, Seen

LEMMA SeenStays ==
  ASSUME WaveInv, [Next]_vars, NEW i \in Slice, NEW d \in Slice, Seen(i, d), saw'[i] = saw[i]
  PROVE  Seen(i, d)'
<1> USE DEF WaveInv
<1>1. PICK k \in DOMAIN recorded :
        /\ recorded[k] = d /\ at[d] = "advance"
        /\ \A p \in wrote[d] : \E l \in k..Len(recorded) : saw[i][p] = recorded[l]
  BY DEF Seen
<1>2. d \in Completed /\ recorded \in Seq(Slice)
  BY <1>1 DEF Completed, ToSet, TypeOK
<1>3. k \in 1..Len(recorded) /\ Len(recorded) \in Nat
  BY <1>2
<1>4. CASE Compose
  <2>1. /\ Len(recorded') = Len(recorded) + 1 /\ recorded' \in Seq(Slice)
        /\ \A l \in 1..Len(recorded) : recorded'[l] = recorded[l]
    BY <1>2, <1>4, CompletedGrows DEF Compose, TypeOK
  <2>2. at' = at /\ wrote' = wrote
    BY <1>4 DEF Compose, workers
  <2>3. k \in DOMAIN recorded' /\ recorded'[k] = d /\ at'[d] = "advance"
    BY <1>1, <1>3, <2>1, <2>2
  <2>4. ASSUME NEW p \in wrote'[d] PROVE \E l \in k..Len(recorded') : saw'[i][p] = recorded'[l]
    <3>1. PICK l \in k..Len(recorded) : saw[i][p] = recorded[l]
      BY <1>1, <2>2
    <3>2. l \in 1..Len(recorded) /\ l \in k..Len(recorded')
      BY <1>3, <2>1
    <3>3. QED
      BY <2>1, <3>1, <3>2
  <2>5. QED
    BY <2>3, <2>4 DEF Seen
<1>5. CASE ~Compose
  <2>1. recorded' = recorded /\ at'[d] = at[d] /\ wrote'[d] = wrote[d]
    BY <1>2, <1>5, RecordedStays
  <2>2. QED
    BY <1>1, <2>1 DEF Seen
<1>6. QED
  BY <1>4, <1>5

\* A new wave starts from a head with everything its slices depend on.
LEMMA SeenAtStart ==
  ASSUME WaveInv, ComposedIsSequential, StartWave, NEW i \in wave', NEW d \in plan.after[i]
  PROVE  Seen(i, d)'
<1> USE DEF WaveInv
<1>1. i \in Slice /\ d \in Completed /\ recorded \in Seq(Slice)
  BY DEF StartWave, IsNextWave, Joins, TypeOK
<1>2. PICK k \in 1..Len(recorded) : recorded[k] = d
  BY <1>1, CompletedType
<1>3. Len(recorded) \in Nat /\ DOMAIN recorded = 1..Len(recorded)
  BY <1>1
<1>4. d \in Slice /\ at[d] = "advance" /\ d \notin wave'
  BY <1>1, CompletedType DEF Recorded, StartWave, IsNextWave, Joins
<1>5. at'[d] = "advance" /\ wrote'[d] = wrote[d] /\ saw'[i] = head /\ recorded' = recorded
  BY <1>1, <1>4 DEF StartWave
<1>6. ASSUME NEW p \in wrote[d] PROVE \E l \in k..Len(recorded) : head[p] = recorded[l]
  <2>1. p \in Paths
    BY <1>4 DEF TypeOK
  <2>2. k \in Writes(p)
    BY <1>2, <1>3, <1>4 DEF Writes
  <2>3. PICK l \in Writes(p) : head[p] = recorded[l] /\ k <= l
    BY <2>1, <2>2, SequentialIs DEF LastWrite
  <2>4. l \in k..Len(recorded)
    BY <1>3, <2>3 DEF Writes
  <2>5. QED
    BY <2>3, <2>4
<1>7. QED
  BY <1>2, <1>3, <1>5, <1>6 DEF Seen

LEMMA DependenciesNext ==
  ASSUME WaveInv, ComposedIsSequential, DependenciesSeen, [Next]_vars
  PROVE  DependenciesSeen'
<1> USE DEF WaveInv
<1>1. plan' = plan
  <2>1. Compose => plan' = plan
    BY DEF Compose
  <2>2. QED
    BY <2>1, RecordedStays
<1>2. ASSUME NEW i \in Slice, at'[i] # "idle", NEW d \in plan.after[i] PROVE Seen(i, d)'
  <2>1. d \in Slice
    BY PlanType DEF TypeOK
  <2>2. CASE StartWave /\ i \in wave'
    BY <2>2, SeenAtStart
  <2>3. CASE ~(StartWave /\ i \in wave')
    <3>1. saw'[i] = saw[i] /\ at[i] # "idle"
      <4>1. CASE StartWave
        BY <1>2, <2>3, <4>1 DEF StartWave
      <4>2. CASE RunnerNext /\ ~StartWave
        BY <1>2, <4>2 DEF RunnerNext, WaveSettles, WaveFails, Compose, ComposeRefuses, AllAdvanced,
                          Archive, Dispose, DisposeFails, Release, workers
      <4>3. ASSUME NEW j \in Slice, WorkerNext(j) PROVE saw' = saw /\ (at[i] # "idle")
        BY <1>2, <4>3, WorkerStep DEF Busy
      <4>4. CASE Exit \/ Recover \/ UNCHANGED vars
        BY <1>2, <4>4 DEF Exit, Recover, vars, workers
      <4>5. QED
        BY <4>1, <4>2, <4>3, <4>4 DEF Next
    <3>2. Seen(i, d)
      BY <3>1, DependenciesAre
    <3>3. QED
      BY <2>1, <3>1, <3>2, SeenStays
  <2>4. QED
    BY <2>2, <2>3
<1>3. QED
  BY <1>1, <1>2, DependenciesAreNext

LEMMA DependenciesInit == Init => DependenciesSeen
BY DEF Init, DependenciesSeen

\* Whatever waves two slices were put in, one starts from the work of every slice it depends on
\* (planSliceWaves).
THEOREM BuiltOnDependencies == Spec => []DependenciesSeen
BY DependenciesInit, DependenciesNext, SequentialAlways, WaveInvAlways, PTL DEF Spec

-----------------------------------------------------------------------------
(* The scheduler *)

\* The scan of planSliceWaves has one result: two that differ would differ at a
\* first slice, whose joining the members before it decide.
LEMMA OneNextWave ==
  ASSUME NEW A \in SUBSET Slice, NEW B \in SUBSET Slice, IsNextWave(A), IsNextWave(B)
  PROVE  A = B
<1> DEFINE T == {i \in Slice : ~(i \in A <=> i \in B)}
<1>1. ASSUME T # {} PROVE FALSE
  <2>1. T \subseteq Nat
    BY DEF Slice
  <2>2. PICK i \in T : \A m \in T : i <= m
    BY <1>1, <2>1, FirstOf
  <2>3. \A j \in Slice : j < i => (j \in A <=> j \in B)
    BY <2>2 DEF Slice
  <2>4. {j \in A : j < i} = {j \in B : j < i}
    BY <2>3
  <2>5. QED
    BY <2>2, <2>4 DEF IsNextWave
<1>2. QED
  BY <1>1

\* The scan of the first n slices.
Scanned(n, members) ==
  /\ members \subseteq 1..n
  /\ \A i \in 1..n : i \in members <=> Joins(i, {j \in members : j < i})

\* It always has a result: one more slice never changes what was scanned.
LEMMA ScanGoesOn ==
  ASSUME NEW n \in Nat, n # 0, NEW before, Scanned(n - 1, before)
  PROVE  \E members : Scanned(n, members)
<1> DEFINE members == IF Joins(n, before) THEN before \cup {n} ELSE before
<1>1. before \subseteq 1..(n - 1) /\ members \subseteq 1..n
  BY DEF Scanned
<1>2. \A i \in 1..n : {j \in members : j < i} = {j \in before : j < i}
  <2>1. members \subseteq before \cup {n} /\ before \subseteq members
    OBVIOUS
  <2>2. \A i \in 1..n : ~(n < i)
    OBVIOUS
  <2> HIDE DEF members
  <2>3. QED
    BY <2>1, <2>2
<1>3. {j \in before : j < n} = before
  <2>1. \A j \in before : j < n
    BY <1>1
  <2>2. QED
    BY <2>1
<1>4. ASSUME NEW i \in 1..n PROVE i \in members <=> Joins(i, {j \in members : j < i})
  <2>1. CASE i = n
    BY <1>1, <1>2, <1>3, <2>1
  <2>2. CASE i # n
    <3>1. i \in 1..(n - 1)
      BY <2>2
    <3>2. i \in before <=> Joins(i, {j \in before : j < i})
      BY <3>1 DEF Scanned
    <3>3. QED
      BY <1>2, <2>2, <3>2
  <2>3. QED
    BY <2>1, <2>2
<1>5. QED
  BY <1>1, <1>4 DEF Scanned

LEMMA SomeNextWave == \E members \in SUBSET Slice : IsNextWave(members)
<1> DEFINE T == {n \in 0..N : ~ \E members : Scanned(n, members)}
<1>1. N \in Nat
  BY PlansAssumption
<1>2. ASSUME T # {} PROVE FALSE
  <2>1. T \subseteq Nat
    BY <1>1
  <2>2. PICK n \in T : \A m \in T : n <= m
    BY <1>2, <2>1, FirstOf
  <2>3. Scanned(0, {})
    BY DEF Scanned
  <2>4. n # 0 /\ n \in Nat /\ n - 1 \in 0..N /\ n - 1 \notin T
    BY <1>1, <2>2, <2>3
  <2>5. PICK before : Scanned(n - 1, before)
    BY <2>4
  <2>6. \E members : Scanned(n, members)
    BY <2>4, <2>5, ScanGoesOn
  <2>7. QED
    BY <2>2, <2>6
<1>3. PICK members : Scanned(N, members)
  BY <1>1, <1>2
<1>4. QED
  BY <1>3 DEF Scanned, IsNextWave, Slice

\* The first slice that is not composed yet joins: what it depends on comes
\* before it, so nothing keeps it out.
LEMMA NextWaveGoesOn ==
  ASSUME WaveInv, Completed # Slice, NEW members \in SUBSET Slice, IsNextWave(members)
  PROVE  members # {} /\ members \cap Completed = {}
<1>1. members \cap Completed = {}
  BY DEF IsNextWave, Joins
<1>2. Completed \subseteq Slice /\ Slice \subseteq Nat
  BY CompletedType DEF WaveInv, TypeOK, Slice
<1>3. PICK i \in Slice \ Completed : \A m \in Slice \ Completed : i <= m
  <2>1. Slice \ Completed # {} /\ Slice \ Completed \in SUBSET Nat
    BY <1>2
  <2>2. QED
    BY <2>1, FirstOf
<1>4. {j \in members : j < i} = {}
  <2>1. \A j \in members : j \in Nat /\ i \in Nat /\ i <= j
    BY <1>1, <1>2, <1>3
  <2>2. \A j \in members : ~(j < i)
    BY <2>1
  <2>3. QED
    BY <2>2
<1>5. plan.after[i] \subseteq Completed
  <2>1. plan.after[i] \subseteq 1..(i - 1)
    BY <1>3, PlansAssumption DEF WaveInv, TypeOK
  <2>2. \A d \in 1..(i - 1) : d \in Slice /\ d < i
    BY <1>3, PlansAssumption DEF Slice
  <2>3. QED
    BY <1>2, <1>3, <2>1, <2>2
<1>6. Cardinality({}) < plan.width
  <2>1. plan.width \in Nat \ {0}
    BY PlansAssumption DEF WaveInv, TypeOK
  <2>2. QED
    BY <2>1, FS_EmptySet
<1>7. Joins(i, {})
  BY <1>3, <1>5, <1>6 DEF Joins
<1>8. i \in members
  BY <1>3, <1>4, <1>7 DEF IsNextWave
<1>9. QED
  BY <1>1, <1>8

\* While a wave is under way, a slice of it is left to compose.
WaveLeft == stage \in {"wave", "compose"} => wave \ Completed # {}

LEMMA WaveLeftNext == WaveInv /\ WaveLeft /\ [Next]_vars => WaveLeft'
<1> SUFFICES ASSUME WaveInv, WaveLeft, [Next]_vars PROVE WaveLeft'
  OBVIOUS
<1>1. CASE StartWave
  <2>1. wave' \in SUBSET Slice /\ IsNextWave(wave') /\ Completed # Slice /\ recorded' = recorded
    BY <1>1 DEF StartWave
  <2>2. QED
    BY <2>1, NextWaveGoesOn DEF WaveLeft, Completed
<1>2. CASE Compose
  <2>1. PICK i \in wave :
          /\ recorded' = Append(recorded, i)
          /\ \/ at[i] = "advance" /\ stage' = IF wave \ Completed = {i} THEN "plan" ELSE stage
             \/ at[i] # "advance" /\ stage' = "returned"
          /\ Due(i) /\ wave' = wave
    BY <1>2 DEF Compose
  <2>2. i \in Slice /\ Completed' = Completed \cup {i}
    BY <2>1, CompletedGrows DEF WaveInv, TypeOK
  <2>3. QED
    BY <2>1, <2>2 DEF WaveLeft, Due
<1>3. CASE WaveSettles \/ WaveFails \/ ComposeRefuses \/ AllAdvanced \/ Archive \/ Dispose
           \/ DisposeFails \/ Release
  BY <1>3 DEF WaveSettles, WaveFails, ComposeRefuses, AllAdvanced, Archive, Dispose, DisposeFails,
              Release, WaveLeft, Completed
<1>4. ASSUME NEW i \in Slice, WorkerNext(i) PROVE WaveLeft'
  BY <1>4, WorkerStep DEF WaveLeft, Completed, WaveInv
<1>5. CASE Exit \/ Recover \/ UNCHANGED vars
  BY <1>5 DEF Exit, Recover, vars, runner, WaveLeft, Completed
<1>6. QED
  BY <1>1, <1>2, <1>3, <1>4, <1>5 DEF Next, RunnerNext

\* planSliceWaves has one next wave to give, never an empty one, and the slice
\* composed next is there until the wave is through.
WavesAreScheduled ==
  /\ stage = "plan" /\ Completed # Slice =>
       \E members \in SUBSET Slice :
         /\ members # {}
         /\ \A other \in SUBSET Slice : IsNextWave(other) <=> other = members
  /\ stage \in {"wave", "compose"} => \E i \in wave : Due(i)

\* The fallback of planSliceWaves, "unsatisfiable dependencies would otherwise
\* spin forever", is never needed when dependencies point backwards, whatever
\* the allowlists and the width; and no wave waits for a slice to compose.
THEOREM NeverOutOfWaves == Spec => []WavesAreScheduled
<1>1. ASSUME WaveInv, Completed # Slice
      PROVE  \E members \in SUBSET Slice :
               /\ members # {}
               /\ \A other \in SUBSET Slice : IsNextWave(other) <=> other = members
  <2>1. PICK members \in SUBSET Slice : IsNextWave(members)
    BY SomeNextWave
  <2>2. members # {}
    BY <1>1, <2>1, NextWaveGoesOn
  <2>3. QED
    BY <2>1, <2>2, OneNextWave
<1>2. ASSUME WaveInv, wave \ Completed # {} PROVE \E i \in wave : Due(i)
  <2>1. wave \ Completed \in SUBSET Nat
    <3>1. wave \subseteq Slice /\ Slice \subseteq Nat
      BY <1>2 DEF WaveInv, TypeOK, Slice
    <3>2. QED
      BY <3>1
  <2>2. PICK i \in wave \ Completed : \A j \in wave \ Completed : i <= j
    BY <1>2, <2>1, FirstOf
  <2>3. QED
    BY <2>2 DEF Due
<1>3. WaveInv /\ WaveLeft => WavesAreScheduled
  BY <1>1, <1>2 DEF WavesAreScheduled, WaveLeft
<1>4. Init => WaveLeft
  BY DEF Init, WaveLeft
<1>5. QED
  BY <1>3, <1>4, WaveLeftNext, WaveInvAlways, PTL DEF Spec

-----------------------------------------------------------------------------
(* What is left *)

Quiet == \A i \in Slice : at[i] \in Over

Holding == {"implement", "freeze", "verify", "threw"}

\* A worktree belongs to the attempt of a worker or its removal has failed, and that was logged.
\* Refs are known, and gone where a run took its marker down after they were disposed of. Where no
\* worker is left, neither is an attempt.
LeftInv ==
  /\ refs \subseteq known
  /\ \A t \in trees : t \in reported \/ (at[t[1]] \in Holding /\ t[2] = round[t[1]])
  /\ stage = "wave" => \A i \in Slice \ wave : at[i] \in Over
  /\ stage \in {"plan", "compose", "returned", "dispose"} => Quiet
  /\ alive /\ ~lease => stage = "over"
  /\ alive /\ stage # "over" => marker
  /\ outcome \in {"completed", "partial"} =>
       /\ stage \in {"dispose", "keep", "release", "over"} /\ Quiet
       /\ stage = "release" \/ ~marker => refs = {}

LEMMA LeftInvInit == Init => LeftInv
BY DEF Init, LeftInv, Quiet, Over

LEMMA LeftInvWorker == ASSUME TypeOK, LeftInv, NEW i \in Slice, WorkerNext(i) PROVE LeftInv'
<1>1. /\ UNCHANGED <<wave, stage, outcome, marker, lease, alive>>
      /\ at[i] \in Busy
      /\ \A j \in Slice : j # i => at'[j] = at[j]
  BY WorkerStep DEF pipeline
<1>2. ~Quiet /\ outcome \notin {"completed", "partial"}
  BY <1>1 DEF Quiet, Over, Busy, LeftInv
<1>3. refs' \subseteq known'
  BY DEF WorkerNext, CreateWorktree, Implement, CreateRef, Verify, WorkerThrows, Route, LeftInv, shared
<1>4. \A t \in trees' : t \in reported' \/ (at'[t[1]] \in Holding /\ t[2] = round'[t[1]])
  <2> USE DEF LeftInv, Holding, Goes, Worktree
  <2>1. trees \subseteq Slice \X (0..MaxRounds) /\ at \in [Slice -> Places]
        /\ round \in [Slice -> 0..MaxRounds] /\ MaxRounds \in Nat
    BY PlansAssumption DEF TypeOK, Places
  <2>2. CASE CreateWorktree(i)
    <3>1. Worktree(i)[1] = i /\ Worktree(i)[2] = round'[i] /\ at'[i] = "implement"
      BY <2>1, <2>2 DEF CreateWorktree
    <3>2. QED
      BY <1>1, <2>1, <2>2, <3>1 DEF CreateWorktree
  <2>3. CASE Implement(i)
    BY <1>1, <2>1, <2>3 DEF Implement, shared
  <2>4. CASE CreateRef(i)
    BY <1>1, <2>1, <2>4 DEF CreateRef
  <2>5. CASE Verify(i)
    <3>1. /\ trees' \subseteq trees /\ reported \subseteq reported'
          /\ Worktree(i) \in trees' => Worktree(i) \in reported'
      BY <2>5 DEF Verify, GivenUp
    <3>2. ASSUME NEW t \in trees', t \notin reported'
          PROVE  at'[t[1]] \in Holding /\ t[2] = round'[t[1]]
      <4>1. t \in trees /\ t \notin reported /\ at[t[1]] \in Holding /\ t[2] = round[t[1]]
        BY <3>1, <3>2
      <4>2. t = <<t[1], t[2]>> /\ t[1] \in Slice
        BY <2>1, <4>1
      <4>3. t[1] # i
        BY <3>1, <3>2, <4>1, <4>2
      <4>4. QED
        BY <1>1, <2>5, <4>1, <4>2, <4>3 DEF Verify
    <3>3. QED
      BY <3>2
  <2>6. CASE WorkerThrows(i)
    <3>1. /\ at' = [at EXCEPT ![i] = "threw"] /\ round' = round /\ reported \subseteq reported'
          /\ trees' \subseteq trees \cup (IF at[i] = "start" THEN {Worktree(i)} ELSE {})
          /\ at[i] \in Busy
      BY <2>6, <1>1 DEF WorkerThrows, GivenUp
    <3>2. Worktree(i)[1] = i /\ Worktree(i)[2] = round'[i] /\ at'[i] = "threw"
      BY <2>1, <3>1
    <3>3. ASSUME NEW t \in trees PROVE t \in reported' \/ (at'[t[1]] \in Holding /\ t[2] = round'[t[1]])
      BY <2>1, <3>1
    <3>4. QED
      BY <3>1, <3>2, <3>3
  <2>7. CASE Route(i)
    <3>1. UNCHANGED <<trees, reported>> /\ at[i] = "candidate"
          /\ \A j \in Slice : j # i => round'[j] = round[j]
      BY <2>1, <2>7 DEF Route, shared
    <3>2. QED
      BY <1>1, <2>1, <3>1
  <2>8. QED
    BY <2>2, <2>3, <2>4, <2>5, <2>6, <2>7 DEF WorkerNext
<1>5. stage = "wave" => \A j \in Slice \ wave : at'[j] \in Over
  BY <1>1 DEF LeftInv, Over, Busy
<1>6. QED
  BY <1>1, <1>2, <1>3, <1>4, <1>5 DEF LeftInv

LEMMA LeftInvRunner == ASSUME WaveInv, LeftInv, RunnerNext PROVE LeftInv'
<1> USE DEF WaveInv
<1>1. CASE StartWave
  <2>1. \A i \in Slice : i \notin wave' => at'[i] = at[i]
    BY <1>1 DEF StartWave
  <2>2. trees \subseteq reported
    BY <1>1 DEF StartWave, LeftInv, Quiet, Over, Holding, TypeOK
  <2>3. QED
    BY <1>1, <2>1, <2>2 DEF StartWave, LeftInv, Quiet, shared, pipeline
<1>2. CASE WaveSettles
  <2>1. Quiet
    BY <1>2 DEF WaveSettles, Settled, LeftInv, Quiet, Over
  <2>2. QED
    BY <1>2, <2>1 DEF WaveSettles, LeftInv, Quiet, workers, shared, pipeline
<1>3. CASE WaveFails \/ ComposeRefuses
  <2>1. refs' \subseteq refs
    BY <1>3 DEF WaveFails, ComposeRefuses, Dropped
  <2>2. QED
    BY <1>3, <2>1 DEF WaveFails, ComposeRefuses, LeftInv, Quiet, workers, pipeline
<1>4. CASE Compose
  <2>1. stage' \in {"plan", "compose", "returned"} /\ stage = "compose"
    BY <1>4 DEF Compose
  <2>2. QED
    BY <1>4, <2>1 DEF Compose, LeftInv, Quiet, workers, shared, pipeline
<1>5. CASE AllAdvanced
  BY <1>5 DEF AllAdvanced, LeftInv, Quiet, workers, shared, pipeline
<1>6. CASE Archive
  <2>1. outcome \notin {"completed", "partial"}
    BY <1>6 DEF Archive, LeftInv
  <2>2. outcome' \in {"completed", "partial"} => stage = "returned" /\ stage' = "dispose"
    BY <1>6 DEF Archive
  <2>3. QED
    BY <1>6, <2>1, <2>2 DEF Archive, LeftInv, Quiet, workers, shared
<1>7. CASE Dispose \/ DisposeFails
  <2>1. Quiet' /\ UNCHANGED <<trees, reported, at, round>>
    BY <1>7 DEF Dispose, DisposeFails, LeftInv, Quiet, workers, shared
  <2>2. CASE Dispose
    BY <2>1, <2>2 DEF Dispose, LeftInv, pipeline
  <2>3. CASE DisposeFails
    BY <2>1, <2>3 DEF DisposeFails, LeftInv, shared
  <2>4. QED
    BY <1>7, <2>2, <2>3
<1>8. CASE Release
  BY <1>8 DEF Release, LeftInv, Quiet, workers, shared
<1>9. QED
  BY <1>1, <1>2, <1>3, <1>4, <1>5, <1>6, <1>7, <1>8 DEF RunnerNext

LEMMA LeftInvNext == WaveInv /\ LeftInv /\ [Next]_vars => LeftInv'
<1> SUFFICES ASSUME WaveInv, LeftInv, [Next]_vars PROVE LeftInv'
  OBVIOUS
<1>1. CASE RunnerNext
  BY <1>1, LeftInvRunner
<1>2. ASSUME NEW i \in Slice, WorkerNext(i) PROVE LeftInv'
  BY <1>2, LeftInvWorker DEF WaveInv
<1>3. CASE Exit
  BY <1>3 DEF Exit, LeftInv, Quiet, runner, workers, shared
<1>4. CASE Recover
  BY <1>4 DEF Recover, LeftInv, Quiet, runner, workers
<1>5. CASE UNCHANGED vars
  BY <1>5 DEF vars, LeftInv, Quiet, runner, workers, shared, pipeline
<1>6. QED
  BY <1>1, <1>2, <1>3, <1>4, <1>5 DEF Next

LEMMA LeftInvAlways == Spec => []LeftInv
BY LeftInvInit, LeftInvNext, WaveInvAlways, PTL DEF Spec

\* A slice phase that came to a candidate and took its marker down leaves no temporary ref, of any
\* attempt of any slice, and no worktree but the ones whose failed removal it reported
\* (SliceRunner.run, withManagedWorktree, runPipelineWithLease).
THEOREM NothingLeft == Spec => []ReturnLeavesNothing
<1>1. WaveInv /\ LeftInv => ReturnLeavesNothing
  BY DEF LeftInv, ReturnLeavesNothing, Quiet, Over, Holding, WaveInv, TypeOK
<1>2. QED
  BY <1>1, LeftInvAlways, WaveInvAlways, PTL

-----------------------------------------------------------------------------
(* The sequential phase *)

\* A phase returns when every slice is composed or one has halted; an outcome
\* is recorded when the run has ended, by itself or by recovery.
EndInv ==
  /\ stage = "returned" => Completed = Slice \/ Halted # {}
  /\ alive /\ stage \in {"plan", "wave", "compose", "returned", "thrown"} => outcome = "none"
  /\ stage \in {"dispose", "keep", "release", "over"} => outcome # "none"
  /\ alive => outcome # "cancelled"

LEMMA EndInvNext == WaveInv /\ LeftInv /\ EndInv /\ [Next]_vars => EndInv'
<1> SUFFICES ASSUME WaveInv, LeftInv, EndInv, [Next]_vars PROVE EndInv'
  OBVIOUS
<1>1. CASE Compose
  <2>1. PICK i \in wave :
          /\ recorded' = Append(recorded, i)
          /\ \/ at[i] = "advance" /\ stage' \in {"plan", "compose"}
             \/ at[i] # "advance" /\ stage' = "returned"
    BY <1>1 DEF Compose
  <2>2. i \in Slice /\ Completed' = Completed \cup {i} /\ at[i] \in {"advance", "halt"}
    BY <1>1, <2>1, CompletedGrows DEF Compose, WaveInv, TypeOK, HeadOfWave
  <2>3. stage = "compose" /\ UNCHANGED <<at, outcome, alive>>
    BY <1>1 DEF Compose, workers, pipeline
  <2>4. QED
    BY <2>1, <2>2, <2>3 DEF EndInv, Halted
<1>2. CASE StartWave \/ WaveSettles \/ WaveFails \/ ComposeRefuses
  BY <1>2 DEF StartWave, WaveSettles, WaveFails, ComposeRefuses, EndInv, pipeline
<1>3. CASE AllAdvanced
  BY <1>3 DEF AllAdvanced, EndInv, Completed, pipeline
<1>4. CASE Archive
  BY <1>4 DEF Archive, EndInv
<1>5. CASE Dispose \/ DisposeFails \/ Release
  BY <1>5 DEF Dispose, DisposeFails, Release, EndInv, pipeline
<1>6. ASSUME NEW i \in Slice, WorkerNext(i) PROVE EndInv'
  <2>1. /\ UNCHANGED <<recorded, stage, outcome, alive>>
        /\ at[i] \in Busy
        /\ \A j \in Slice : j # i => at'[j] = at[j]
    BY <1>6, WorkerStep DEF WaveInv, pipeline
  <2>2. Completed' = Completed /\ \A j \in Completed : at'[j] = at[j]
    BY <2>1, CompletedType DEF Completed, WaveInv, TypeOK, Recorded, Busy
  <2>3. QED
    BY <2>1, <2>2 DEF EndInv, Halted
<1>7. CASE Exit
  BY <1>7 DEF Exit, EndInv, Halted, Completed, runner, workers
<1>8. CASE Recover
  BY <1>8 DEF Recover, EndInv, LeftInv, Halted, Completed, runner, workers
<1>9. CASE UNCHANGED vars
  BY <1>9 DEF vars, EndInv, Halted, Completed, runner, workers, pipeline
<1>10. QED
  BY <1>1, <1>2, <1>3, <1>4, <1>5, <1>6, <1>7, <1>8, <1>9 DEF Next, RunnerNext

\* The two modules read an allowlist alike.
LEMMA SameScopes == \A list, p : Sequential!Allows(list, p) = Allows(list, p)
BY DEF Sequential!Allows, Sequential!GlobMatches, Sequential!StandsFor, Sequential!Stars,
       Sequential!Last, Allows, GlobMatches, StandsFor, Stars, Last

\* Composing a slice that advances makes it; one that halts makes nothing.
LEMMA ComposeMakes ==
  ASSUME WaveInv, EndInv, DependenciesSeen, Compose
  PROVE  (\E i \in Slice : Sequential!Make(i)) \/ UNCHANGED Sequential!svars
<1> USE DEF WaveInv
<1>1. PICK i \in wave :
        /\ Due(i)
        /\ recorded' = Append(recorded, i)
        /\ IF at[i] = "advance" THEN head' = Composed(i) ELSE UNCHANGED head
  BY DEF Compose
<1>2. /\ UNCHANGED <<plan, at, outcome>> /\ outcome = "none"
      /\ i \in Slice /\ i \notin Completed /\ Completed' = Completed \cup {i}
  BY <1>1, CompletedGrows DEF Compose, Due, EndInv, TypeOK, workers, pipeline
<1>3. CASE at[i] = "advance"
  <2>1. i \notin Made /\ Made' = Made \cup {i}
    BY <1>2, <1>3 DEF Made
  <2>2. plan.after[i] \subseteq Made
    <3>1. ASSUME NEW d \in plan.after[i] PROVE d \in Made
      <4>1. Seen(i, d)
        BY <1>2, <1>3, DependenciesAre
      <4>2. QED
        BY <4>1 DEF Seen, Made, Completed, ToSet
    <3>2. QED
      BY <3>1
  <2>3. wrote[i] \in SUBSET {p \in Paths : Sequential!Allows(plan.allow[i], p)}
    <3>1. wrote[i] \subseteq InScope(i)
      BY <1>2, <1>3 DEF Confined
    <3>2. InScope(i) = {p \in Paths : Sequential!Allows(plan.allow[i], p)}
      BY SameScopes DEF InScope
    <3>3. QED
      BY <3>1, <3>2
  <2>4. head' = [p \in Paths |-> IF p \in wrote[i] THEN i ELSE head[p]]
    BY <1>1, <1>3 DEF Composed, Candidate
  <2>5. Sequential!Make(i)
    BY <1>2, <2>1, <2>2, <2>3, <2>4 DEF Sequential!Make
  <2>6. QED
    BY <1>2, <2>5
<1>4. CASE at[i] # "advance"
  <2>1. Made' = Made
    BY <1>2, <1>4 DEF Made
  <2>2. QED
    BY <1>1, <1>2, <1>4, <2>1 DEF Sequential!svars
<1>5. QED
  BY <1>3, <1>4

\* The terminal record says what was made.
LEMMA ArchiveEnds ==
  ASSUME WaveInv, EndInv, Archive, Made' = Made, UNCHANGED <<plan, head>>
  PROVE  Sequential!End
<1>1. outcome = "none" /\ outcome' \in {"completed", "partial", "failed"}
  BY DEF Archive, EndInv
<1>2. Completed \subseteq Slice /\ \A i \in Completed : at[i] \in {"advance", "halt"}
  BY CompletedType DEF WaveInv, TypeOK, Recorded
<1>3. outcome' = "completed" => Made = Slice
  BY <1>2 DEF Archive, EndInv, Halted, Made
<1>4. outcome' = "partial" => Made # {} /\ Made # Slice
  <2>1. outcome' = "partial" => Halted # {} /\ \E i \in Completed : at[i] = "advance"
    BY DEF Archive
  <2>2. QED
    BY <1>2, <2>1 DEF Halted, Made
<1>5. QED
  BY <1>1, <1>3, <1>4 DEF Sequential!End, Slice

LEMMA StepIsSequential ==
  ASSUME WaveInv, LeftInv, EndInv, DependenciesSeen, [Next]_vars
  PROVE  [Sequential!SNext]_(Sequential!svars)
<1>1. CASE Compose
  BY <1>1, ComposeMakes DEF Sequential!SNext, Slice
<1>2. CASE ~Compose
  <2>1. recorded' = recorded /\ head' = head /\ plan' = plan
        /\ \A i \in Completed : at'[i] = at[i]
    BY <1>2, RecordedStays
  <2>2. Made' = Made
    BY <2>1 DEF Made, Completed
  <2>3. CASE Archive
    BY <2>1, <2>2, <2>3, ArchiveEnds DEF Sequential!SNext
  <2>4. CASE DisposeFails
    <3>1. outcome \in {"completed", "partial", "failed"}
      BY <2>4 DEF DisposeFails, EndInv, WaveInv, TypeOK
    <3>2. QED
      BY <2>1, <2>2, <2>4, <3>1 DEF DisposeFails, Sequential!SNext, Sequential!Spoil, Sequential!svars
  <2>5. CASE Recover
    <3>1. outcome' = outcome \/ (outcome = "none" /\ outcome' = "cancelled")
      BY <2>5 DEF Recover
    <3>2. QED
      BY <2>1, <2>2, <3>1 DEF Sequential!SNext, Sequential!End, Sequential!svars
  <2>6. ASSUME NEW i \in Slice, WorkerNext(i) PROVE outcome' = outcome
    BY <2>6, WorkerStep DEF WaveInv, pipeline
  <2>7. CASE StartWave \/ WaveSettles \/ WaveFails \/ ComposeRefuses \/ AllAdvanced \/ Dispose
             \/ Release \/ Exit \/ UNCHANGED vars
    <3>1. outcome' = outcome
      BY <2>7 DEF StartWave, WaveSettles, WaveFails, ComposeRefuses, AllAdvanced, Dispose,
                  Release, Exit, vars, pipeline
    <3>2. QED
      BY <2>1, <2>2, <3>1 DEF Sequential!svars
  <2>8. QED
    BY <1>2, <2>1, <2>2, <2>3, <2>4, <2>5, <2>6, <2>7 DEF Next, RunnerNext, Sequential!svars
<1>3. QED
  BY <1>1, <1>2

\* However waves, workers, repairs, refusals and recoveries interleave, the
\* slice phase is a sequence of slices, each made after those it depends on and
\* within its allowlist, whose outcome says what was made (SliceRunner.run,
\* composeSliceOntoHead, runPipelineWithLease).
THEOREM IsSequential == Spec => ImplementsSequentialSlices
<1>1. Init => EndInv
  BY DEF Init, EndInv
<1>2. Init => Sequential!SInit
  BY DEF Init, Sequential!SInit, Made, Completed, ToSet
<1>3. WaveInv /\ LeftInv /\ EndInv /\ DependenciesSeen /\ [Next]_vars
        => [Sequential!SNext]_(Sequential!svars)
  BY StepIsSequential
<1>4. QED
  BY <1>1, <1>2, <1>3, LeftInvAlways, EndInvNext, BuiltOnDependencies, WaveInvAlways, PTL
     DEF Spec, ImplementsSequentialSlices, Sequential!SSpec

-----------------------------------------------------------------------------
(* The phase comes to an end *)

\* What a slice has before it in its round, and in all the rounds it may have.
InRound(i) ==
  CASE at[i] = "idle" -> 6 [] at[i] = "start" -> 5 [] at[i] = "implement" -> 4
    [] at[i] = "freeze" -> 3 [] at[i] = "verify" -> 2 [] at[i] = "candidate" -> 1 [] OTHER -> 0

Ahead(i) == 5 * (MaxRounds - round[i]) + InRound(i)

\* What the runner has before it: three steps for a slice, at most, and the end of the run.
Pending == Cardinality(Slice \ Completed)

ToGo ==
  CASE stage = "plan" -> 3 * Pending + 6 [] stage = "wave" -> 3 * Pending + 5
    [] stage = "compose" -> 3 * Pending + 4 [] stage \in {"returned", "thrown"} -> 3
    [] stage = "dispose" -> 2 [] stage \in {"release", "keep"} -> 1 [] OTHER -> 0

\* No step adds to what is ahead, and each step of the runner or of a worker takes from its own.
WindsDown ==
  /\ ToGo' <= ToGo /\ \A i \in Slice : Ahead(i)' <= Ahead(i)
  /\ RunnerNext => ToGo' < ToGo
  /\ \A i \in Slice : WorkerNext(i) => Ahead(i)' < Ahead(i)

\* A slice that is in no wave yet has not been started.
Unstarted ==
  stage \in {"plan", "wave", "compose"} =>
    \A i \in Slice : i \notin Completed /\ (stage = "plan" \/ i \notin wave) => at[i] = "idle"

LEMMA UnstartedNext == WaveInv /\ Unstarted /\ [Next]_vars => Unstarted'
<1> SUFFICES ASSUME WaveInv, Unstarted, [Next]_vars PROVE Unstarted'
  OBVIOUS
<1>1. CASE StartWave
  BY <1>1 DEF StartWave, Unstarted, Completed, WaveInv, TypeOK
<1>2. CASE Compose
  <2>1. PICK i \in wave :
          /\ recorded' = Append(recorded, i)
          /\ \/ at[i] = "advance" /\ stage' = IF wave \ Completed = {i} THEN "plan" ELSE stage
             \/ at[i] # "advance" /\ stage' = "returned"
          /\ wave' = wave /\ at' = at /\ stage = "compose"
    BY <1>2 DEF Compose, workers
  <2>2. i \in Slice /\ Completed' = Completed \cup {i}
    BY <2>1, CompletedGrows DEF WaveInv, TypeOK
  <2>3. QED
    BY <2>1, <2>2 DEF Unstarted
<1>3. CASE WaveSettles \/ WaveFails \/ ComposeRefuses \/ AllAdvanced \/ Archive \/ Dispose
           \/ DisposeFails \/ Release
  BY <1>3 DEF WaveSettles, WaveFails, ComposeRefuses, AllAdvanced, Archive, Dispose, DisposeFails,
              Release, Unstarted, Completed, workers
<1>4. ASSUME NEW i \in Slice, WorkerNext(i) PROVE Unstarted'
  <2>1. /\ UNCHANGED <<stage, wave, recorded>> /\ at[i] \in Busy
        /\ \A j \in Slice : j # i => at'[j] = at[j]
    BY <1>4, WorkerStep DEF WaveInv
  <2>2. QED
    BY <2>1 DEF Unstarted, Completed, Busy
<1>5. CASE Exit \/ Recover \/ UNCHANGED vars
  BY <1>5 DEF Exit, Recover, vars, runner, workers, Unstarted, Completed
<1>6. QED
  BY <1>1, <1>2, <1>3, <1>4, <1>5 DEF Next, RunnerNext

LEMMA PendingType ==
  ASSUME TypeOK
  PROVE  /\ IsFiniteSet(Slice \ Completed) /\ Pending \in Nat
         /\ Completed # Slice => Pending > 0
<1>1. IsFiniteSet(Slice)
  BY PlansAssumption, FS_Interval DEF Slice
<1>2. IsFiniteSet(Slice \ Completed) /\ Slice \ Completed \subseteq Slice
  BY <1>1, FS_Subset
<1>3. Completed \subseteq Slice
  BY CompletedType DEF TypeOK
<1>4. QED
  BY <1>2, <1>3, FS_CardinalityType, FS_EmptySet DEF Pending

LEMMA AheadType ==
  ASSUME TypeOK
  PROVE  ToGo \in Nat /\ \A i \in Slice : InRound(i) \in Nat /\ Ahead(i) \in Nat
<1>1. ToGo \in Nat
  BY PendingType DEF ToGo
<1>2. ASSUME NEW i \in Slice PROVE InRound(i) \in Nat /\ Ahead(i) \in Nat
  <2>1. round[i] \in 0..MaxRounds /\ MaxRounds \in Nat
    BY PlansAssumption DEF TypeOK
  <2>2. InRound(i) \in Nat
    BY DEF InRound
  <2>3. QED
    BY <2>1, <2>2 DEF Ahead
<1>3. QED
  BY <1>1, <1>2

\* What leaves slices and runner where they are adds nothing.
LEMMA StaysAhead ==
  ASSUME TypeOK
  PROVE  /\ UNCHANGED <<at, round>> => \A i \in Slice : Ahead(i)' <= Ahead(i)
         /\ UNCHANGED <<stage, recorded>> => ToGo' <= ToGo
<1>1. UNCHANGED <<at, round>> => \A i \in Slice : Ahead(i)' = Ahead(i)
  BY DEF Ahead, InRound
<1>2. UNCHANGED <<stage, recorded>> => ToGo' = ToGo
  BY DEF ToGo, Pending, Completed
<1>3. QED
  BY <1>1, <1>2, AheadType

LEMMA WorkerWindsDown ==
  ASSUME TypeOK, NEW i \in Slice, WorkerNext(i)
  PROVE  /\ Ahead(i)' < Ahead(i)
         /\ \A j \in Slice : Ahead(j)' <= Ahead(j)
         /\ UNCHANGED <<stage, recorded>>
<1>1. /\ at' \in [Slice -> {"start", "implement", "freeze", "verify", "candidate", "advance",
                            "halt", "threw", "idle"}]
      /\ round \in [Slice -> 0..MaxRounds] /\ MaxRounds \in Nat
  BY WorkerTypes, PlansAssumption DEF TypeOK
<1>2. /\ \A j \in Slice : j # i => at'[j] = at[j] /\ round'[j] = round[j]
      /\ UNCHANGED <<stage, recorded>>
      /\ \/ round'[i] = round[i] /\ InRound(i)' < InRound(i)
         \/ round'[i] = round[i] + 1 /\ at[i] = "candidate" /\ at'[i] = "start"
  <2> USE <1>1 DEF TypeOK, Goes, InRound, runner
  <2>1. CASE CreateWorktree(i)
    BY <2>1 DEF CreateWorktree
  <2>2. CASE Implement(i)
    BY <2>2 DEF Implement
  <2>3. CASE CreateRef(i)
    BY <2>3 DEF CreateRef
  <2>4. CASE Verify(i)
    BY <2>4 DEF Verify
  <2>5. CASE WorkerThrows(i)
    BY <2>5 DEF WorkerThrows
  <2>6. CASE Route(i)
    BY <2>6 DEF Route
  <2>7. QED
    BY <2>1, <2>2, <2>3, <2>4, <2>5, <2>6 DEF WorkerNext
<1>3. \A j \in Slice : j # i => Ahead(j)' = Ahead(j)
  BY <1>2 DEF Ahead, InRound
<1>4. Ahead(i)' < Ahead(i) /\ Ahead(i)' <= Ahead(i)
  <2>1. InRound(i) \in Nat /\ InRound(i)' \in Nat
    BY DEF InRound
  <2>2. CASE round'[i] = round[i] /\ InRound(i)' < InRound(i)
    BY <1>1, <2>1, <2>2 DEF Ahead
  <2>3. CASE round'[i] = round[i] + 1 /\ at[i] = "candidate" /\ at'[i] = "start"
    <3>1. InRound(i) = 1 /\ InRound(i)' = 5
      BY <2>3 DEF InRound
    <3>2. QED
      BY <1>1, <2>3, <3>1 DEF Ahead
  <2>4. QED
    BY <1>2, <2>2, <2>3
<1>5. \A j \in Slice : Ahead(j)' <= Ahead(j)
  BY <1>3, <1>4, AheadType
<1>6. QED
  BY <1>2, <1>4, <1>5

LEMMA RunnerWindsDown ==
  ASSUME WaveInv, Unstarted, RunnerNext
  PROVE  ToGo' < ToGo /\ ToGo' <= ToGo /\ \A j \in Slice : Ahead(j)' <= Ahead(j)
<1> USE DEF WaveInv
<1>1. Pending \in Nat /\ (Completed # Slice => Pending > 0)
  BY PendingType
<1>2. CASE StartWave
  <2>1. UNCHANGED <<recorded, round>> /\ stage = "plan" /\ stage' = "wave"
    BY <1>2 DEF StartWave
  <2>2. ToGo' < ToGo /\ ToGo' <= ToGo
    <3>1. Pending' = Pending
      BY <2>1 DEF Pending, Completed
    <3>2. QED
      BY <1>1, <2>1, <3>1 DEF ToGo
  <2>3. ASSUME NEW j \in Slice PROVE Ahead(j)' <= Ahead(j)
    <3>1. j \in wave' => at[j] = "idle"
      BY <1>2 DEF StartWave, IsNextWave, Joins, Unstarted
    <3>2. InRound(j)' <= InRound(j)
      BY <1>2, <3>1 DEF StartWave, InRound
    <3>3. round[j] \in 0..MaxRounds /\ MaxRounds \in Nat /\ InRound(j) \in Nat /\ InRound(j)' \in Nat
      BY PlansAssumption DEF TypeOK, InRound
    <3>4. QED
      BY <2>1, <3>2, <3>3 DEF Ahead
  <2>4. QED
    BY <2>2, <2>3
<1>3. CASE Compose
  <2>1. PICK i \in wave :
          /\ recorded' = Append(recorded, i) /\ i \notin Completed
          /\ stage = "compose" /\ stage' \in {"plan", "compose", "returned"}
    BY <1>3 DEF Compose, Due
  <2>2. i \in Slice /\ Completed' = Completed \cup {i}
    BY <2>1, CompletedGrows DEF TypeOK
  <2>3. Pending' = Pending - 1 /\ Pending' \in Nat
    <3>1. Slice \ Completed' = (Slice \ Completed) \ {i} /\ i \in Slice \ Completed
      BY <2>1, <2>2
    <3>2. QED
      BY <3>1, PendingType, FS_RemoveElement, FS_CardinalityType DEF Pending
  <2>4. ToGo' < ToGo /\ ToGo' <= ToGo
    BY <1>1, <2>1, <2>3 DEF ToGo
  <2>5. UNCHANGED <<at, round>>
    BY <1>3 DEF Compose, workers
  <2>6. QED
    BY <2>4, <2>5, StaysAhead
<1>4. CASE WaveSettles \/ WaveFails \/ ComposeRefuses \/ AllAdvanced \/ Archive \/ Dispose
           \/ DisposeFails \/ Release
  <2>1. UNCHANGED <<at, round, recorded>>
    BY <1>4 DEF WaveSettles, WaveFails, ComposeRefuses, AllAdvanced, Archive, Dispose, DisposeFails,
                Release, workers
  <2>2. Pending' = Pending
    BY <2>1 DEF Pending, Completed
  <2>3. ToGo' < ToGo /\ ToGo' <= ToGo
    BY <1>1, <1>4, <2>2 DEF WaveSettles, WaveFails, ComposeRefuses, AllAdvanced, Archive, Dispose,
                            DisposeFails, Release, ToGo
  <2>4. QED
    BY <2>1, <2>3, StaysAhead
<1>5. QED
  BY <1>2, <1>3, <1>4 DEF RunnerNext

\* A slice phase comes to an end: every step of the runner or of a worker, the ones that go on
\* after their run was given up included, brings its own end closer, and nothing ever puts it off
\* (the loops of planSliceWaves, SliceRunner.run and routeSlice).
THEOREM PhaseEnds ==
  Spec => /\ [](ToGo \in Nat /\ \A i \in Slice : Ahead(i) \in Nat)
          /\ [][WindsDown]_vars
<1>1. ASSUME WaveInv, Unstarted, [Next]_vars PROVE [WindsDown]_vars
  <2>1. SUFFICES ASSUME Next PROVE WindsDown
    BY <1>1
  <2>2. ASSUME NEW i \in Slice, WorkerNext(i)
        PROVE  /\ Ahead(i)' < Ahead(i) /\ \A j \in Slice : Ahead(j)' <= Ahead(j)
               /\ UNCHANGED <<stage, recorded>>
    BY <1>1, <2>2, WorkerWindsDown DEF WaveInv
  <2>3. RunnerNext => ToGo' < ToGo /\ ToGo' <= ToGo /\ \A j \in Slice : Ahead(j)' <= Ahead(j)
    BY <1>1, RunnerWindsDown
  <2>4. Exit \/ Recover => UNCHANGED <<at, round, stage, recorded>>
    BY DEF Exit, Recover, runner, workers
  <2>5. \A i \in Slice : Ahead(i)' <= Ahead(i)
    BY <1>1, <2>1, <2>2, <2>3, <2>4, StaysAhead DEF Next, WaveInv
  <2>6. ToGo' <= ToGo
    BY <1>1, <2>1, <2>2, <2>3, <2>4, StaysAhead DEF Next, WaveInv
  <2>7. QED
    BY <2>2, <2>3, <2>5, <2>6 DEF WindsDown
<1>2. Init => Unstarted
  BY DEF Init, Unstarted
<1>3. WaveInv => ToGo \in Nat /\ \A i \in Slice : Ahead(i) \in Nat
  BY AheadType DEF WaveInv
<1>4. QED
  BY <1>1, <1>2, <1>3, UnstartedNext, WaveInvAlways, PTL DEF Spec
=============================================================================
