------------------------ MODULE InitializationProofs ------------------------
(***************************************************************************)
(* Safety of ApplicationInitialization for any policies, any optional      *)
(* presets and any number of mounts.                                       *)
(***************************************************************************)
EXTENDS ApplicationInitialization, FiniteSetTheorems, SequenceTheorems, WellFoundedInduction,
        TLAPS

Runs == [chosen : SUBSET Presets, step : 0 .. Len(stepIds), group : Nat,
         flying : SUBSET Requests, over : BOOLEAN]

TypeInv ==
    /\ mount \in Mounts
    /\ phase \in {"none", "select", "review", "running", "complete", "error"}
    /\ selected \subseteq Presets
    /\ completed \in Seq(Steps)
    /\ runs \in [Mounts -> Runs]
    /\ made \in [Requests -> Nat]

\* A mount runs once, and none runs that is not there yet; nothing is completed
\* before the run.
OnceInv ==
    /\ phase \in {"select", "review"} => runs[mount] = NoRun
    /\ \A m \in Mounts : m > mount => runs[m] = NoRun
    /\ phase \in {"none", "select", "review"} => completed = <<>>

\* A run that is not over is at a set of requests of a step of its own.
Placed(run) ==
    ~run.over => /\ run.step \in StepsOf(run.chosen)
                 /\ run.group \in 1 .. Len(Work(StepOf(run), run.chosen))

PlaceInv == \A m \in Mounts : Placed(runs[m])

IsThere(request) == made[request] > 0 /\ Copyable(request)

\* Of the step it is at, the requests before the set that is on its way, and
\* those of the set that are answered.
AreThere(run) ==
    \A g \in 1 .. run.group : \A request \in Work(StepOf(run), run.chosen)[g] :
        g < run.group \/ request \notin run.flying => IsThere(request)

\* Of the run the dialog hears of, what it sent and hears no more of is there.
HeardOf(run) ==
    /\ run.chosen = selected /\ ~run.over
    /\ AreThere(run)
    /\ \A i \in StepsOf(selected) : i < run.step => IsMade(stepIds[i])

RunInv == phase = "running" => HeardOf(runs[mount])

IInv == TypeInv /\ OnceInv /\ PlaceInv /\ RunInv /\ CompletedIsMade

-----------------------------------------------------------------------------
\* The steps and their requests.

\* A nonempty set of places has a first one.
LEMMA MinIsOneOfThem ==
  ASSUME NEW S \in SUBSET (1 .. 10), S # {}
  PROVE  Min(S) \in S /\ \A j \in S : Min(S) <= j
<1>. DEFINE Before(i) == {j \in S : j < i}
            Sets == {Before(i) : i \in S}
<1>1. IsFiniteSet(S)
  <2>1. S \in SUBSET Nat /\ \A i \in S : i <= 10
    OBVIOUS
  <2>. QED  BY <2>1, FS_BoundedSetOfNaturals
<1>2. IsWellFoundedOn(StrictSubsetOrdering(S), SUBSET S)
  BY <1>1, FS_StrictSubsetOrderingWellFounded, FS_FiniteSubsetsOfFinite
<1>3. Sets \subseteq SUBSET S /\ Sets # {}
  OBVIOUS
<1>4. PICK T \in Sets : \A U \in Sets : <<U, T>> \notin StrictSubsetOrdering(S)
  BY <1>2, <1>3, WFMin
<1>5. PICK i \in S : T = Before(i)
  OBVIOUS
<1>6. \A j \in S : i <= j
  <2>1. SUFFICES ASSUME NEW j \in S, j < i PROVE FALSE
    OBVIOUS
  <2>2. Before(j) \subseteq Before(i) /\ j \in Before(i) /\ j \notin Before(j)
    <3>1. \A k \in S : k \in Nat
      OBVIOUS
    <3>2. \A k \in S : k < j => k < i
      BY <2>1, <3>1
    <3>3. ~(j < j)
      BY <3>1
    <3>. QED  BY <2>1, <3>2, <3>3
  <2>3. <<Before(j), T>> \in StrictSubsetOrdering(S)
    BY <1>5, <2>2 DEF StrictSubsetOrdering
  <2>. QED  BY <1>4, <2>3
<1>. QED  BY <1>6 DEF Min

LEMMA StepsAre ==
  /\ Steps = {"environment", "api", "desktop", "server", "authorization", "runtime", "storage",
              "release", "analytics", "telemetry"}
  /\ Len(stepIds) = 10
  /\ \A i \in 1 .. 10 : stepIds[i] \in Steps
  /\ stepIds[1] = "environment"
<1>1. /\ stepIds[1] = "environment" /\ stepIds[2] = "api" /\ stepIds[3] = "desktop"
      /\ stepIds[4] = "server" /\ stepIds[5] = "authorization" /\ stepIds[6] = "runtime"
      /\ stepIds[7] = "storage" /\ stepIds[8] = "release" /\ stepIds[9] = "analytics"
      /\ stepIds[10] = "telemetry" /\ Len(stepIds) = 10 /\ DOMAIN stepIds = 1 .. 10
  BY DEF stepIds
<1>. QED  BY <1>1 DEF Steps, ToSet

LEMMA StepsOfType ==
  ASSUME NEW chosen
  PROVE  /\ StepsOf(chosen) \subseteq 1 .. 10 /\ 1 \in StepsOf(chosen)
         /\ \A i \in StepsOf(chosen) : stepIds[i] \in Steps
BY StepsAre DEF StepsOf

\* The requests of a step, and that a step has some to begin with.
LEMMA WorkType ==
  ASSUME NEW step \in Steps, NEW chosen
  PROVE  /\ Len(Work(step, chosen)) \in Nat \ {0}
         /\ DOMAIN Work(step, chosen) = 1 .. Len(Work(step, chosen))
         /\ RequestsOf(step, chosen) = UNION {Work(step, chosen)[g] : g \in 1 .. Len(Work(step, chosen))}
         /\ RequestsOf(step, chosen) \subseteq Requests
<1>. DEFINE All == {{"permission"}, Policies, {"role"}, {"binding"}}
            work == Work(step, chosen)
            first == <<{"permission"}, Policies>>
            last == <<{"role"}, {"binding"}>>
<1>1. /\ DOMAIN work = 1 .. Len(work) /\ Len(work) \in Nat \ {0}
      /\ RequestsOf(step, chosen) \subseteq RequestsOf(step, Presets)
  <2>1. CASE step # "authorization"
    <3>1. Work(step, chosen) = Work(step, Presets)
      BY <2>1, StepsAre DEF Work
    <3>2. \/ work = <<{"environment"}>>
          \/ work = <<{"apiScope"}>>
          \/ work = <<{"desktopClient"}>>
          \/ work = <<{"serverClient"}>>
          \/ work = <<{"flag"}, {"flagValidation"}, {"flagPublication"},
                       {"entry"}, {"entryValidation"}, {"entryPublication"}>>
          \/ work = <<{"bucket"}>>
          \/ work = <<{"channel"}>>
          \/ work = <<{"eventSchema"}, {"writeKey"}>>
          \/ work = <<{"clientSource", "serverSource"}, {"settingsReading"}, {"settings"}>>
      BY <2>1, StepsAre DEF Work
    <3>. HIDE DEF work
    <3>3. DOMAIN work = 1 .. Len(work) /\ Len(work) \in Nat \ {0}
      <4>1. CASE work = <<{"environment"}>>
        BY <4>1
      <4>2. CASE work = <<{"apiScope"}>>
        BY <4>2
      <4>3. CASE work = <<{"desktopClient"}>>
        BY <4>3
      <4>4. CASE work = <<{"serverClient"}>>
        BY <4>4
      <4>5. CASE work = <<{"flag"}, {"flagValidation"}, {"flagPublication"},
                          {"entry"}, {"entryValidation"}, {"entryPublication"}>>
        BY <4>5
      <4>6. CASE work = <<{"bucket"}>>
        BY <4>6
      <4>7. CASE work = <<{"channel"}>>
        BY <4>7
      <4>8. CASE work = <<{"eventSchema"}, {"writeKey"}>>
        BY <4>8
      <4>9. CASE work = <<{"clientSource", "serverSource"}, {"settingsReading"}, {"settings"}>>
        BY <4>9
      <4>. QED  BY <3>2, <4>1, <4>2, <4>3, <4>4, <4>5, <4>6, <4>7, <4>8, <4>9
    <3>. QED  BY <3>1, <3>3 DEF RequestsOf
  <2>2. CASE step = "authorization"
    <3>1. /\ first \in Seq(All) /\ Len(first) = 2
          /\ last \in Seq(All) /\ Len(last) = 2
      OBVIOUS
    <3>2. /\ work = IF "server" \in chosen THEN first \o last ELSE first \o <<>>
          /\ Work(step, Presets) = first \o last
      BY <2>2, StepsAre DEF Work, Presets
    <3>. HIDE DEF first, last, work, All
    <3>3. /\ first \o last \in Seq(All) /\ Len(first \o last) = 4
          /\ first \o <<>> = first
          /\ \A g \in 1 .. 2 : first[g] = (first \o last)[g]
      <4>1. /\ first \o last \in Seq(All)
            /\ Len(first \o last) = Len(first) + Len(last)
            /\ \A i \in 1 .. Len(first) + Len(last) : (first \o last)[i] =
                 IF i <= Len(first) THEN first[i] ELSE last[i - Len(first)]
        BY <3>1, ConcatProperties
      <4>2. first \o <<>> = first
        BY <3>1, ConcatEmptySeq
      <4>. QED  BY <3>1, <4>1, <4>2
    <3>4. ToSet(first) \subseteq ToSet(first \o last)
      BY <3>1, <3>3 DEF ToSet
    <3>5. DOMAIN work = 1 .. Len(work) /\ Len(work) \in Nat \ {0}
      BY <3>1, <3>2, <3>3
    <3>. QED  BY <3>2, <3>3, <3>4, <3>5 DEF RequestsOf, work
  <2>. QED  BY <2>1, <2>2
<1>2. RequestsOf(step, chosen) = UNION {work[g] : g \in 1 .. Len(work)}
  BY <1>1 DEF RequestsOf, ToSet
<1>. QED  BY <1>1, <1>2 DEF Requests

-----------------------------------------------------------------------------
LEMMA NoRunType == NoRun \in Runs /\ Placed(NoRun) /\ NoRun.flying = {} /\ NoRun.over /\ NoRun.step = 0
BY StepsAre DEF NoRun, Runs, Placed

LEMMA InitIInv == Init => IInv
<1>. SUFFICES ASSUME Init PROVE IInv
  OBVIOUS
<1>1. /\ \A m \in Mounts : runs[m] = NoRun
      /\ runs \in [Mounts -> Runs]
  BY NoRunType DEF Init
<1>2. mount \in Mounts
  BY MountsAssumption DEF Init, Mounts
<1>3. completed = <<>> /\ phase = "select" /\ selected = Presets /\ made \in [Requests -> Nat]
  BY DEF Init
<1>4. completed \in Seq(Steps) /\ 1 .. Len(completed) = {}
  <2>1. completed = <<>>
    BY <1>3
  <2>2. Len(completed) = 0
    BY <2>1
  <2>. QED  BY <2>1, <2>2
<1>5. TypeInv
  BY <1>1, <1>2, <1>3, <1>4 DEF TypeInv
<1>6. OnceInv /\ PlaceInv /\ RunInv
  BY <1>1, <1>2, <1>3, NoRunType DEF OnceInv, PlaceInv, RunInv
<1>7. CompletedIsMade
  BY <1>3, <1>4 DEF CompletedIsMade
<1>. QED  BY <1>5, <1>6, <1>7 DEF IInv

\* What is there stays there, while the dialog is the same.
LEMMA ThereStays ==
  ASSUME IInv, UNCHANGED selected, secrets \subseteq secrets',
         \A request \in Requests : made'[request] >= made[request],
         made' \in [Requests -> Nat]
  PROVE  /\ \A request \in Requests : IsThere(request) => IsThere(request)'
         /\ \A step \in Steps : IsMade(step) => IsMade(step)'
<1>1. ASSUME NEW request \in Requests, IsThere(request) PROVE IsThere(request)'
  <2>1. made[request] \in Nat /\ made'[request] \in Nat /\ made'[request] >= made[request]
    BY DEF IInv, TypeInv
  <2>2. made'[request] > 0
    BY <1>1, <2>1 DEF IsThere
  <2>. QED  BY <1>1, <2>2 DEF IsThere, Copyable
<1>2. ASSUME NEW step \in Steps, IsMade(step) PROVE IsMade(step)'
  <2>. SUFFICES ASSUME NEW request \in RequestsOf(step, selected) PROVE IsThere(request)'
    BY DEF IsMade, IsThere
  <2>1. request \in Requests
    BY WorkType
  <2>2. IsThere(request)
    BY <1>2 DEF IsMade, IsThere
  <2>. QED  BY <1>1, <2>1, <2>2
<1>. QED  BY <1>1, <1>2

\* A step is made when all its sets are.
LEMMA StepIsMade ==
  ASSUME NEW step \in Steps,
         \A g \in 1 .. Len(Work(step, selected)) : \A request \in Work(step, selected)[g] :
            IsThere(request)
  PROVE  IsMade(step)
BY WorkType DEF IsMade, IsThere

LEMMA GroupType ==
  ASSUME NEW step \in Steps, NEW chosen, NEW g \in 1 .. Len(Work(step, chosen))
  PROVE  Work(step, chosen)[g] \subseteq Requests
BY WorkType

-----------------------------------------------------------------------------
\* The run after a request is answered.
LEMMA RunType ==
  ASSUME NEW run \in Runs
  PROVE  /\ run.chosen \in SUBSET Presets /\ run.step \in 0 .. 10 /\ run.group \in Nat
         /\ run.flying \in SUBSET Requests /\ run.over \in BOOLEAN
BY StepsAre DEF Runs

LEMMA BeginType ==
  ASSUME NEW run \in Runs, ~run.over, NEW step \in StepsOf(run.chosen),
         NEW group \in 1 .. Len(Work(stepIds[step], run.chosen))
  PROVE  LET next == Begin(run, step, group) IN
         /\ next \in Runs /\ Placed(next)
         /\ next.chosen = run.chosen /\ ~next.over
         /\ next.step = step /\ next.group = group
         /\ next.flying = Work(stepIds[step], run.chosen)[group]
<1>. DEFINE next == Begin(run, step, group)
<1>1. step \in 1 .. 10 /\ stepIds[step] \in Steps
  BY StepsOfType
<1>2. Work(stepIds[step], run.chosen)[group] \in SUBSET Requests
  BY <1>1, GroupType
<1>3. group \in Nat
  BY <1>1, WorkType
<1>4. step \in 0 .. Len(stepIds)
  BY <1>1, StepsAre
<1>5. /\ next \in Runs
      /\ next.chosen = run.chosen /\ ~next.over
      /\ next.step = step /\ next.group = group
      /\ next.flying = Work(stepIds[step], run.chosen)[group]
  BY <1>2, <1>3, <1>4 DEF Begin, Runs
<1>. HIDE DEF next
<1>6. Placed(next)
  BY <1>5 DEF Placed, StepOf
<1>. QED  BY <1>5, <1>6 DEF next

LEMMA LaterType ==
  ASSUME NEW run \in Runs, Later(run) # {}
  PROVE  /\ Min(Later(run)) \in StepsOf(run.chosen) /\ Min(Later(run)) > run.step
         /\ \A i \in StepsOf(run.chosen) : i < Min(Later(run)) => i <= run.step
<1>1. Later(run) \in SUBSET (1 .. 10)
  BY StepsOfType DEF Later
<1>2. Min(Later(run)) \in Later(run) /\ \A j \in Later(run) : Min(Later(run)) <= j
  BY <1>1, MinIsOneOfThem
<1>3. ASSUME NEW i \in StepsOf(run.chosen), i < Min(Later(run)) PROVE i <= run.step
  <2>1. i \in Nat /\ run.step \in Nat /\ Min(Later(run)) \in Nat
    BY <1>1, <1>2, RunType, StepsOfType
  <2>2. i \notin Later(run)
    BY <1>2, <1>3, <2>1
  <2>. QED  BY <2>1, <2>2 DEF Later
<1>. QED  BY <1>2, <1>3 DEF Later

\* How a run goes on: it sends the next set, begins the next step, or is over.
LEMMA GoOnIs ==
  ASSUME NEW run \in Runs, Placed(run), NEW flying \in SUBSET run.flying
  PROVE  /\ GoOn(run, flying) \in Runs /\ Placed(GoOn(run, flying))
         /\ GoOn(run, flying).chosen = run.chosen
         /\ run.over => GoOn(run, flying).flying = flying /\ GoOn(run, flying).over
         /\ RunOver(run, flying) => flying = {} /\ Later(run) = {}
         /\ StepOver(run, flying) /\ ~RunOver(run, flying) =>
               Later(run) # {} /\ GoOn(run, flying) = Begin(run, Min(Later(run)), 1)
         /\ GroupOver(run, flying) /\ ~StepOver(run, flying) =>
               /\ run.group + 1 \in 1 .. Len(Work(StepOf(run), run.chosen))
               /\ GoOn(run, flying) = Begin(run, run.step, run.group + 1)
         /\ ~GroupOver(run, flying) => GoOn(run, flying) = [run EXCEPT !.flying = flying]
<1>1. CASE RunOver(run, flying)
  <2>1. /\ flying = {} /\ Later(run) = {} /\ StepOver(run, flying) /\ GroupOver(run, flying)
        /\ ~run.over
    BY <1>1 DEF RunOver, StepOver, GroupOver
  <2>2. GoOn(run, flying) = [run EXCEPT !.flying = {}, !.over = TRUE]
    BY <1>1, <2>1 DEF GoOn
  <2>3. /\ [run EXCEPT !.flying = {}, !.over = TRUE] \in Runs
        /\ [run EXCEPT !.flying = {}, !.over = TRUE].over
        /\ [run EXCEPT !.flying = {}, !.over = TRUE].chosen = run.chosen
    BY DEF Runs
  <2>. QED  BY <1>1, <2>1, <2>2, <2>3 DEF Placed
<1>2. CASE StepOver(run, flying) /\ ~RunOver(run, flying)
  <2>1. GoOn(run, flying) = Begin(run, Min(Later(run)), 1)
    BY <1>2 DEF GoOn, StepOver
  <2>2. Later(run) # {} /\ ~run.over /\ GroupOver(run, flying)
    BY <1>2 DEF RunOver, StepOver, GroupOver
  <2>3. Min(Later(run)) \in StepsOf(run.chosen)
    BY <2>2, LaterType
  <2>4. 1 \in 1 .. Len(Work(stepIds[Min(Later(run))], run.chosen))
    BY <2>3, StepsOfType, WorkType
  <2>. QED  BY <1>2, <2>1, <2>2, <2>3, <2>4, BeginType
<1>3. CASE GroupOver(run, flying) /\ ~StepOver(run, flying)
  <2>1. ~RunOver(run, flying)
    BY <1>3 DEF RunOver
  <2>2. GoOn(run, flying) = Begin(run, run.step, run.group + 1)
    BY <1>3, <2>1 DEF GoOn
  <2>3. /\ ~run.over /\ run.step \in StepsOf(run.chosen)
        /\ run.group \in 1 .. Len(Work(StepOf(run), run.chosen))
        /\ run.group # Len(Work(StepOf(run), run.chosen))
    BY <1>3 DEF GroupOver, StepOver, Placed
  <2>4. run.group + 1 \in 1 .. Len(Work(StepOf(run), run.chosen))
    BY <2>3, StepsOfType, WorkType DEF StepOf
  <2>. QED  BY <1>3, <2>1, <2>2, <2>3, <2>4, BeginType DEF StepOf
<1>4. CASE ~GroupOver(run, flying)
  <2>1. ~StepOver(run, flying) /\ ~RunOver(run, flying)
    BY <1>4 DEF RunOver, StepOver
  <2>2. GoOn(run, flying) = [run EXCEPT !.flying = flying]
    BY <1>4, <2>1 DEF GoOn
  <2>3. /\ [run EXCEPT !.flying = flying] \in Runs
        /\ [run EXCEPT !.flying = flying].chosen = run.chosen
        /\ [run EXCEPT !.flying = flying].flying = flying
        /\ [run EXCEPT !.flying = flying].over = run.over
        /\ [run EXCEPT !.flying = flying].step = run.step
        /\ [run EXCEPT !.flying = flying].group = run.group
    BY DEF Runs
  <2>4. Placed(GoOn(run, flying))
    BY <2>2, <2>3 DEF Placed, StepOf
  <2>. QED  BY <1>4, <2>1, <2>2, <2>3, <2>4
<1>. QED  BY <1>1, <1>2, <1>3, <1>4

-----------------------------------------------------------------------------
\* The dialog.
LEMMA ToggleStep == ASSUME NEW preset \in Optional, IInv, Toggle(preset) PROVE IInv'
<1>1. /\ phase = "select"
      /\ UNCHANGED <<tenant, initializing, mount, phase, completed, secrets, runs, made>>
  BY DEF Toggle
<1>2. selected' \subseteq Presets
  BY OptionalAssumption DEF Toggle, IInv, TypeInv
<1>3. TypeInv' /\ OnceInv' /\ PlaceInv' /\ RunInv'
  BY <1>1, <1>2 DEF IInv, TypeInv, OnceInv, PlaceInv, Placed, RunInv
<1>4. completed' = <<>> /\ phase' # "complete"
  BY <1>1 DEF IInv, OnceInv
<1>5. Len(completed') = 0
  <2>1. completed' = <<>>
    BY <1>4
  <2>. QED  BY <2>1
<1>6. 1 .. Len(completed') = {}
  BY <1>5
<1>7. CompletedIsMade'
  BY <1>4, <1>6 DEF CompletedIsMade
<1>. QED  BY <1>3, <1>7 DEF IInv

LEMMA TurnPageStep == IInv /\ TurnPage => IInv'
<1>. SUFFICES ASSUME IInv, TurnPage PROVE IInv'
  OBVIOUS
<1>1. /\ phase \in {"select", "review"} /\ phase' \in {"select", "review"}
      /\ UNCHANGED <<tenant, initializing, mount, selected, completed, secrets, runs, made>>
  BY DEF TurnPage
<1>2. TypeInv' /\ OnceInv' /\ PlaceInv' /\ RunInv'
  BY <1>1 DEF IInv, TypeInv, OnceInv, PlaceInv, Placed, RunInv
<1>3. CompletedIsMade'
  BY <1>1 DEF IInv, CompletedIsMade, IsMade, Copyable
<1>. QED  BY <1>2, <1>3 DEF IInv

\* A dialog that is new, or gone, knows of nothing.
LEMMA NewDialogKeepsInv ==
  ASSUME IInv, UNCHANGED <<runs, made>>, mount' \in Mounts, mount' >= mount,
         completed' = <<>>, selected' \subseteq Presets,
         phase' = "none" \/ (phase' = "select" /\ mount' > mount)
  PROVE  IInv'
<1>1. \A m \in Mounts : m > mount' => m > mount
  BY DEF IInv, TypeInv, Mounts
<1>2. OnceInv' /\ PlaceInv' /\ RunInv'
  BY <1>1 DEF IInv, OnceInv, PlaceInv, Placed, RunInv
<1>3. completed' \in Seq(Steps) /\ Len(completed') = 0
  <2>1. completed' = <<>>
    OBVIOUS
  <2>. QED  BY <2>1
<1>4. TypeInv'
  BY <1>3 DEF IInv, TypeInv
<1>5. 1 .. Len(completed') = {}
  BY <1>3
<1>6. CompletedIsMade'
  BY <1>5 DEF CompletedIsMade
<1>. QED  BY <1>2, <1>4, <1>6 DEF IInv

LEMMA CloseStep == IInv /\ Close => IInv'
BY NewDialogKeepsInv DEF Close, Unmounted, IInv, TypeInv, Mounts

LEMMA TenantLeavesStep == IInv /\ TenantLeaves => IInv'
BY NewDialogKeepsInv DEF TenantLeaves, Unmounted, IInv, TypeInv, Mounts

LEMMA DialogRests == IInv /\ UNCHANGED <<mount, dialog, runs, made>> => IInv'
<1>. SUFFICES ASSUME IInv, UNCHANGED <<mount, dialog, runs, made>> PROVE IInv'
  OBVIOUS
<1>1. TypeInv' /\ OnceInv' /\ PlaceInv'
  BY DEF IInv, TypeInv, OnceInv, PlaceInv, Placed, dialog
<1>2. RunInv'
  BY DEF IInv, RunInv, HeardOf, AreThere, IsThere, IsMade, Copyable, dialog
<1>3. CompletedIsMade'
  BY DEF IInv, CompletedIsMade, IsMade, Copyable, dialog, Review
<1>. QED  BY <1>1, <1>2, <1>3 DEF IInv

LEMMA TenantReturnsStep == IInv /\ TenantReturns => IInv'
<1>. SUFFICES ASSUME IInv, TenantReturns PROVE IInv'
  OBVIOUS
<1>1. CASE initializing
  <2>1. mount < MaxMounts /\ mount' = mount + 1 /\ Mounted /\ UNCHANGED <<runs, made>>
    BY <1>1 DEF TenantReturns
  <2>2. mount \in 1 .. MaxMounts
    BY DEF IInv, TypeInv, Mounts
  <2>3. mount' \in Mounts /\ mount' > mount /\ mount' >= mount
    BY <2>1, <2>2, MountsAssumption DEF Mounts
  <2>. QED  BY <2>1, <2>3, NewDialogKeepsInv DEF Mounted
<1>2. CASE ~initializing
  BY <1>2, DialogRests DEF TenantReturns
<1>. QED  BY <1>1, <1>2

LEMMA InitializeStep == IInv /\ Initialize => IInv'
<1>. SUFFICES ASSUME IInv, Initialize PROVE IInv'
  OBVIOUS
<1>. DEFINE run == [chosen |-> selected, step |-> 1, group |-> 1,
                   flying |-> Work("environment", selected)[1], over |-> FALSE]
<1>1. /\ phase = "review" /\ phase' = "running" /\ completed' = <<>>
      /\ runs' = [runs EXCEPT ![mount] = run]
      /\ UNCHANGED <<mount, selected, secrets, made>>
  BY DEF Initialize
<1>2. /\ "environment" \in Steps /\ stepIds[1] = "environment"
      /\ 1 \in 1 .. Len(Work("environment", selected))
      /\ 1 \in StepsOf(selected)
  BY StepsAre, StepsOfType, WorkType
<1>3. Work("environment", selected)[1] \in SUBSET Requests
  BY <1>2, GroupType
<1>4. run \in Runs
  <2>1. 1 \in 0 .. Len(stepIds) /\ selected \in SUBSET Presets
    BY StepsAre DEF IInv, TypeInv
  <2>. QED  BY <1>3, <2>1 DEF Runs
<1>5. /\ runs' \in [Mounts -> Runs] /\ runs'[mount] = run
      /\ \A m \in Mounts \ {mount} : runs'[m] = runs[m]
  BY <1>1, <1>4 DEF IInv, TypeInv
<1>6. /\ run.chosen = selected /\ run.step = 1 /\ run.group = 1 /\ ~run.over
      /\ run.flying = Work("environment", selected)[1]
  OBVIOUS
<1>. HIDE DEF run
<1>7. completed' \in Seq(Steps) /\ 1 .. Len(completed') = {}
  <2>1. completed' = <<>>
    BY <1>1
  <2>2. Len(completed') = 0
    BY <2>1
  <2>3. completed' \in Seq(Steps)
    BY <2>1
  <2>. QED  BY <2>2, <2>3
<1>8. TypeInv'
  BY <1>1, <1>5, <1>7 DEF IInv, TypeInv
<1>9. OnceInv'
  BY <1>1, <1>5 DEF IInv, OnceInv, TypeInv, Mounts
<1>10. PlaceInv'
  <2>1. Placed(run)
    BY <1>2, <1>6 DEF Placed, StepOf
  <2>. QED  BY <1>5, <2>1 DEF IInv, PlaceInv
<1>11. RunInv'
  <2>1. /\ runs'[mount'].chosen = selected' /\ runs'[mount'].step = 1
        /\ runs'[mount'].group = 1 /\ ~runs'[mount'].over
        /\ runs'[mount'].flying = Work("environment", selected')[1]
    BY <1>1, <1>5, <1>6
  <2>2. AreThere(runs[mount])'
    <3>. SUFFICES ASSUME NEW g \in 1 .. 1, NEW request \in Work("environment", selected')[g],
                         g < 1 \/ request \notin Work("environment", selected')[1]
                  PROVE  IsThere(request)'
      BY <1>2, <2>1 DEF AreThere, StepOf
    <3>1. g = 1 /\ ~(g < 1)
      OBVIOUS
    <3>. QED  BY <3>1
  <2>3. \A i \in StepsOf(selected') : ~(i < 1)
    BY StepsOfType
  <2>4. HeardOf(runs[mount])'
    BY <2>1, <2>2, <2>3 DEF HeardOf
  <2>. QED  BY <2>4 DEF RunInv
<1>12. CompletedIsMade'
  BY <1>1, <1>7 DEF CompletedIsMade
<1>. QED  BY <1>8, <1>9, <1>10, <1>11, <1>12 DEF IInv

-----------------------------------------------------------------------------
\* The answers.

\* What an answer leaves to show of the rest of the state.
LEMMA AnswerKeepsInv ==
  ASSUME IInv, NEW m \in Mounts, NEW run \in Runs, Placed(run),
         runs[m].flying # {},
         runs' = [runs EXCEPT ![m] = run],
         made' \in [Requests -> Nat],
         UNCHANGED <<mount, selected>>,
         phase' \in {"none", "select", "review", "running", "complete", "error"},
         phase' # phase => phase = "running",
         phase \notin {"none", "select", "review"} => phase' \notin {"none", "select", "review"},
         completed' \in Seq(Steps), completed' # completed => phase = "running",
         RunInv', CompletedIsMade'
  PROVE  IInv'
<1>1. runs[m] # NoRun
  BY NoRunType
<1>2. /\ runs' \in [Mounts -> Runs] /\ runs'[m] = run
      /\ \A n \in Mounts \ {m} : runs'[n] = runs[n]
  BY DEF IInv, TypeInv
<1>3. TypeInv' /\ PlaceInv'
  BY <1>2 DEF IInv, TypeInv, PlaceInv
<1>4. OnceInv'
  <2>1. ~(m > mount)
    BY <1>1 DEF IInv, OnceInv
  <2>2. phase' \in {"select", "review"} => phase' = phase /\ m # mount
    BY <1>1 DEF IInv, OnceInv
  <2>3. phase' \in {"none", "select", "review"} => completed' = <<>>
    BY DEF IInv, OnceInv
  <2>4. mount \in Mounts
    BY DEF IInv, TypeInv
  <2>. QED  BY <1>2, <2>1, <2>2, <2>3, <2>4 DEF IInv, OnceInv
<1>. QED  BY <1>3, <1>4 DEF IInv

\* An answer the dialog does not hear of.
LEMMA UnheardKeepsInv ==
  ASSUME IInv, NEW m \in Mounts, ~Hears(m), NEW run \in Runs, Placed(run),
         runs[m].flying # {},
         runs' = [runs EXCEPT ![m] = run],
         made' \in [Requests -> Nat],
         \A request \in Requests : made'[request] >= made[request],
         UNCHANGED <<mount, dialog>>
  PROVE  IInv'
<1>1. /\ \A request \in Requests : IsThere(request) => IsThere(request)'
      /\ \A step \in Steps : IsMade(step) => IsMade(step)'
  BY ThereStays DEF dialog
<1>2. RunInv'
  <2>. SUFFICES ASSUME phase = "running" PROVE HeardOf(runs[mount])'
    BY DEF RunInv, dialog
  <2>1. m # mount /\ HeardOf(runs[mount]) /\ runs[mount] \in Runs /\ Placed(runs[mount])
    BY DEF Hears, IInv, TypeInv, RunInv, PlaceInv
  <2>2. runs'[mount'] = runs[mount] /\ selected' = selected
    BY <2>1 DEF IInv, TypeInv, dialog
  <2>3. AreThere(runs[mount])'
    <3>. SUFFICES ASSUME NEW g \in 1 .. runs[mount].group,
                         NEW request \in Work(StepOf(runs[mount]), runs[mount].chosen)[g],
                         g < runs[mount].group \/ request \notin runs[mount].flying
                  PROVE  IsThere(request)'
      BY <2>2 DEF AreThere
    <3>1. IsThere(request)
      BY <2>1 DEF HeardOf, AreThere
    <3>2. /\ StepOf(runs[mount]) \in Steps
          /\ runs[mount].group \in 1 .. Len(Work(StepOf(runs[mount]), runs[mount].chosen))
      BY <2>1, StepsOfType DEF HeardOf, Placed, StepOf
    <3>3. g \in 1 .. Len(Work(StepOf(runs[mount]), runs[mount].chosen))
      BY <3>2, WorkType
    <3>4. request \in Requests
      BY <3>2, <3>3, GroupType
    <3>. QED  BY <1>1, <3>1, <3>4
  <2>4. \A i \in StepsOf(selected) : i < runs[mount].step => IsMade(stepIds[i])'
    BY <1>1, <2>1, StepsOfType DEF HeardOf
  <2>. QED  BY <2>1, <2>2, <2>3, <2>4 DEF HeardOf
<1>3. CompletedIsMade'
  <2>1. \A i \in 1 .. Len(completed) : completed[i] \in Steps
    <3>1. completed \in Seq(Steps)
      BY DEF IInv, TypeInv
    <3>. QED  BY <3>1
  <2>2. \A step \in Review : step \in Steps
    BY StepsOfType DEF Review
  <2>3. \A i \in 1 .. Len(completed) : IsMade(completed[i])'
    <3>. SUFFICES ASSUME NEW i \in 1 .. Len(completed) PROVE IsMade(completed[i])'
      OBVIOUS
    <3>1. completed[i] \in Steps /\ IsMade(completed[i])
      BY <2>1 DEF IInv, CompletedIsMade
    <3>. QED  BY <1>1, <3>1 DEF dialog
  <2>4. phase = "complete" => \A step \in Review : IsMade(step)'
    BY <1>1, <2>2 DEF IInv, CompletedIsMade
  <2>. QED  BY <2>3, <2>4 DEF CompletedIsMade, Review, dialog
<1>. QED  BY <1>2, <1>3, AnswerKeepsInv DEF dialog, IInv, TypeInv

\* An answer the dialog hears of: what was done is there, and what it makes of
\* the run tells the truth about it.
LEMMA HeardKeepsInv ==
  ASSUME IInv, NEW m \in Mounts, Hears(m), NEW request, Done(m, request)
  PROVE  IInv'
<1>. DEFINE run == runs[m]
            flying == run.flying \ {request}
<1>1. /\ m = mount /\ phase = "running" /\ request \in run.flying
      /\ made' = [made EXCEPT ![request] = @ + 1]
      /\ runs' = [runs EXCEPT ![m] = GoOn(run, flying)]
      /\ secrets' = secrets \cup ({request} \cap Secrets)
      /\ completed' = IF StepOver(run, flying) THEN Append(completed, StepOf(run)) ELSE completed
      /\ phase' = IF RunOver(run, flying) THEN "complete" ELSE phase
      /\ UNCHANGED <<tenant, initializing, mount, selected>>
  BY DEF Done, Hears
<1>2. /\ run \in Runs /\ Placed(run) /\ HeardOf(run) /\ request \in Requests
      /\ flying \in SUBSET run.flying
  BY <1>1, RunType DEF IInv, TypeInv, PlaceInv, RunInv
<1>. HIDE DEF flying
<1>a. PICK step \in Steps : step = StepOf(run)
  BY <1>2, StepsOfType DEF HeardOf, Placed, StepOf
<1>b. PICK next \in Runs : next = GoOn(run, flying)
  BY <1>2, GoOnIs
<1>3. /\ run.chosen = selected /\ ~run.over /\ run.step \in StepsOf(selected)
      /\ step = stepIds[run.step] /\ run.group \in 1 .. Len(Work(step, selected))
  BY <1>2, <1>a, StepsOfType DEF HeardOf, Placed, StepOf
<1>4. /\ made' \in [Requests -> Nat] /\ made'[request] > 0
      /\ \A r \in Requests : made'[r] >= made[r]
  BY <1>1, <1>2 DEF IInv, TypeInv
<1>5. /\ \A r \in Requests : IsThere(r) => IsThere(r)'
      /\ \A s \in Steps : IsMade(s) => IsMade(s)'
  BY <1>1, <1>4, ThereStays
<1>6. IsThere(request)'
  BY <1>1, <1>4 DEF IsThere, Copyable
\* What was sent and is answered, this answer included.
<1>7. \A g \in 1 .. run.group : \A r \in Work(step, selected)[g] :
         g < run.group \/ r \notin flying => IsThere(r)'
  <2>. SUFFICES ASSUME NEW g \in 1 .. run.group, NEW r \in Work(step, selected)[g],
                       g < run.group \/ r \notin flying
                PROVE  IsThere(r)'
    OBVIOUS
  <2>1. g \in 1 .. Len(Work(step, selected))
    BY <1>3, WorkType
  <2>2. r \in Requests
    BY <2>1, GroupType
  <2>3. CASE r = request
    BY <1>6, <2>3
  <2>4. CASE r # request
    <3>1. g < run.group \/ r \notin run.flying
      BY <2>4 DEF flying
    <3>2. IsThere(r)
      BY <1>2, <1>3, <1>a, <3>1 DEF HeardOf, AreThere
    <3>. QED  BY <1>5, <2>2, <3>2
  <2>. QED  BY <2>3, <2>4
<1>8. \A i \in StepsOf(selected) : i < run.step => IsMade(stepIds[i])'
  BY <1>2, <1>5, StepsOfType DEF HeardOf
<1>9. StepOver(run, flying) => IsMade(step)'
  <2>. SUFFICES ASSUME StepOver(run, flying) PROVE IsMade(step)'
    OBVIOUS
  <2>1. flying = {} /\ run.group = Len(Work(step, selected))
    BY <1>3, <1>a DEF StepOver, GroupOver
  <2>2. \A g \in 1 .. Len(Work(step, selected)) : \A r \in Work(step, selected)[g] : IsThere(r)'
    BY <1>7, <2>1
  <2>3. \A r \in RequestsOf(step, selected) : IsThere(r)'
    BY <2>2, WorkType
  <2>. QED  BY <1>1, <2>3 DEF IsMade, IsThere
<1>10. /\ runs'[mount'] = next /\ Placed(next) /\ next.chosen = selected
       /\ runs' = [runs EXCEPT ![m] = next]
  BY <1>1, <1>2, <1>3, <1>b, GoOnIs DEF IInv, TypeInv
\* Every step up to this one is made when this one is over.
<1>11. StepOver(run, flying) => \A i \in StepsOf(selected) : i <= run.step => IsMade(stepIds[i])'
  <2>. SUFFICES ASSUME StepOver(run, flying), NEW i \in StepsOf(selected), i <= run.step
                PROVE  IsMade(stepIds[i])'
    OBVIOUS
  <2>1. CASE i = run.step
    BY <1>3, <1>9, <2>1
  <2>2. CASE i < run.step
    BY <1>8, <2>2
  <2>. QED  BY <2>1, <2>2, <1>2, RunType, StepsOfType
<1>12. RunInv'
  <2>. SUFFICES ASSUME ~RunOver(run, flying)
                PROVE  /\ ~next.over
                       /\ \A g \in 1 .. next.group : \A r \in Work(stepIds[next.step], selected)[g] :
                             g < next.group \/ r \notin next.flying => IsThere(r)'
                       /\ \A i \in StepsOf(selected) : i < next.step => IsMade(stepIds[i])'
    BY <1>1, <1>10 DEF RunInv, HeardOf, AreThere, StepOf
  <2>1. CASE ~GroupOver(run, flying)
    <3>1. next = [run EXCEPT !.flying = flying]
      BY <1>2, <1>b, <2>1, GoOnIs
    <3>2. /\ next.step = run.step /\ next.group = run.group /\ next.flying = flying
          /\ next.over = run.over
      BY <1>2, <3>1 DEF Runs
    <3>. QED  BY <1>3, <1>7, <1>8, <3>2
  <2>2. CASE GroupOver(run, flying) /\ ~StepOver(run, flying)
    <3>1. /\ run.group + 1 \in 1 .. Len(Work(step, selected))
          /\ next = Begin(run, run.step, run.group + 1)
      BY <1>2, <1>3, <1>a, <1>b, <2>2, GoOnIs
    <3>2. /\ next.step = run.step /\ next.group = run.group + 1 /\ ~next.over
          /\ next.flying = Work(step, selected)[run.group + 1]
      BY <1>2, <1>3, <3>1, BeginType
    <3>3. flying = {} /\ run.group \in Nat
      BY <1>2, <2>2, RunType DEF GroupOver
    <3>4. ASSUME NEW g \in 1 .. next.group, NEW r \in Work(step, selected)[g],
                 g < next.group \/ r \notin next.flying
          PROVE  IsThere(r)'
      <4>1. g # run.group + 1
        BY <3>2, <3>4
      <4>2. g \in 1 .. run.group
        BY <3>2, <3>3, <4>1
      <4>. QED  BY <1>7, <3>3, <4>2
    <3>. QED  BY <1>3, <1>8, <3>2, <3>4
  <2>3. CASE StepOver(run, flying)
    <3>1. Later(run) # {} /\ next = Begin(run, Min(Later(run)), 1)
      BY <1>2, <1>b, <2>3, GoOnIs
    <3>2. /\ Min(Later(run)) \in StepsOf(selected)
          /\ \A i \in StepsOf(selected) : i < Min(Later(run)) => i <= run.step
      BY <1>2, <1>3, <3>1, LaterType
    <3>3. 1 \in 1 .. Len(Work(stepIds[Min(Later(run))], selected))
      BY <3>2, StepsOfType, WorkType
    <3>4. /\ next.step = Min(Later(run)) /\ next.group = 1 /\ ~next.over
          /\ next.flying = Work(stepIds[Min(Later(run))], selected)[1]
      BY <1>2, <1>3, <3>1, <3>2, <3>3, BeginType
    <3>5. ASSUME NEW g \in 1 .. next.group, NEW r \in Work(stepIds[next.step], selected)[g],
                 g < next.group \/ r \notin next.flying
          PROVE  IsThere(r)'
      <4>1. g = 1
        BY <3>4
      <4>. QED  BY <3>4, <3>5, <4>1
    <3>6. \A i \in StepsOf(selected) : i < next.step => IsMade(stepIds[i])'
      BY <1>11, <2>3, <3>2, <3>4
    <3>. QED  BY <3>4, <3>5, <3>6
  <2>. QED  BY <2>1, <2>2, <2>3
<1>13. completed' \in Seq(Steps)
  <2>1. completed \in Seq(Steps)
    BY DEF IInv, TypeInv
  <2>. QED  BY <1>1, <1>a, <2>1
<1>14. \A i \in 1 .. Len(completed') : IsMade(completed[i])'
  <2>. SUFFICES ASSUME NEW i \in 1 .. Len(completed'), NEW s \in Steps, s = completed'[i]
                PROVE  IsMade(s)'
    BY <1>13
  <2>1. completed \in Seq(Steps)
    BY DEF IInv, TypeInv
  <2>2. CASE i \in 1 .. Len(completed) /\ s = completed[i]
    BY <1>5, <2>2 DEF IInv, CompletedIsMade
  <2>3. CASE ~(i \in 1 .. Len(completed) /\ s = completed[i])
    <3>1. StepOver(run, flying) /\ s = StepOf(run)
      BY <1>1, <2>1, <2>3
    <3>. QED  BY <1>9, <1>a, <3>1
  <2>. QED  BY <2>2, <2>3
<1>15. phase' = "complete" => \A i \in StepsOf(selected) : IsMade(stepIds[i])'
  <2>. SUFFICES ASSUME phase' = "complete", NEW i \in StepsOf(selected) PROVE IsMade(stepIds[i])'
    OBVIOUS
  <2>1. RunOver(run, flying) /\ StepOver(run, flying)
    BY <1>1 DEF RunOver
  <2>2. Later(run) = {}
    BY <2>1 DEF RunOver
  <2>3. i <= run.step
    BY <1>2, <1>3, <2>2, RunType, StepsOfType DEF Later
  <2>. QED  BY <1>11, <2>1, <2>3
<1>16. CompletedIsMade'
  <2>1. \A s \in Review' : phase' = "complete" => IsMade(s)'
    <3>. SUFFICES ASSUME NEW i \in StepsOf(selected), phase' = "complete" PROVE IsMade(stepIds[i])'
      BY <1>1 DEF Review
    <3>. QED  BY <1>15
  <2>. QED  BY <1>14, <2>1 DEF CompletedIsMade
<1>17. runs[m].flying # {} /\ UNCHANGED <<mount, selected>> /\ phase = "running"
       /\ phase' \in {"running", "complete"}
  BY <1>1
<1>. QED  BY <1>4, <1>10, <1>12, <1>13, <1>16, <1>17, AnswerKeepsInv

LEMMA DoneStep ==
  ASSUME NEW m \in Mounts, NEW request, IInv, Done(m, request)
  PROVE  IInv'
<1>. DEFINE run == runs[m]
            flying == run.flying \ {request}
<1>1. CASE Hears(m)
  BY <1>1, HeardKeepsInv
<1>2. CASE ~Hears(m)
  <2>1. /\ request \in run.flying
        /\ made' = [made EXCEPT ![request] = @ + 1]
        /\ runs' = [runs EXCEPT ![m] = GoOn(run, flying)]
        /\ UNCHANGED <<mount, dialog>>
    BY <1>2 DEF Done, dialog
  <2>2. run \in Runs /\ Placed(run) /\ request \in Requests /\ flying \in SUBSET run.flying
    BY <2>1, RunType DEF IInv, TypeInv, PlaceInv
  <2>3. GoOn(run, flying) \in Runs /\ Placed(GoOn(run, flying))
    BY <2>2, GoOnIs
  <2>4. /\ made' \in [Requests -> Nat]
        /\ \A r \in Requests : made'[r] >= made[r]
    BY <2>1, <2>2 DEF IInv, TypeInv
  <2>. QED  BY <1>2, <2>1, <2>3, <2>4, UnheardKeepsInv
<1>. QED  BY <1>1, <1>2

\* A run that failed is over, and the dialog that hears of it lists what it did.
LEMMA FailsStep ==
  ASSUME NEW m \in Mounts, NEW request, IInv, Fails(m, request)
  PROVE  IInv'
<1>. DEFINE run == runs[m]
            next == [run EXCEPT !.flying = @ \ {request}, !.over = TRUE]
<1>1. /\ request \in run.flying
      /\ runs' = [runs EXCEPT ![m].flying = @ \ {request}, ![m].over = TRUE]
      /\ phase' = IF Hears(m) /\ ~run.over THEN "error" ELSE phase
      /\ UNCHANGED <<tenant, initializing, mount, selected, completed, secrets>>
  BY DEF Fails
<1>2. run \in Runs /\ request \in Requests
  BY <1>1, RunType DEF IInv, TypeInv
<1>3. next \in Runs /\ next.over
  BY <1>2 DEF Runs
<1>4. runs' = [runs EXCEPT ![m] = next]
  BY <1>1, <1>2 DEF IInv, TypeInv, Runs
<1>. HIDE DEF next
<1>5. Placed(next)
  BY <1>3 DEF Placed
<1>6. /\ made' \in [Requests -> Nat]
      /\ \A r \in Requests : made'[r] >= made[r]
  <2>1. made' = made \/ made' = [made EXCEPT ![request] = @ + 1]
    BY DEF Fails
  <2>. QED  BY <1>2, <2>1 DEF IInv, TypeInv
<1>7. CASE ~Hears(m)
  BY <1>1, <1>3, <1>4, <1>5, <1>6, <1>7, UnheardKeepsInv DEF dialog
<1>8. CASE Hears(m)
  <2>1. m = mount /\ phase = "running" /\ ~run.over
    BY <1>8 DEF Hears, IInv, RunInv, HeardOf
  <2>2. phase' = "error"
    BY <1>1, <1>8, <2>1
  <2>3. RunInv'
    BY <2>2 DEF RunInv
  <2>4. \A s \in Steps : IsMade(s) => IsMade(s)'
    BY <1>1, <1>6, ThereStays
  <2>5. completed \in Seq(Steps)
    BY DEF IInv, TypeInv
  <2>6. \A i \in 1 .. Len(completed) : IsMade(completed[i])'
    <3>. SUFFICES ASSUME NEW i \in 1 .. Len(completed), NEW s \in Steps, s = completed[i]
                  PROVE  IsMade(s)'
      BY <1>1, <2>5
    <3>. QED  BY <2>4 DEF IInv, CompletedIsMade
  <2>7. CompletedIsMade'
    BY <1>1, <2>2, <2>6 DEF CompletedIsMade
  <2>8. completed' \in Seq(Steps) /\ completed' = completed
    BY <1>1, <2>5
  <2>9. run.flying # {} /\ UNCHANGED <<mount, selected>>
    BY <1>1
  <2>. QED  BY <1>3, <1>4, <1>5, <1>6, <2>1, <2>2, <2>3, <2>7, <2>8, <2>9, AnswerKeepsInv
<1>. QED  BY <1>7, <1>8

LEMMA NextIInv == IInv /\ [Next]_vars => IInv'
<1>. SUFFICES ASSUME IInv, [Next]_vars PROVE IInv'
  OBVIOUS
<1>1. ASSUME NEW preset \in Optional, Toggle(preset) PROVE IInv'
  BY <1>1, ToggleStep
<1>2. CASE TurnPage
  BY <1>2, TurnPageStep
<1>3. CASE Close
  BY <1>3, CloseStep
<1>4. CASE TenantLeaves
  BY <1>4, TenantLeavesStep
<1>5. CASE TenantReturns
  BY <1>5, TenantReturnsStep
<1>6. CASE Initialize
  BY <1>6, InitializeStep
<1>7. ASSUME NEW m \in Mounts, NEW request \in Requests, Done(m, request) PROVE IInv'
  BY <1>7, DoneStep
<1>8. ASSUME NEW m \in Mounts, NEW request \in Requests, Fails(m, request) PROVE IInv'
  BY <1>8, FailsStep
<1>9. CASE UNCHANGED vars
  BY <1>9, DialogRests DEF vars
<1>. QED  BY <1>1, <1>2, <1>3, <1>4, <1>5, <1>6, <1>7, <1>8, <1>9 DEF Next, Answered

\* The inductive invariant of the dialog and its runs holds from the start.
LEMMA Invariance == Spec => []IInv
BY InitIInv, NextIInv, PTL DEF Spec

-----------------------------------------------------------------------------
\* The results.

\* What the dialog lists as completed was made and its one-time secrets are
\* shown, and a run it shows as complete made all that the review announced, as
\* initialize() records a step only after the last of its requests.
THEOREM WhatIsListedIsMade == Spec => []CompletedIsMade
<1>1. IInv => CompletedIsMade
  BY DEF IInv
<1>. QED  BY <1>1, Invariance, PTL

\* After a step no run that was over has a request on its way that it had not
\* before.
LEMMA OverStaysOver ==
  ASSUME IInv, [Next]_vars, NEW m \in Mounts, runs[m].step > 0, runs[m].over
  PROVE  runs'[m].flying \subseteq runs[m].flying
<1>. DEFINE run == runs[m]
<1>1. /\ run \in Runs /\ Placed(run)
      /\ runs \in [Mounts -> Runs] /\ mount \in Mounts
  BY DEF IInv, TypeInv, PlaceInv
<1>2. CASE UNCHANGED runs
  BY <1>2
<1>3. CASE Initialize
  <2>1. runs[mount] = NoRun
    BY <1>3 DEF Initialize, IInv, OnceInv
  <2>2. m # mount
    BY <2>1, NoRunType
  <2>. QED  BY <1>1, <1>3, <2>2 DEF Initialize
<1>4. ASSUME NEW n \in Mounts, NEW request \in Requests, Done(n, request)
      PROVE  runs'[m].flying \subseteq run.flying
  <2>. DEFINE flying == run.flying \ {request}
  <2>1. runs' = [runs EXCEPT ![n] = GoOn(runs[n], runs[n].flying \ {request})]
    BY <1>4 DEF Done
  <2>2. CASE n # m
    BY <1>1, <2>1, <2>2
  <2>3. CASE n = m
    <3>1. flying \in SUBSET run.flying
      BY <1>1, RunType
    <3>2. GoOn(run, flying).flying = flying
      BY <1>1, <3>1, GoOnIs
    <3>. QED  BY <1>1, <2>1, <2>3, <3>2
  <2>. QED  BY <2>2, <2>3
<1>5. ASSUME NEW n \in Mounts, NEW request \in Requests, Fails(n, request)
      PROVE  runs'[m].flying \subseteq run.flying
  <2>1. runs' = [runs EXCEPT ![n].flying = @ \ {request}, ![n].over = TRUE]
    BY <1>5 DEF Fails
  <2>. QED  BY <1>1, <2>1 DEF Runs
<1>6. ASSUME NEW preset \in Optional, Toggle(preset) PROVE UNCHANGED runs
  BY <1>6 DEF Toggle
<1>7. TurnPage \/ Close \/ TenantLeaves \/ TenantReturns \/ UNCHANGED vars => UNCHANGED runs
  BY DEF TurnPage, Close, TenantLeaves, TenantReturns, vars
<1>. QED  BY <1>2, <1>3, <1>4, <1>5, <1>6, <1>7 DEF Next, Answered

\* A run of which a request failed sends no other, whatever is answered to those
\* that were sent with it: Promise.all rejects, and initialize() is left.
THEOREM AFailureAlwaysEndsTheRun == Spec => AFailureIsTheEnd
<1>1. IInv /\ [Next]_vars =>
        [\A m \in Mounts : runs[m].step > 0 /\ runs[m].over =>
            runs'[m].flying \subseteq runs[m].flying]_vars
  BY OverStaysOver
<1>. QED  BY <1>1, Invariance, PTL DEF Spec, AFailureIsTheEnd
=============================================================================
