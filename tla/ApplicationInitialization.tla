---------------------- MODULE ApplicationInitialization ----------------------
(***************************************************************************)
(* The dialog that makes the first resources of a new application: an      *)
(* environment and what the administrator selects of nine presets, one     *)
(* step after the other.  A step is one request after the other too, or    *)
(* several at a time (Promise.all); the first that fails ends the run, and *)
(* what was made until then is kept.                                       *)
(*                                                                         *)
(* The dialog is part of a panel that is shown while the tenant is in the  *)
(* page's list of tenants.  When the tenant leaves the list, which the     *)
(* page fetches whenever it gets the focus, the dialog is gone with all it *)
(* knows, and when the tenant is back there is a new one; a run that was   *)
(* under way goes on.                                                      *)
(***************************************************************************)
EXTENDS Integers, Sequences, FiniteSets, SequencesExt

CONSTANTS Policies,  \* the policy rules of the step "authorization"
          Optional,  \* presets the administrator turns on and off
          MaxMounts  \* bound: how often the dialog is mounted

stepIds == <<"environment", "api", "desktop", "server", "authorization", "runtime", "storage",
             "release", "analytics", "telemetry">>
Steps == ToSet(stepIds)
Presets == Steps \ {"environment"}

ASSUME OptionalAssumption == Optional \subseteq Presets
ASSUME MountsAssumption == MaxMounts \in Nat \ {0}

VARIABLES
    tenant,       \* the tenant is in the list
    initializing, \* the panel has an application to initialize
    mount,        \* how often the dialog was mounted
    phase,        \* of the dialog: what it shows, "none" when it is not there
    selected,     \* of the dialog: the presets that are on
    completed,    \* of the dialog: the steps it says were completed
    secrets,      \* of the dialog: the one-time secrets it shows
    runs,         \* initialize(), by the mount that started it
    made          \* services: how often each resource was made

dialog == <<phase, selected, completed, secrets>>
vars == <<tenant, initializing, mount, dialog, runs, made>>

Mounts == 1 .. MaxMounts

-----------------------------------------------------------------------------
\* The steps.  Each is a sequence of sets of requests; the requests of a set
\* are sent together.

Work(step, chosen) ==
    CASE step = "environment" -> <<{"environment"}>>
      [] step = "api" -> <<{"apiScope"}>>
      [] step = "desktop" -> <<{"desktopClient"}>>
      [] step = "server" -> <<{"serverClient"}>>
      [] step = "authorization" ->
            <<{"permission"}, Policies>>
                \o (IF "server" \in chosen THEN <<{"role"}, {"binding"}>> ELSE <<>>)
      [] step = "runtime" ->
            <<{"flag"}, {"flagValidation"}, {"flagPublication"},
              {"entry"}, {"entryValidation"}, {"entryPublication"}>>
      [] step = "storage" -> <<{"bucket"}>>
      [] step = "release" -> <<{"channel"}>>
      [] step = "analytics" -> <<{"eventSchema"}, {"writeKey"}>>
      [] step = "telemetry" ->
            <<{"clientSource", "serverSource"}, {"settingsReading"}, {"settings"}>>

\* The steps of a run, by their places.
StepsOf(chosen) == {i \in 1 .. Len(stepIds) : stepIds[i] \in {"environment"} \cup chosen}

RequestsOf(step, chosen) == UNION ToSet(Work(step, chosen))
Requests == UNION {RequestsOf(step, Presets) : step \in Steps}

Secrets == {"serverClient", "writeKey"}

\* What the services do as often as they are asked to; anything else has a
\* name of its own and is there once.
Repeatable ==
    Policies \cup {"writeKey", "flagValidation", "entryValidation",
                   "settingsReading", "settings"}

Refused(request) == request \notin Repeatable /\ made[request] > 0

-----------------------------------------------------------------------------
\* The dialog before and after a run.

NoRun == [chosen |-> {}, step |-> 0, group |-> 0, flying |-> {}, over |-> TRUE]

Mounted ==
    /\ phase' = "select"
    /\ selected' = Presets
    /\ completed' = <<>>
    /\ secrets' = {}

Unmounted ==
    /\ phase' = "none"
    /\ selected' = {}
    /\ completed' = <<>>
    /\ secrets' = {}

Init ==
    /\ tenant = TRUE
    /\ initializing = TRUE
    /\ mount = 1
    /\ phase = "select"
    /\ selected = Presets
    /\ completed = <<>>
    /\ secrets = {}
    /\ runs = [m \in Mounts |-> NoRun]
    /\ made = [request \in Requests |-> 0]

Toggle(preset) ==
    /\ phase = "select"
    /\ selected' = IF preset \in selected THEN selected \ {preset} ELSE selected \cup {preset}
    /\ UNCHANGED <<tenant, initializing, mount, phase, completed, secrets, runs, made>>

\* What the review says will be made.
Review == {stepIds[i] : i \in StepsOf(selected)}

TurnPage ==
    /\ phase \in {"select", "review"}
    /\ phase' = IF phase = "select" THEN "review" ELSE "select"
    /\ UNCHANGED <<tenant, initializing, mount, selected, completed, secrets, runs, made>>

\* Skip, Close or the cross: not while a run is under way.
Close ==
    /\ phase \notin {"none", "running"}
    /\ initializing' = FALSE
    /\ Unmounted
    /\ UNCHANGED <<tenant, mount, runs, made>>

\* The tenant leaves the list, and the panel is replaced by a placeholder.
TenantLeaves ==
    /\ tenant
    /\ tenant' = FALSE
    /\ Unmounted
    /\ UNCHANGED <<initializing, mount, runs, made>>

TenantReturns ==
    /\ ~tenant
    /\ tenant' = TRUE
    /\ IF initializing THEN mount < MaxMounts /\ mount' = mount + 1 /\ Mounted
                       ELSE UNCHANGED <<mount, dialog>>
    /\ UNCHANGED <<initializing, runs, made>>

-----------------------------------------------------------------------------
\* initialize()

Initialize ==
    /\ phase = "review"
    /\ runs' = [runs EXCEPT ![mount] =
                   [chosen |-> selected, step |-> 1, group |-> 1,
                    flying |-> Work("environment", selected)[1], over |-> FALSE]]
    /\ phase' = "running"
    /\ completed' = <<>>
    /\ UNCHANGED <<tenant, initializing, mount, selected, secrets, made>>

\* The dialog that started run m is still there to hear of it.
Hears(m) == m = mount /\ phase = "running"

StepOf(run) == stepIds[run.step]
Later(run) == {i \in StepsOf(run.chosen) : i > run.step}

\* All requests of a set are answered: the next set, the next step, the end.
\* (As it would be if the run did not know of its failure.)
GroupOverAnyway(run, flying) == flying = {}

GroupOver(run, flying) == flying = {} /\ ~run.over
StepOver(run, flying) ==
    GroupOver(run, flying) /\ run.group = Len(Work(StepOf(run), run.chosen))
RunOver(run, flying) == StepOver(run, flying) /\ Later(run) = {}

Begin(run, step, group) ==
    [run EXCEPT !.step = step, !.group = group,
                !.flying = Work(stepIds[step], run.chosen)[group]]

\* (As it would be if the next step did not start.)
StaysAtStep(run, flying) ==
    IF GroupOver(run, flying) /\ ~StepOver(run, flying)
    THEN Begin(run, run.step, run.group + 1) ELSE [run EXCEPT !.flying = flying]

GoOn(run, flying) ==
    CASE RunOver(run, flying) -> [run EXCEPT !.flying = {}, !.over = TRUE]
      [] StepOver(run, flying) /\ ~RunOver(run, flying) -> Begin(run, Min(Later(run)), 1)
      [] GroupOver(run, flying) /\ ~StepOver(run, flying) -> Begin(run, run.step, run.group + 1)
      [] OTHER -> [run EXCEPT !.flying = flying]

\* A request is done, and the run is answered.
Done(m, request) ==
    LET run == runs[m]
        flying == run.flying \ {request} IN
    /\ request \in run.flying
    /\ ~Refused(request)
    /\ made' = [made EXCEPT ![request] = @ + 1]
    /\ runs' = [runs EXCEPT ![m] = GoOn(run, flying)]
    /\ secrets' = IF Hears(m) THEN secrets \cup ({request} \cap Secrets) ELSE secrets
    /\ completed' = IF Hears(m) /\ StepOver(run, flying)
                    THEN Append(completed, StepOf(run)) ELSE completed
    /\ phase' = IF Hears(m) /\ RunOver(run, flying) THEN "complete" ELSE phase
    /\ UNCHANGED <<tenant, initializing, mount, selected>>

\* (As it would be with Promise.allSettled.)
FailsAlone(m, request) ==
    LET run == runs[m]
        flying == run.flying \ {request} IN
    /\ request \in run.flying
    /\ runs' = [runs EXCEPT ![m] = GoOn(run, flying)]
    /\ completed' = IF Hears(m) /\ StepOver(run, flying)
                    THEN Append(completed, StepOf(run)) ELSE completed
    /\ phase' = IF Hears(m) /\ RunOver(run, flying) THEN "complete" ELSE phase
    /\ UNCHANGED <<tenant, initializing, mount, selected, secrets, made>>

\* A request is refused, or its answer lost: the run is over, whatever else is
\* on its way.
Fails(m, request) ==
    /\ request \in runs[m].flying
    /\ made' \in {made} \cup (IF Refused(request) THEN {}
                              ELSE {[made EXCEPT ![request] = @ + 1]})
    /\ runs' = [runs EXCEPT ![m].flying = @ \ {request}, ![m].over = TRUE]
    /\ phase' = IF Hears(m) /\ ~runs[m].over THEN "error" ELSE phase
    /\ UNCHANGED <<tenant, initializing, mount, selected, completed, secrets>>

Answered(m) == \E request \in Requests : Done(m, request) \/ Fails(m, request)

Next ==
    \/ \E preset \in Optional : Toggle(preset)
    \/ TurnPage \/ Close \/ TenantLeaves \/ TenantReturns \/ Initialize
    \/ \E m \in Mounts : Answered(m)

\* Requests are answered, or fail when the browser gives up on them.
Fairness == \A m \in Mounts : WF_vars(Answered(m))

Spec == Init /\ [][Next]_vars /\ Fairness

-----------------------------------------------------------------------------

\* A one-time secret is there to be copied.
Copyable(request) == request \in Secrets => request \in secrets

\* What the dialog lists as completed was made, with its one-time secrets
\* shown, and of a run that is complete so was all that the review announced:
\* although requests are sent together, although answers are lost, and although
\* an earlier run may still be under way.
IsMade(step) ==
    \A request \in RequestsOf(step, selected) : made[request] > 0 /\ Copyable(request)

CompletedIsMade ==
    /\ \A i \in 1 .. Len(completed) : IsMade(completed[i])
    /\ phase = "complete" => \A step \in Review : IsMade(step)

\* Once a request of a run failed, the run sends no other, even when those sent
\* with it are answered later.
AFailureIsTheEnd ==
    [][\A m \in Mounts : runs[m].step > 0 /\ runs[m].over =>
           runs'[m].flying \subseteq runs[m].flying]_vars

\* A run that was started ends, whoever is there to hear of it.
InitializationEnds == \A m \in Mounts : runs[m].step > 0 ~> runs[m].over
=============================================================================
