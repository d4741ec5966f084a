-------------------------------- MODULE Updates --------------------------------
(***************************************************************************)
(* The portable update (update_manager.py, the update handlers of          *)
(* studio.py, installer/Apply-CinePulseUpdate.ps1): a package is found,     *)
(* downloaded and extracted by a thread while the editor goes on, named by  *)
(* a descriptor, and applied by the launcher before the next start.         *)
(* The installed payload is a set of top-level parts; the launcher that     *)
(* starts the program, and the applier, is one of them.                     *)
(***************************************************************************)
EXTENDS Integers, FiniteSets

CONSTANTS
  Parts,       \* top-level entries, the launcher among them
  Launcher,
  MaxCrashes,
  MaxStages,   \* times a package is prepared
  Faults       \* a subset of {"network", "launch", "apply", "rollback", "second"}

VARIABLES
  app,         \* "running", "closed", or "refused" to start
  busy,        \* a render, the queue or an installation is active
  available, prepared, checking,
  inbox,       \* events the worker threads have posted
  stager,      \* the step of the thread that prepares the package
  package,     \* what is under .runtime/updates/<version>
  pending,     \* pending-update.json exists
  helper,      \* the handoff script is waiting for the program to exit
  applier,     \* the step of the applier
  tree, backup,\* version of each part: "old", "new" or "gone"
  dropped,     \* the applier has deleted the descriptor
  stages, crashes,
  killed       \* an applier was killed

vars == <<app, busy, available, prepared, checking, inbox, stager, package, pending, helper,
          applier, tree, backup, dropped, stages, crashes, killed>>
studio  == <<app, busy, available, prepared, checking, inbox>>
thread  == <<stager, package, pending, stages>>
install == <<applier, tree, backup, dropped>>
history == <<crashes, killed>>

Payloads == [Parts -> {"old", "new", "gone"}]
All(version) == [p \in Parts |-> version]
Whole(payload) == payload \in {All("old"), All("new")}

Init ==
  /\ app = "running" /\ busy = FALSE
  /\ available = FALSE /\ prepared = FALSE /\ checking = FALSE /\ inbox = {}
  /\ stager = "idle" /\ package = "none" /\ pending = FALSE /\ stages = 0
  /\ helper = FALSE
  /\ applier = "idle" /\ tree = All("old") /\ backup = All("gone") /\ dropped = FALSE
  /\ crashes = 0 /\ killed = FALSE

(***************************************************************************)
(* The editor.                                                             *)
(***************************************************************************)
Running == app = "running"
Post(e) == inbox' = inbox \cup {e}

Work ==
  /\ Running /\ busy' = ~busy
  /\ UNCHANGED <<app, available, prepared, checking, inbox, thread, helper, install, history>>

\* Asked for by the user, or once at the start; a second check waits for the first.
Check ==
  /\ Running /\ ~checking /\ ~available
  /\ checking' = TRUE
  /\ UNCHANGED <<app, busy, available, prepared, inbox, thread, helper, install, history>>

\* Only a newer version with the exact asset and a digest counts as available.
CheckAnswers ==
  /\ Running /\ checking /\ inbox \cap {"found", "none", "checkfailed"} = {}
  /\ Post(IF tree = All("new") THEN "none" ELSE "found")
     \/ ("network" \in Faults /\ Post("checkfailed"))
  /\ UNCHANGED <<app, busy, available, prepared, checking, thread, helper, install, history>>

HandleCheck ==
  /\ Running /\ \E e \in inbox \cap {"found", "none", "checkfailed"} :
       /\ inbox' = inbox \ {e}
       /\ available' = IF e = "checkfailed" THEN available ELSE e = "found"
       /\ prepared' = (prepared /\ e # "none")
  /\ checking' = FALSE
  /\ UNCHANGED <<app, busy, thread, helper, install, history>>

\* The buttons are disabled while a package is being prepared.
Click ==
  /\ Running /\ available /\ ~busy /\ ~prepared
  /\ stager = "idle" /\ inbox = {} /\ stages < MaxStages
  /\ stager' = "clean" /\ stages' = stages + 1
  /\ UNCHANGED <<studio, package, pending, helper, install, history>>

(***************************************************************************)
(* The thread: _stage_portable.                                            *)
(***************************************************************************)
Clean ==
  /\ stager = "clean"
  /\ package' = "partial" /\ stager' = "download"
  /\ UNCHANGED <<studio, pending, stages, helper, install, history>>

\* Bounded in size, hashed, unpacked behind the checks of _safe_extract.
Download ==
  /\ stager = "download"
  /\ package' = "whole" /\ stager' = "describe"
  /\ UNCHANGED <<studio, pending, stages, helper, install, history>>

DownloadFails ==
  /\ stager = "download" /\ "network" \in Faults
  /\ package' = "none" /\ stager' = "idle"
  /\ Post("stagefailed")
  /\ UNCHANGED <<app, busy, available, prepared, checking, pending, stages, helper, install, history>>

Describe ==
  /\ stager = "describe"
  /\ pending' = TRUE /\ stager' = "idle" /\ Post("ready")
  /\ UNCHANGED <<app, busy, available, prepared, checking, package, stages, helper, install, history>>

StageFailed ==
  /\ Running /\ "stagefailed" \in inbox
  /\ inbox' = inbox \ {"stagefailed"} /\ checking' = FALSE
  /\ UNCHANGED <<app, busy, available, prepared, thread, helper, install, history>>

\* The event when the package is ready, or a later click on a prepared one.
Launchable ==
  /\ Running /\ ("ready" \in inbox \/ (prepared /\ available))
  /\ inbox' = inbox \ {"ready"}

Defer ==
  /\ Launchable /\ busy
  /\ prepared' = TRUE /\ available' = TRUE
  /\ UNCHANGED <<app, busy, checking, thread, helper, install, history>>

\* launch_staged checks the descriptor against the package, starts the helper, and
\* the program closes.
Handoff ==
  /\ Launchable /\ ~busy /\ pending /\ package = "whole"
  /\ prepared' = FALSE /\ helper' = TRUE /\ app' = "closed"
  /\ UNCHANGED <<busy, available, checking, thread, install, history>>

LaunchFails ==
  /\ Launchable /\ ~busy /\ ("launch" \in Faults \/ ~pending \/ package # "whole")
  /\ prepared' = FALSE
  /\ UNCHANGED <<app, busy, available, checking, thread, helper, install, history>>

\* The program is closed or killed with its threads; the files stay.
Exit ==
  /\ Running /\ crashes < MaxCrashes
  /\ app' = "closed" /\ busy' = FALSE
  /\ available' = FALSE /\ prepared' = FALSE /\ checking' = FALSE /\ inbox' = {}
  /\ stager' = "idle"
  /\ crashes' = crashes + (IF stager = "idle" THEN 0 ELSE 1)
  /\ UNCHANGED <<package, pending, stages, helper, install, killed>>

(***************************************************************************)
(* The launcher, by the helper or by the user, and the applier.            *)
(***************************************************************************)
Start ==
  /\ app \in {"closed", "refused"} /\ applier = "idle" /\ tree[Launcher] # "gone"
  /\ helper' = FALSE
  /\ IF pending
     THEN /\ applier' = "validate" /\ app' = "closed" /\ dropped' = FALSE
          /\ UNCHANGED <<available, prepared, checking, inbox>>
     ELSE /\ app' = "running"
          /\ available' = FALSE /\ prepared' = FALSE /\ checking' = FALSE /\ inbox' = {}
          /\ UNCHANGED <<applier, dropped>>
  /\ UNCHANGED <<busy, thread, tree, backup, history>>

\* Nothing in the launcher asks whether the program is already running.
StartAgain ==
  /\ Running /\ "second" \in Faults /\ pending /\ applier = "idle" /\ tree[Launcher] # "gone"
  /\ applier' = "validate" /\ dropped' = FALSE
  /\ UNCHANGED <<studio, thread, helper, tree, backup, history>>

Step(from, to) == applier = from /\ applier' = to
Rest == <<busy, available, prepared, checking, inbox, stager, stages, helper, crashes>>

\* Before anything is touched: the source of the descriptor and its manifest.
Validate ==
  /\ package = "whole" /\ Step("validate", "backup")
  /\ backup' = All("gone")
  /\ UNCHANGED <<app, package, pending, tree, dropped, killed, Rest>>

RefuseSource ==
  /\ package # "whole" /\ Step("validate", "idle")
  /\ app' = IF Running THEN app ELSE "refused"
  /\ UNCHANGED <<package, pending, tree, backup, dropped, killed, Rest>>

BackUp ==
  /\ Step("backup", "remove")
  /\ backup' = tree
  /\ UNCHANGED <<app, package, pending, tree, dropped, killed, Rest>>

Remove ==
  /\ applier = "remove"
  /\ \E p \in Parts : tree[p] # "gone" /\ tree' = [tree EXCEPT ![p] = "gone"]
  /\ applier' = IF tree' = All("gone") THEN "copy" ELSE "remove"
  /\ UNCHANGED <<app, package, pending, backup, dropped, killed, Rest>>

Copy ==
  /\ applier = "copy"
  /\ \E p \in Parts : tree[p] = "gone" /\ tree' = [tree EXCEPT ![p] = "new"]
  /\ applier' = IF tree' = All("new") THEN "verify" ELSE "copy"
  /\ UNCHANGED <<app, package, pending, backup, dropped, killed, Rest>>

Verify ==
  /\ Step("verify", "discard") /\ tree = All("new")
  /\ pending' = FALSE /\ dropped' = TRUE
  /\ UNCHANGED <<app, package, tree, backup, killed, Rest>>

Discard ==
  /\ Step("discard", "idle")
  /\ package' = "none" /\ backup' = All("gone")
  /\ app' = "running"
  /\ UNCHANGED <<pending, tree, dropped, killed, Rest>>

\* Any step after the validation may fail: everything is removed and what was
\* backed up is copied back; then the launcher stops.
ApplyFails ==
  /\ "apply" \in Faults /\ applier \in {"remove", "copy", "verify", "discard"}
  /\ applier' = "rollback"
  /\ UNCHANGED <<app, package, pending, tree, backup, dropped, killed, Rest>>

\* A backup that fails leaves the payload untouched.
BackUpFails ==
  /\ "apply" \in Faults /\ Step("backup", "idle")
  /\ app' = IF Running THEN app ELSE "refused"
  /\ UNCHANGED <<package, pending, tree, backup, dropped, killed, Rest>>

RollBack ==
  /\ Step("rollback", "idle")
  /\ \/ tree' = backup
     \/ "rollback" \in Faults /\ \E P \in SUBSET Parts :
          tree' = [p \in Parts |-> IF p \in P THEN backup[p] ELSE "gone"]
  /\ app' = IF Running THEN app ELSE "refused"
  /\ UNCHANGED <<package, pending, backup, dropped, killed, Rest>>

CrashApplier ==
  /\ applier # "idle" /\ crashes < MaxCrashes
  /\ applier' = "idle" /\ crashes' = crashes + 1 /\ killed' = TRUE
  /\ UNCHANGED <<studio, thread, helper, tree, backup, dropped>>

Next ==
  \/ Work \/ Check \/ CheckAnswers \/ HandleCheck \/ Click
  \/ Clean \/ Download \/ DownloadFails \/ Describe \/ StageFailed
  \/ Defer \/ Handoff \/ LaunchFails \/ Exit
  \/ Start \/ StartAgain \/ Validate \/ RefuseSource \/ BackUp \/ Remove \/ Copy \/ Verify \/ Discard
  \/ ApplyFails \/ BackUpFails \/ RollBack \/ CrashApplier

Applying == Validate \/ RefuseSource \/ BackUp \/ Remove \/ Copy \/ Verify \/ Discard \/ RollBack
Spec == Init /\ [][Next]_vars /\ WF_vars(Applying)

(***************************************************************************)
(* Properties.                                                             *)
(***************************************************************************)
TypeOK ==
  /\ app \in {"running", "closed", "refused"}
  /\ {busy, available, prepared, checking, pending, helper, dropped, killed} \subseteq BOOLEAN
  /\ inbox \subseteq {"found", "none", "checkfailed", "ready", "stagefailed"}
  /\ stager \in {"idle", "clean", "download", "describe"}
  /\ package \in {"none", "partial", "whole"}
  /\ applier \in {"idle", "validate", "backup", "remove", "copy", "verify", "discard", "rollback"}
  /\ tree \in Payloads /\ backup \in Payloads
  /\ stages \in 0..MaxStages /\ crashes \in 0..MaxCrashes

\* The program never starts on a payload of two versions ("prevents mixed-version
\* trees", Apply-CinePulseUpdate.ps1:137), whatever fails in the preparation, the
\* application or its clean-up; only a killed applier, or a roll-back that fails
\* itself, can leave one.
StartsWhole ==
  app # "running" /\ app' = "running" /\ ~killed /\ "rollback" \notin Faults => Whole(tree')
OneVersionStarts == [][StartsWhole]_vars

\* At every instant one whole version is on the disk, as the payload or as its
\* backup, until an applier is killed: the next one backs up what that one left.
OneVersionKept == ~killed => Whole(tree) \/ Whole(backup)

\* "failed staging/application keeps the current installation usable"
\* (docs/ONE_CLICK_UPDATER_ACCEPTANCE.md:17): a descriptor never names a package that
\* is not there, for the launcher refuses to start the program then.
StillUsable == pending /\ stager = "idle" /\ ~killed => package = "whole"

\* "Package application is deferred until CinePulse has finished active work"
\* (docs/ONE_CLICK_UPDATER_SECURITY.md:5): the payload only changes while the
\* program is closed.
QuietInstall == [][tree' # tree => app # "running"]_vars

\* An application that has begun ends, in the new version or back in the old one,
\* if it is not killed.
Underway == applier # "idle"
ApplyEnds == Underway ~> ~Underway

(* The inductive invariant (ComponentProofs), while no applier has been killed and a roll-back   *)
(* does not fail: what is being replaced lies whole in the backup, else the payload is whole.    *)
Sane ==
  ~killed => /\ applier \in {"idle", "validate", "backup"} => Whole(tree)
             /\ applier \in {"remove", "copy", "verify", "discard", "rollback"} => Whole(backup)
             /\ applier = "discard" => Whole(tree)
Inv == TypeOK /\ Sane
===============================================================================
