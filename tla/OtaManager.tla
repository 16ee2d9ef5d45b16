------------------------------- MODULE OtaManager -------------------------------
(***************************************************************************)
(* OtaManager as NetworkTask drives it: every cycle reports the health and *)
(* calls process(), which confirms an image that waits for verification,   *)
(* checks for an update and installs it.  process() blocks in its network  *)
(* and flash operations, so it takes several steps here, and a reset may   *)
(* come between any two of them.                                           *)
(*                                                                         *)
(* Flash, bootloader, server and resets are the environment.  The flash    *)
(* holds the running image, the one that ran before and, after an install, *)
(* the one to boot next.  An image is its version and whether its bytes    *)
(* are those of the manifest's hash.  The counters and what only they are  *)
(* for are left out; a manifest URL is configured.                         *)
(***************************************************************************)
EXTENDS Naturals, Sequences

CONSTANTS
  Releases,                           \* versions (major, minor, patch) as they come out
  otaCheckPeriodMs, otaHealthyPeriodMs,
  Wrap, MaxCycle,                     \* width of a timestamp, longest cycle
  Chunks,                             \* parts a download comes in
  MaxResets                           \* bound on the resets that are not asked for

ASSUME OtaAssumption ==
  /\ Releases \in Seq(Nat \X Nat \X Nat) /\ Releases # <<>>
  /\ Wrap \in Nat /\ MaxCycle \in Nat \ {0} /\ Chunks \in Nat \ {0} /\ MaxResets \in Nat
  /\ otaCheckPeriodMs \in 1 .. Wrap - MaxCycle
  /\ otaHealthyPeriodMs \in 1 .. Wrap - MaxCycle

VARIABLES
  now, pc,                            \* NetworkTask
  state, error, lastAttempt, manifest,
  rollbackPending, health, healthySince,
  stateRead,                          \* history: begin() could read the state of its image
  written, damaged,                   \* the download: parts written, any of them wrong
  published,                          \* the state and error last handed to MQTT as OTA status
  running, previous, next,            \* images in flash, or NoImage
  unverified,                         \* running awaits verification
  latest, resets,                     \* last release out; resets so far
  healthyFor                          \* history: how long the reported health is good

managerVars == <<state, error, lastAttempt, manifest>>
healthVars == <<rollbackPending, stateRead, health, healthySince, healthyFor>>
downloadVars == <<written, damaged>>
flashVars == <<running, previous, next, unverified>>
envVars == <<latest, resets>>
vars == <<now, pc, managerVars, healthVars, downloadVars, published, flashVars, envVars>>

OtaState == {"IDLE", "CHECKING", "UPDATE_AVAILABLE", "DOWNLOADING", "VALIDATING",
             "INSTALLING", "SUCCESS", "FAILED"}
OtaError == {"NONE", "NETWORK_UNAVAILABLE", "MANIFEST_ERROR", "VERSION_INVALID",
             "DOWNLOAD_FAILED", "HASH_MISMATCH", "INSTALL_FAILED", "ROLLBACK_ERROR"}

Versions == {Releases[i] : i \in DOMAIN Releases}
FirstVersion == Releases[1]
offered == Releases[latest]               \* by the manifest

Image == [version : Versions, intact : BOOLEAN]
NoImage == [version |-> <<0, 0, 0>>, intact |-> FALSE]

\* The order of versions.  Mutated form: the parts are compared in the wrong order.
newerByPatch(left, right) ==
  \/ left[3] > right[3]
  \/ left[3] = right[3] /\ left[2] > right[2]
  \/ left[3] = right[3] /\ left[2] = right[2] /\ left[1] > right[1]
newer(left, right) ==
  \/ left[1] > right[1]
  \/ left[1] = right[1] /\ left[2] > right[2]
  \/ left[1] = right[1] /\ left[2] = right[2] /\ left[3] > right[3]

\* millis() later on, and the time since.
Later(d) == (now + d) % Wrap
Since(t) == (now + Wrap - t) % Wrap

Init ==
  /\ now = 0 /\ pc = "report"
  /\ state = "IDLE" /\ error = "NONE" /\ lastAttempt = 0 /\ manifest = FirstVersion
  /\ rollbackPending = FALSE /\ stateRead = TRUE
  /\ health = FALSE /\ healthySince = 0 /\ healthyFor = 0
  /\ written = 0 /\ damaged = FALSE
  /\ published = <<"IDLE", "NONE">>
  /\ running = [version |-> FirstVersion, intact |-> TRUE]
  /\ previous = NoImage /\ next = NoImage /\ unverified = FALSE
  /\ latest = 1 /\ resets = 0

fail(e) == state' = "FAILED" /\ error' = e

-----------------------------------------------------------------------------
\* A cycle begins: time has passed, and the health is reported, or the last
\* report stays because the snapshot could not be copied.
reportHealth ==
  /\ pc = "report" /\ pc' = "verify"
  /\ \E d \in 1 .. MaxCycle :
       /\ now' = Later(d)
       /\ health' \in BOOLEAN
       /\ healthyFor' = IF ~(health /\ health') THEN 0
                        ELSE IF healthyFor + d <= otaHealthyPeriodMs THEN healthyFor + d
                        ELSE otaHealthyPeriodMs
  /\ UNCHANGED <<managerVars, rollbackPending, stateRead, healthySince, downloadVars, published,
                 flashVars, envVars>>

\* Mutated form of HealthySince: bad health does not restart the window.
HealthySinceKept == IF health /\ healthySince = 0 THEN now ELSE healthySince
HealthySince ==
  IF ~health THEN 0 ELSE IF healthySince = 0 THEN now ELSE healthySince

\* esp_ota_mark_app_valid_cancel_rollback() may fail.  Mutated form: its result is
\* not looked at.
ConfirmUnchecked ==
  /\ rollbackPending' = FALSE
  /\ \/ unverified' = FALSE /\ UNCHANGED <<state, error>>
     \/ fail("ROLLBACK_ERROR") /\ UNCHANGED unverified
Confirm ==
  \/ rollbackPending' = FALSE /\ unverified' = FALSE /\ UNCHANGED <<state, error>>
  \/ fail("ROLLBACK_ERROR") /\ UNCHANGED <<rollbackPending, unverified>>

\* process(), first part: an image that waits for verification is confirmed after
\* a healthy period.
Verify ==
  /\ pc = "verify" /\ pc' = "check"
  /\ IF rollbackPending
       THEN /\ healthySince' = HealthySince
            /\ IF health /\ Since(HealthySince) >= otaHealthyPeriodMs
                 THEN Confirm
                 ELSE UNCHANGED <<rollbackPending, unverified, state, error>>
       ELSE UNCHANGED <<healthySince, rollbackPending, unverified, state, error>>
  /\ UNCHANGED <<now, lastAttempt, manifest, stateRead, health, healthyFor, downloadVars,
                 published, running, previous, next, envVars>>

-----------------------------------------------------------------------------
\* process(), second part: is a check due?
Check ==
  /\ pc = "check"
  /\ IF state = "IDLE" /\ Since(lastAttempt) >= otaCheckPeriodMs
       THEN pc' = "fetch" /\ state' = "CHECKING" /\ error' = "NONE" /\ lastAttempt' = now
       ELSE pc' = "status" /\ UNCHANGED <<state, error, lastAttempt>>
  /\ UNCHANGED <<now, manifest, healthVars, downloadVars, published, flashVars, envVars>>

fetchManifest ==
  /\ pc = "fetch"
  /\ \/ /\ \E e \in {"NETWORK_UNAVAILABLE", "DOWNLOAD_FAILED", "MANIFEST_ERROR",
                     "VERSION_INVALID"} : fail(e)
        /\ pc' = "status"
        /\ UNCHANGED manifest
     \/ /\ manifest' = offered
        /\ IF newer(offered, running.version)
             THEN state' = "UPDATE_AVAILABLE" /\ pc' = "install"
             ELSE state' = "IDLE" /\ pc' = "status"
        /\ UNCHANGED error
  /\ UNCHANGED <<now, lastAttempt, healthVars, downloadVars, published, flashVars, envVars>>

-----------------------------------------------------------------------------
\* installFirmware(): request the image, ...
Request ==
  /\ pc = "install"
  /\ state' = "DOWNLOADING" /\ pc' = "connect"
  /\ UNCHANGED <<now, error, lastAttempt, manifest, healthVars, downloadVars, published, flashVars,
                 envVars>>

\* ... begin the update, which gives up the partition of the previous image, ...
Connect ==
  /\ pc = "connect"
  /\ \/ /\ fail("NETWORK_UNAVAILABLE") \/ fail("DOWNLOAD_FAILED")
        /\ pc' = "status"
        /\ UNCHANGED <<downloadVars, previous>>
     \/ /\ state' = "VALIDATING" /\ pc' = "download"
        /\ previous' = NoImage
        /\ written' = 0 /\ damaged' = FALSE
        /\ UNCHANGED error
  /\ UNCHANGED <<now, lastAttempt, manifest, healthVars, published, running, next, unverified,
                 envVars>>

\* ... write it part by part, ...  Mutated form: more is written than was announced.
ReceiveUnbounded ==
  /\ pc = "download"
  /\ written' = written + 1
  /\ damaged' \in {damaged, TRUE}
  /\ UNCHANGED <<now, pc, managerVars, healthVars, published, flashVars, envVars>>
Receive ==
  /\ pc = "download"
  /\ written < Chunks /\ written' = written + 1
  /\ damaged' \in {damaged, TRUE}
  /\ UNCHANGED <<now, pc, managerVars, healthVars, published, flashVars, envVars>>

\* ... and check it, when all is there or the connection or a write has failed.
\* Mutated form: an image that is complete is not compared with the hash.
ValidateSize ==
  /\ pc = "download"
  /\ \/ written < Chunks /\ fail("DOWNLOAD_FAILED") /\ pc' = "status"
     \/ written = Chunks /\ state' = "INSTALLING" /\ pc' = "end" /\ UNCHANGED error
  /\ UNCHANGED <<now, lastAttempt, manifest, healthVars, downloadVars, published, flashVars, envVars>>
Validate ==
  /\ pc = "download"
  /\ \/ written < Chunks /\ fail("DOWNLOAD_FAILED") /\ pc' = "status"
     \/ written = Chunks /\ damaged /\ fail("HASH_MISMATCH") /\ pc' = "status"
     \/ written = Chunks /\ ~damaged /\ state' = "INSTALLING" /\ pc' = "end" /\ UNCHANGED error
  /\ UNCHANGED <<now, lastAttempt, manifest, healthVars, downloadVars, published, flashVars, envVars>>

\* The image becomes the one to boot next.
Install ==
  /\ pc = "end" /\ pc' = "status"
  /\ \/ fail("INSTALL_FAILED") /\ UNCHANGED next
     \/ /\ state' = "SUCCESS" /\ UNCHANGED error
        /\ next' = [version |-> manifest, intact |-> written = Chunks /\ ~damaged]
  /\ UNCHANGED <<now, lastAttempt, manifest, healthVars, downloadVars, published, running, previous,
                 unverified, envVars>>

-----------------------------------------------------------------------------
\* After process() a change of state is published.
publishOtaStatus ==
  /\ pc = "status"
  /\ published' = <<state, error>>
  /\ pc' = IF state = "SUCCESS" THEN "restart" ELSE "report"
  /\ UNCHANGED <<now, managerVars, healthVars, downloadVars, flashVars, envVars>>

\* The bootloader: a new image is booted on probation, one that is still on
\* probation at the next boot gives way to the previous image, if there is one.
Boot ==
  \/ /\ next # NoImage
     /\ running' = next /\ previous' = running
     /\ next' = NoImage /\ unverified' = TRUE
  \/ /\ next = NoImage /\ unverified /\ previous # NoImage
     /\ running' = previous /\ previous' = NoImage
     /\ next' = NoImage /\ unverified' = FALSE
  \/ /\ next = NoImage /\ ~(unverified /\ previous # NoImage)
     /\ UNCHANGED flashVars

\* begin(), after any reset.  When the running partition or its state cannot be
\* read, the manager takes its image for a valid one.
begin ==
  /\ Boot
  /\ now' = 0 /\ pc' = "report"
  /\ state' = "IDLE" /\ error' = "NONE" /\ lastAttempt' = 0 /\ manifest' = FirstVersion
  /\ stateRead' \in BOOLEAN
  /\ rollbackPending' = (stateRead' /\ unverified')
  /\ health' = FALSE /\ healthySince' = 0 /\ healthyFor' = 0
  /\ written' = 0 /\ damaged' = FALSE
  /\ published' = <<"IDLE", "NONE">>

Restart == pc = "restart" /\ begin /\ UNCHANGED envVars

Reset == resets < MaxResets /\ resets' = resets + 1 /\ begin /\ UNCHANGED latest

Release ==
  /\ latest' \in latest + 1 .. Len(Releases)
  /\ UNCHANGED <<now, pc, managerVars, healthVars, downloadVars, published, flashVars, resets>>

NetworkTask ==
  \/ reportHealth \/ Verify \/ Check \/ fetchManifest
  \/ Request \/ Connect \/ Receive \/ Validate \/ Install
  \/ publishOtaStatus \/ Restart

Next == NetworkTask \/ Reset \/ Release

\* NetworkTask runs, and no server keeps a connection open for ever without data.
Spec == Init /\ [][Next]_vars /\ WF_vars(NetworkTask)

-----------------------------------------------------------------------------
TypeOK ==
  /\ now \in 0 .. Wrap - 1 /\ lastAttempt \in 0 .. Wrap - 1 /\ healthySince \in 0 .. Wrap - 1
  /\ pc \in {"report", "verify", "check", "fetch", "install", "connect", "download", "end",
             "status", "restart"}
  /\ state \in OtaState /\ error \in OtaError /\ published \in OtaState \X OtaError
  /\ manifest \in Versions /\ latest \in DOMAIN Releases /\ resets \in 0 .. MaxResets
  /\ rollbackPending \in BOOLEAN /\ stateRead \in BOOLEAN /\ health \in BOOLEAN
  /\ healthyFor \in 0 .. otaHealthyPeriodMs
  /\ written \in 0 .. Chunks /\ damaged \in BOOLEAN
  /\ running \in Image /\ previous \in Image \cup {NoImage} /\ next \in Image \cup {NoImage}
  /\ unverified \in BOOLEAN

\* Only an image whose bytes are those of the manifest is ever selected or
\* running, and it is selected to replace an older one, although a download may
\* break off, be damaged or be cut short by a reset at any point.
OnlyWholeImagesBoot ==
  /\ running.intact
  /\ next # NoImage => next.intact /\ newer(next.version, running.version)

\* docs/ota-update.md: an image is confirmed only after it is healthy.  An image
\* leaves probation only when all reports of a healthy period in real time were
\* good, whatever wraps or was missed meanwhile.
ConfirmedWhenHealthy ==
  [][unverified /\ ~unverified' /\ UNCHANGED running => healthyFor >= otaHealthyPeriodMs]_vars

\* The manager waits for no window that does not matter, and, if begin() could read
\* the state of its image, misses none that does, although marking the image valid
\* may fail.  (If begin() could not read it, an image on probation is never
\* confirmed, and the next reset gives it up however healthy it was.)
ProbationIsKnown ==
  /\ rollbackPending => unverified
  /\ stateRead /\ unverified => rollbackPending

\* An update arrives: unless an attempt fails, the version that is offered in the
\* end is the one that runs in the end, resets and rollbacks on the way included.
UpdateArrives == <>[](state # "FAILED") => <>[](running.version = offered)

-----------------------------------------------------------------------------
\* docs/ota-update.md: "The manager reports explicit states such as `CHECKING`,
\* `DOWNLOADING`, `VALIDATING`, `INSTALLING`, `SUCCESS`, and `FAILED`."  A download
\* comes to be reported as one.
DownloadIsReported == (state = "DOWNLOADING") ~> (published[1] = "DOWNLOADING")
=============================================================================
