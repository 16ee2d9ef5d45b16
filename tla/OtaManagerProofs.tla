---------------------------- MODULE OtaManagerProofs ----------------------------
(***************************************************************************)
(* Proofs about OtaManager, for every sequence of releases, all periods,   *)
(* timestamp widths and download sizes, and any number of resets.          *)
(*                                                                         *)
(* An image is safe to boot because the manifest compared with the running *)
(* image is still the one being installed (InstallInv), and probation ends *)
(* in time because the window the manager measures, with a zero that means *)
(* both "not running" and a wrapped time, is never longer than the real    *)
(* one while that is too short (WindowInv).                                *)
(***************************************************************************)
EXTENDS OtaManager, TLAPS

\* The manifest an install works on is newer than what runs; what is to be
\* selected has been checked.
InstallInv ==
  /\ pc \in {"install", "connect", "download", "end"} => newer(manifest, running.version)
  /\ pc = "end" => written = Chunks /\ ~damaged

\* The image to fall back on is whole, and older than the one that runs.
FallbackInv ==
  previous # NoImage => previous.intact /\ newer(running.version, previous.version)

\* The measured window restarts with every bad report and does not exceed the
\* real one before that is long enough.
WindowInv ==
  rollbackPending =>
    /\ pc # "verify" /\ ~health => healthySince = 0
    /\ health /\ healthySince # 0 /\ healthyFor < otaHealthyPeriodMs
         => Since(healthySince) <= healthyFor

IInv ==
  /\ TypeOK
  /\ InstallInv
  /\ FallbackInv
  /\ WindowInv
  /\ OnlyWholeImagesBoot
  /\ ProbationIsKnown

-----------------------------------------------------------------------------
\* A timestamp later on is a timestamp.
LEMMA LaterIsTime ==
  ASSUME NEW t \in 0 .. Wrap - 1, NEW d \in 0 .. MaxCycle
  PROVE  (t + d) % Wrap \in 0 .. Wrap - 1
  BY OtaAssumption

\* The time since now is none, and the time since an earlier moment grows with
\* the clock while it stays below Wrap.
LEMMA SinceGrows ==
  ASSUME NEW a \in 0 .. Wrap - 1, NEW t \in 0 .. Wrap - 1, NEW d \in 0 .. MaxCycle
  PROVE  /\ (a + Wrap - t) % Wrap \in Nat
         /\ (a + Wrap - a) % Wrap = 0
         /\ ((a + Wrap - t) % Wrap) + d < Wrap
              => (((a + d) % Wrap) + Wrap - t) % Wrap = ((a + Wrap - t) % Wrap) + d
<1>1. /\ Wrap \in Nat /\ a \in Nat /\ t \in Nat /\ d \in Nat /\ a < Wrap /\ t < Wrap
      /\ d < Wrap
  BY OtaAssumption
<1>2. (a + Wrap - t) % Wrap = IF t <= a THEN a - t ELSE a + Wrap - t
  BY <1>1
<1>3. (a + d) % Wrap = IF a + d < Wrap THEN a + d ELSE a + d - Wrap
  BY <1>1
<1>4. ASSUME NEW b \in 0 .. Wrap - 1
      PROVE  (b + Wrap - t) % Wrap = IF t <= b THEN b - t ELSE b + Wrap - t
  BY <1>1
<1>5. (a + d) % Wrap \in 0 .. Wrap - 1
  BY <1>1, <1>3
<1> QED
  BY <1>1, <1>2, <1>3, <1>4, <1>5

\* Versions are triples of numbers, and there is a first and an offered one.
LEMMA VersionTypes ==
  /\ Versions \subseteq Nat \X Nat \X Nat
  /\ FirstVersion \in Versions
  /\ \A i \in DOMAIN Releases : Releases[i] \in Versions
  BY OtaAssumption DEF Versions, FirstVersion

\* No version is newer than itself.
LEMMA NewerIsStrict ==
  ASSUME NEW v \in Versions
  PROVE  ~newer(v, v)
<1>1. v[1] \in Nat /\ v[2] \in Nat /\ v[3] \in Nat
  BY VersionTypes
<1> QED
  BY <1>1 DEF newer

\* Initially the first release runs, and nothing is under way.
LEMMA InitIInv == Init => IInv
<1> SUFFICES ASSUME Init PROVE IInv
  OBVIOUS
<1>1. TypeOK
  <2>1. /\ 0 \in 0 .. Wrap - 1 /\ 0 \in 0 .. Chunks /\ 0 \in 0 .. MaxResets
        /\ 0 \in 0 .. otaHealthyPeriodMs /\ 1 \in DOMAIN Releases
    BY OtaAssumption
  <2>2. running \in Image
    BY VersionTypes DEF Init, Image
  <2> QED
    BY <2>1, <2>2, VersionTypes DEF Init, TypeOK, OtaState, OtaError
<1> QED
  BY <1>1 DEF Init, IInv, InstallInv, FallbackInv, WindowInv, OnlyWholeImagesBoot, ProbationIsKnown

-----------------------------------------------------------------------------
\* The images in flash after a boot are among those before it.
LEMMA BootTypes ==
  ASSUME TypeOK, Boot
  PROVE  /\ running' \in Image /\ previous' \in Image \cup {NoImage}
         /\ next' \in Image \cup {NoImage} /\ unverified' \in BOOLEAN
  BY DEF TypeOK, Boot, flashVars

\* begin() sets the types of everything it sets.
LEMMA BeginTypes ==
  ASSUME TypeOK, begin, latest' \in DOMAIN Releases, resets' \in 0 .. MaxResets
  PROVE  TypeOK'
<1>1. 0 \in 0 .. Wrap - 1 /\ 0 \in 0 .. Chunks /\ 0 \in 0 .. otaHealthyPeriodMs
  BY OtaAssumption
<1>2. /\ running' \in Image /\ previous' \in Image \cup {NoImage}
      /\ next' \in Image \cup {NoImage} /\ unverified' \in BOOLEAN
  BY BootTypes DEF begin
<1> QED
  BY <1>1, <1>2, VersionTypes DEF begin, TypeOK, OtaState, OtaError

\* Every step keeps the types.
LEMMA StepTypes == TypeOK /\ [Next]_vars => TypeOK'
<1> SUFFICES ASSUME TypeOK, [Next]_vars PROVE TypeOK'
  OBVIOUS
<1> USE DEF vars, managerVars, healthVars, downloadVars, flashVars, envVars
<1>1. CASE reportHealth
  <2>1. PICK d \in 1 .. MaxCycle :
          /\ now' = Later(d)
          /\ health' \in BOOLEAN
          /\ healthyFor' = IF ~(health /\ health') THEN 0
                           ELSE IF healthyFor + d <= otaHealthyPeriodMs THEN healthyFor + d
                           ELSE otaHealthyPeriodMs
    BY <1>1 DEF reportHealth
  <2>2. now' \in 0 .. Wrap - 1
    BY <2>1, LaterIsTime, OtaAssumption DEF TypeOK, Later
  <2>3. healthyFor' \in 0 .. otaHealthyPeriodMs
    BY <2>1, OtaAssumption DEF TypeOK
  <2> QED
    BY <1>1, <2>1, <2>2, <2>3 DEF reportHealth, TypeOK
<1>2. CASE Verify
  <2>1. 0 \in 0 .. Wrap - 1
    BY OtaAssumption
  <2>2. HealthySince \in 0 .. Wrap - 1
    BY <2>1 DEF HealthySince, TypeOK
  <2>3. /\ state' \in OtaState /\ error' \in OtaError
        /\ rollbackPending' \in BOOLEAN /\ unverified' \in BOOLEAN
    BY <1>2 DEF Verify, Confirm, fail, TypeOK, OtaState, OtaError
  <2> QED
    BY <1>2, <2>2, <2>3 DEF Verify, TypeOK
<1>3. CASE Check
  BY <1>3 DEF Check, TypeOK, OtaState, OtaError
<1>4. CASE fetchManifest
  BY <1>4, VersionTypes DEF fetchManifest, fail, offered, TypeOK, OtaState, OtaError
<1>5. CASE Request
  BY <1>5 DEF Request, TypeOK, OtaState, OtaError
<1>6. CASE Connect
  <2>1. 0 \in 0 .. Chunks
    BY OtaAssumption
  <2> QED
    BY ZenonT(40), <1>6, <2>1 DEF Connect, fail, TypeOK, OtaState, OtaError
<1>7. CASE Receive
  <2>1. written' \in 0 .. Chunks
    BY <1>7, OtaAssumption DEF Receive, TypeOK
  <2>2. damaged' \in BOOLEAN
    BY <1>7 DEF Receive, TypeOK
  <2> QED
    BY <1>7, <2>1, <2>2 DEF Receive, TypeOK
<1>8. CASE Validate
  BY <1>8 DEF Validate, fail, TypeOK, OtaState, OtaError
<1>9. CASE Install
  <2>1. next' = next \/ \E b \in BOOLEAN : next' = [version |-> manifest, intact |-> b]
    BY <1>9, Zenon DEF Install
  <2>2. next' \in Image \cup {NoImage}
    BY <2>1 DEF Image, TypeOK
  <2> QED
    BY <1>9, <2>2 DEF Install, fail, TypeOK, OtaState, OtaError
<1>10. CASE publishOtaStatus
  BY <1>10 DEF publishOtaStatus, TypeOK
<1>11. CASE Restart
  BY <1>11, BeginTypes DEF Restart, TypeOK
<1>12. CASE Reset
  <2>1. resets' \in 0 .. MaxResets
    BY <1>12, OtaAssumption DEF Reset, TypeOK
  <2> QED
    BY <1>12, <2>1, BeginTypes DEF Reset, TypeOK
<1>13. CASE Release
  <2>1. latest' \in DOMAIN Releases
    BY <1>13, OtaAssumption DEF Release, TypeOK
  <2> QED
    BY <1>13, <2>1 DEF Release, TypeOK
<1>14. CASE UNCHANGED vars
  BY <1>14 DEF TypeOK
<1> QED
  BY <1>1, <1>2, <1>3, <1>4, <1>5, <1>6, <1>7, <1>8, <1>9, <1>10, <1>11, <1>12, <1>13, <1>14
     DEF Next, NetworkTask

-----------------------------------------------------------------------------
\* A boot runs a whole image, whichever of the three it takes.
LEMMA BootImages ==
  ASSUME IInv, begin
  PROVE  InstallInv' /\ FallbackInv' /\ OnlyWholeImagesBoot'
<1> USE DEF IInv, begin
<1>1. InstallInv'
  BY DEF InstallInv
<1>2. CASE next # NoImage
  <2>1. /\ running' = next /\ previous' = running /\ next' = NoImage
        /\ next.intact /\ running.intact /\ newer(next.version, running.version)
    BY <1>2 DEF Boot, OnlyWholeImagesBoot
  <2>2. newer(running.version, previous.version)'
    BY <2>1
  <2> QED
    BY <1>1, <2>1, <2>2 DEF FallbackInv, OnlyWholeImagesBoot
<1>3. CASE next = NoImage /\ running' = previous /\ previous' = NoImage /\ next' = NoImage
                          /\ previous # NoImage
  BY <1>1, <1>3 DEF FallbackInv, OnlyWholeImagesBoot
<1>4. CASE next = NoImage /\ UNCHANGED flashVars
  BY <1>1, <1>4 DEF flashVars, FallbackInv, OnlyWholeImagesBoot
<1> QED
  BY <1>1, <1>2, <1>3, <1>4 DEF Boot

\* Every step keeps the images in flash whole and in order.
LEMMA StepImages ==
  ASSUME IInv, [Next]_vars
  PROVE  InstallInv' /\ FallbackInv' /\ OnlyWholeImagesBoot'
<1> USE DEF IInv, vars, managerVars, healthVars, downloadVars, flashVars, envVars
<1>1. CASE reportHealth \/ Verify \/ Check \/ publishOtaStatus \/ Release \/ UNCHANGED vars
  <2>1. UNCHANGED <<manifest, written, damaged, running, previous, next>>
    BY <1>1 DEF reportHealth, Verify, Check, publishOtaStatus, Release
  <2>2. pc' = pc \/ pc' \in {"verify", "check", "fetch", "status", "restart", "report"}
    BY <1>1 DEF reportHealth, Verify, Check, publishOtaStatus, Release
  <2> QED
    BY <2>1, <2>2 DEF InstallInv, FallbackInv, OnlyWholeImagesBoot
<1>2. CASE fetchManifest
  BY <1>2 DEF fetchManifest, InstallInv, FallbackInv, OnlyWholeImagesBoot
<1>3. CASE Request
  BY <1>3 DEF Request, InstallInv, FallbackInv, OnlyWholeImagesBoot
<1>4. CASE Connect
  BY <1>4 DEF Connect, InstallInv, FallbackInv, OnlyWholeImagesBoot
<1>5. CASE Receive
  BY <1>5 DEF Receive, InstallInv, FallbackInv, OnlyWholeImagesBoot
<1>6. CASE Validate
  BY <1>6 DEF Validate, InstallInv, FallbackInv, OnlyWholeImagesBoot
<1>7. CASE Install
  <2>1. /\ newer(manifest, running.version) /\ written = Chunks /\ ~damaged
        /\ pc' = "status" /\ UNCHANGED <<running, previous>>
    BY <1>7 DEF Install, InstallInv
  <2>2. next' = next \/ next' = [version |-> manifest, intact |-> TRUE]
    BY <1>7, <2>1 DEF Install
  <2>3. next' # NoImage => next'.intact /\ newer(next.version, running.version)'
    BY <2>1, <2>2 DEF OnlyWholeImagesBoot
  <2> QED
    BY <2>1, <2>3 DEF InstallInv, FallbackInv, OnlyWholeImagesBoot
<1>8. CASE Restart \/ Reset
  BY <1>8, BootImages DEF Restart, Reset
<1> QED
  BY <1>1, <1>2, <1>3, <1>4, <1>5, <1>6, <1>7, <1>8 DEF Next, NetworkTask

-----------------------------------------------------------------------------
\* A cycle adds to the measured window what it adds to the real one.
LEMMA ReportWindow == IInv /\ reportHealth => WindowInv'
<1> SUFFICES ASSUME IInv, reportHealth, rollbackPending PROVE WindowInv'
  BY DEF reportHealth, WindowInv
<1> USE DEF IInv, WindowInv
<1>1. PICK d \in 1 .. MaxCycle :
        /\ now' = Later(d)
        /\ health' \in BOOLEAN
        /\ healthyFor' = IF ~(health /\ health') THEN 0
                         ELSE IF healthyFor + d <= otaHealthyPeriodMs THEN healthyFor + d
                         ELSE otaHealthyPeriodMs
  BY DEF reportHealth
<1>2. pc = "report" /\ pc' = "verify" /\ UNCHANGED <<rollbackPending, healthySince>>
  BY DEF reportHealth
<1>3. ASSUME health', healthySince # 0, healthyFor' < otaHealthyPeriodMs
      PROVE  Since(healthySince)' <= healthyFor'
  <2>1. health /\ healthyFor' = healthyFor + d /\ healthyFor < otaHealthyPeriodMs
    BY <1>1, <1>2, <1>3, OtaAssumption DEF TypeOK
  <2>2. Since(healthySince) <= healthyFor
    BY <1>3, <2>1
  <2>3. /\ now \in 0 .. Wrap - 1 /\ healthySince \in 0 .. Wrap - 1 /\ healthyFor \in Nat
        /\ Since(healthySince) \in Nat
    BY SinceGrows, OtaAssumption DEF TypeOK, Since
  <2>4. Since(healthySince) + d < Wrap
    BY <1>3, <2>1, <2>2, <2>3, OtaAssumption
  <2>5. Since(healthySince)' = Since(healthySince) + d
    BY <1>1, <1>2, <2>3, <2>4, SinceGrows DEF Since, Later
  <2> QED
    BY <2>1, <2>2, <2>3, <2>5
<1> QED
  BY <1>2, <1>3

\* A bad report ends the window, the first good one starts it.
LEMMA VerifyWindow == IInv /\ Verify => WindowInv'
<1> SUFFICES ASSUME IInv, Verify, rollbackPending PROVE WindowInv'
  BY DEF Verify, WindowInv
<1> USE DEF IInv, WindowInv
<1>1. /\ healthySince' = HealthySince
      /\ UNCHANGED <<now, health, healthyFor>>
  BY DEF Verify
<1>2. ~health => healthySince' = 0
  BY <1>1 DEF HealthySince
<1>3. health => (healthySince' = healthySince /\ healthySince # 0) \/ healthySince' = now
  BY <1>1 DEF HealthySince
<1>4. Since(now) = 0 /\ healthyFor \in Nat
  BY SinceGrows, OtaAssumption DEF TypeOK, Since
<1> QED
  BY <1>1, <1>2, <1>3, <1>4 DEF Since

\* Confirm is reached after a good period in real time only.
LEMMA ConfirmIsDue ==
  ASSUME IInv, Verify, rollbackPending, ~rollbackPending'
  PROVE  healthyFor >= otaHealthyPeriodMs
<1>1. health /\ Since(HealthySince) >= otaHealthyPeriodMs
  BY DEF Verify
<1>2. /\ Since(now) = 0 /\ healthyFor \in Nat
      /\ now \in 0 .. Wrap - 1 /\ healthySince \in 0 .. Wrap - 1
      /\ Since(healthySince) \in Nat
  BY SinceGrows, OtaAssumption DEF IInv, TypeOK, Since
<1>3. HealthySince = healthySince /\ healthySince # 0
  BY <1>1, <1>2, OtaAssumption DEF HealthySince
<1> QED
  BY <1>1, <1>2, <1>3, OtaAssumption DEF IInv, WindowInv

\* Every step keeps the window, and what the manager knows of the probation.
LEMMA StepProbation ==
  ASSUME IInv, [Next]_vars
  PROVE  WindowInv' /\ ProbationIsKnown'
<1> USE DEF IInv, vars, managerVars, healthVars, downloadVars, flashVars, envVars
<1>1. CASE reportHealth
  BY <1>1, ReportWindow DEF reportHealth, ProbationIsKnown
<1>2. CASE Verify
  BY <1>2, VerifyWindow DEF Verify, Confirm, ProbationIsKnown
<1>3. CASE Restart \/ Reset
  <2>1. ~(rollbackPending' /\ healthySince' # 0) /\ pc' = "report" /\ healthySince' = 0
    BY <1>3 DEF Restart, Reset, begin
  <2>2. rollbackPending' = (stateRead' /\ unverified')
    BY <1>3 DEF Restart, Reset, begin
  <2> QED
    BY <2>1, <2>2 DEF WindowInv, ProbationIsKnown
<1>4. CASE \/ Check \/ fetchManifest \/ Request \/ Connect \/ Receive \/ Validate \/ Install
           \/ publishOtaStatus \/ Release \/ UNCHANGED vars
  <2>1. /\ UNCHANGED <<now, rollbackPending, stateRead, unverified, health, healthySince, healthyFor>>
        /\ pc' = "verify" => pc = "verify"
    BY <1>4 DEF Check, fetchManifest, Request, Connect, Receive, Validate, Install,
       publishOtaStatus, Release
  <2>2. pc = "verify" => pc' = "verify"
    BY <1>4 DEF Check, fetchManifest, Request, Connect, Receive, Validate, Install,
       publishOtaStatus, Release
  <2> QED
    BY <2>1, <2>2 DEF WindowInv, ProbationIsKnown, Since
<1> QED
  BY <1>1, <1>2, <1>3, <1>4 DEF Next, NetworkTask

-----------------------------------------------------------------------------
\* The invariant holds in every state, wherever a reset falls.
LEMMA Invariance == Spec => []IInv
<1>1. IInv /\ [Next]_vars => IInv'
  BY StepTypes, StepImages, StepProbation DEF IInv
<1> QED
  BY <1>1, InitIInv, PTL DEF Spec

\* Every variable of the manager, the flash and the history keeps its type.
THEOREM TypeCorrect == Spec => []TypeOK
<1>1. IInv => TypeOK
  BY DEF IInv
<1> QED
  BY <1>1, Invariance, PTL

\* Only whole images are selected or run, and an update never goes back, wherever
\* a download is cut off, damaged or interrupted by a reset.
THEOREM WholeImages == Spec => []OnlyWholeImagesBoot
<1>1. IInv => OnlyWholeImagesBoot
  BY DEF IInv
<1> QED
  BY <1>1, Invariance, PTL

\* The manager waits for verification only while the bootloader does, and always
\* then if it could read the state of its image at the start.
THEOREM ProbationKnown == Spec => []ProbationIsKnown
<1>1. IInv => ProbationIsKnown
  BY DEF IInv
<1> QED
  BY <1>1, Invariance, PTL

\* An image is confirmed only after a healthy period in real time, for every
\* timestamp width that leaves room for one cycle beyond the period.
THEOREM Confirmed == Spec => ConfirmedWhenHealthy
<1>1. ASSUME IInv, [Next]_vars, unverified, ~unverified', UNCHANGED running
      PROVE  healthyFor >= otaHealthyPeriodMs
  <2> USE <1>1 DEF IInv, vars, managerVars, healthVars, downloadVars, flashVars, envVars
  <2>1. CASE Verify
    <3>1. rollbackPending /\ ~rollbackPending'
      BY <2>1 DEF Verify, Confirm
    <3> QED
      BY <2>1, <3>1, ConfirmIsDue
  <2>2. CASE begin
    <3>1. next = NoImage /\ previous # NoImage /\ running' = previous
      BY <2>2 DEF begin, Boot
    <3>2. running.version \in Versions /\ newer(running.version, running.version)
      BY <3>1 DEF FallbackInv, TypeOK, Image
    <3> QED
      BY <3>2, NewerIsStrict
  <2>3. CASE ~Verify /\ ~begin
    <3>1. unverified' = unverified
      BY <2>3 DEF Next, NetworkTask, reportHealth, Check, fetchManifest, Request, Connect,
         Receive, Validate, Install, publishOtaStatus, Restart, Reset, Release
    <3> QED
      BY <3>1
  <2> QED
    BY <2>1, <2>2, <2>3
<1>2. IInv /\ [Next]_vars =>
        [unverified /\ ~unverified' /\ UNCHANGED running => healthyFor >= otaHealthyPeriodMs]_vars
  BY <1>1
<1> QED
  BY <1>2, Invariance, PTL DEF Spec, ConfirmedWhenHealthy
=============================================================================
