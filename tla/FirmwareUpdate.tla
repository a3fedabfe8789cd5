----------------------------- MODULE FirmwareUpdate -----------------------------
(***************************************************************************)
(* The update of a display node over the air.  An operator publishes images    *)
(* and, after them, the manifest that names the latest; Core offers it to a    *)
(* node that runs an older one; the node loads it into the slot it does not    *)
(* run from, compares it with what it was offered, selects it and restarts.    *)
(* Power may fail at any moment.                                              *)
(***************************************************************************)
EXTENDS Naturals

CONSTANTS
  Versions,      \* versions, in ascending order
  Builds,        \* different images that may carry the same version
  MaxPublished,  \* publications
  MaxFailures    \* power cuts and broken connections

None == "none"
Image(v, b) == [version |-> v, build |-> b]
Images == [version: Versions, build: Builds]
Factory == Image(CHOOSE v \in Versions : \A w \in Versions : v <= w, CHOOSE b \in Builds : TRUE)
Partial == [version |-> 0, build |-> None]
Slots == {0, 1}
Other(s) == 1 - s

\* There is a first version to be made with, and no build is called none.
ConstantsFit ==
  /\ \E v \in Versions : \A w \in Versions : v <= w
  /\ Builds # {} /\ None \notin Builds
  /\ MaxPublished \in Nat /\ MaxFailures \in Nat

VARIABLES
  files,      \* version -> the image in the release directory, or Partial for none
  latest,     \* latest.json: the image it describes, or Partial for none
  uploading,  \* the image whose manifest is yet to be put in place
  slots,      \* slot -> image
  state,      \* slot -> valid, new, verify, aborted
  boot,       \* the slot the boot loader is to start
  running,    \* the slot that runs
  node,       \* idle, offered (the manifest), loading (what Core sends), loaded
  offer,      \* the image of the manifest the node goes by
  loading,    \* the image it is being sent
  published, failures

vars == <<files, latest, uploading, slots, state, boot, running, node, offer, loading,
          published, failures>>

TypeOK ==
  /\ files \in [Versions -> Images \cup {Partial}]
  /\ {latest, uploading, offer, loading} \subseteq Images \cup {Partial}
  /\ slots \in [Slots -> Images \cup {Partial}]
  /\ state \in [Slots -> {"valid", "new", "verify", "aborted"}]
  /\ boot \in Slots /\ running \in Slots /\ node \in {"idle", "offered", "loading", "loaded"}
  /\ published \in 0..MaxPublished /\ failures \in 0..MaxFailures

Init ==
  /\ files = [v \in Versions |-> Partial] /\ latest = Partial /\ uploading = Partial
  /\ slots = [s \in Slots |-> IF s = 0 THEN Factory ELSE Partial]
  /\ state = [s \in Slots |-> IF s = 0 THEN "valid" ELSE "aborted"]
  /\ boot = 0 /\ running = 0 /\ node = "idle" /\ offer = Partial /\ loading = Partial
  /\ published = 0 /\ failures = 0

server == <<files, latest, uploading, published>>
device == <<slots, state, boot, running, node, offer, loading>>

-----------------------------------------------------------------------------
(* pilot-firmware-publish                                                  *)

\* A published image is never replaced by another of its name.
PublishImage(i) ==
  /\ published < MaxPublished /\ uploading = Partial /\ files[i.version] \in {Partial, i}
  /\ files' = [files EXCEPT ![i.version] = i] /\ uploading' = i /\ published' = published + 1
  /\ UNCHANGED <<latest, failures, device>>

\* The manifest follows; an older version may be published again.
PublishManifest ==
  /\ uploading # Partial /\ latest' = uploading /\ uploading' = Partial
  /\ UNCHANGED <<files, published, failures, device>>

\* The script is stopped in between.
PublishBreaksOff ==
  /\ uploading # Partial /\ failures < MaxFailures /\ failures' = failures + 1
  /\ uploading' = Partial /\ UNCHANGED <<files, latest, published, device>>

-----------------------------------------------------------------------------
(* Core                                                                    *)

\* FirmwareReleases.latest: no release without the image the manifest describes.
Released == latest # Partial /\ files[latest.version] = latest

\* is_newer_version and, once more on the node, version_is_newer.
Newer(candidate, current) == candidate > current

\* What the node is told of the latest release.
UpdateAvailable(current) == Released /\ Newer(latest.version, current)

\* The image it is sent, which may be a later one than it was told of.
Served == files[latest.version]

-----------------------------------------------------------------------------
(* The node                                                                *)

\* Mutant: it looks for updates before it has marked itself as valid.
NotYetSettled == TRUE

\* network_task looks for updates only after MarkRunningFirmwareValid.
Settled == state[running] = "valid"

\* CheckForUpdate: the manifest is Core's, checked against the image it names.
CheckForUpdate ==
  /\ node = "idle" /\ Settled /\ UpdateAvailable(slots[running].version)
  /\ node' = "offered" /\ offer' = latest
  /\ UNCHANGED <<server, slots, state, boot, running, loading, failures>>

\* InstallFirmware asks for the image of the target: what is latest by now.
\* esp_ota_begin erases the slot that does not run.
LoadImage ==
  /\ node = "offered" /\ Released /\ node' = "loading" /\ loading' = Served
  /\ slots' = [slots EXCEPT ![Other(running)] = Partial]
  /\ state' = [state EXCEPT ![Other(running)] = "aborted"]
  /\ UNCHANGED <<server, boot, running, offer, failures>>

\* Mutant: the image is taken as it comes.
Whatever == TRUE

\* The digest is that of the manifest.
Verified == loading = offer

\* All has been written: it is selected, or given up.
Installed ==
  /\ node = "loading" /\ loading' = Partial
  /\ IF Verified
     THEN /\ slots' = [slots EXCEPT ![Other(running)] = loading] /\ boot' = Other(running)
          /\ state' = [state EXCEPT ![Other(running)] = "new"] /\ node' = "loaded"
     ELSE node' = "idle" /\ UNCHANGED <<slots, boot, state>>
  /\ offer' = Partial /\ UNCHANGED <<server, running, failures>>

\* The answer is of another length, the connection breaks, memory is short.
LoadFails ==
  /\ node \in {"offered", "loading"} /\ failures < MaxFailures /\ failures' = failures + 1
  /\ node' = "idle" /\ offer' = Partial /\ loading' = Partial
  /\ UNCHANGED <<server, slots, state, boot, running>>

\* The boot loader tries a new image once; if it has not been marked valid by
\* the next start, the other slot is taken.
Started ==
  CASE state[boot] = "new" ->
         /\ state' = [state EXCEPT ![boot] = "verify"] /\ running' = boot /\ UNCHANGED boot
    [] state[boot] = "verify" ->
         /\ state' = [state EXCEPT ![boot] = "aborted"]
         /\ boot' = Other(boot) /\ running' = Other(boot)
    [] OTHER -> running' = boot /\ UNCHANGED <<state, boot>>

Reset == node' = "idle" /\ offer' = Partial /\ loading' = Partial /\ UNCHANGED <<server, slots>>

\* esp_restart
Restart == node = "loaded" /\ Started /\ Reset /\ UNCHANGED failures

\* Power is cut, or the image crashes.
Crash == failures < MaxFailures /\ failures' = failures + 1 /\ Started /\ Reset

\* MarkRunningFirmwareValid, after 20 seconds, connected or not.
MarkValid ==
  /\ state[running] = "verify" /\ state' = [state EXCEPT ![running] = "valid"]
  /\ UNCHANGED <<server, slots, boot, running, node, offer, loading, failures>>

-----------------------------------------------------------------------------
Next ==
  \/ \E i \in Images : PublishImage(i)
  \/ PublishManifest \/ PublishBreaksOff
  \/ CheckForUpdate \/ LoadImage \/ Installed \/ LoadFails \/ Restart \/ Crash \/ MarkValid
Spec == Init /\ [][Next]_vars

-----------------------------------------------------------------------------
\* Whenever power fails, and however often, the boot loader finds a complete
\* image: in the slot it is to start and, while that one is on trial, in the other.
AlwaysBootable ==
  /\ slots[boot] # Partial
  /\ state[boot] \in {"new", "verify"} => slots[Other(boot)] # Partial /\ state[Other(boot)] = "valid"

\* Whatever is published between the offer and the download, an older one
\* included, the node selects only an image that is newer than the one it runs.
UpgradesOnly ==
  [][boot' # boot /\ node = "loading" => Newer(slots'[boot'].version, slots[running].version)]_vars
=============================================================================
