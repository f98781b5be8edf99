----------------------------- MODULE ConfigFile -----------------------------
(***************************************************************************)
(* The configuration on its way from the GUI through the file to CoreHost: *)
(* save_config (NativeDNS.Core/src/config.cpp) with the publication of     *)
(* each platform, applyConfiguration and its callers (NativeDNS.GUI/       *)
(* qt_app.cpp), the reload of host.cpp and the start of host/main.cpp.     *)
(*                                                                         *)
(* A configuration is an opaque value that validates; the XML format is    *)
(* left out, but for what no reader accepts: a file that was not written   *)
(* to its end.  The settings of the log change no configuration here.      *)
(***************************************************************************)
EXTENDS Naturals

CONSTANTS
  Configs,         \* configurations a user may make
  DefaultConfig    \* default_config(), one of them

\* "none" and "torn" stand for no file and a file that no reader accepts.
ConfigConstants == DefaultConfig \in Configs /\ "none" \notin Configs /\ "torn" \notin Configs

Savers == {"gui", "core"}

VARIABLES
  windows,   \* the platform, which publishes in its own way
  disk,      \* [target, backup]: a configuration, "none" or "torn"
  temp,      \* [Savers -> its sibling temporary file]
  saving,    \* [Savers -> save_config: [at, config]]
  window,    \* NativeDnsWindow: [at, config, former, previous, dialog]
  running,   \* CoreHost: [at, config]
  request,   \* reload_config on its way: [at, config]
  existed    \* history: a configuration has been published

configVars == <<windows, disk, temp, saving, window, running, request, existed>>

ConfigInit ==
  /\ windows \in BOOLEAN
  /\ disk = [target |-> "none", backup |-> "none"]
  /\ temp = [s \in Savers |-> "none"]
  /\ saving = [s \in Savers |-> [at |-> "idle", config |-> "none"]]
  /\ window = [at |-> "down", config |-> "none", former |-> "none", previous |-> "none",
               dialog |-> FALSE]
  /\ running = [at |-> "down", config |-> "none"]
  /\ request = [at |-> "none", config |-> "none"]
  /\ existed = FALSE

-----------------------------------------------------------------------------
(* save_config: one file operation is one step.                            *)

Readable(content) == content \in Configs

Goes(s, at) == saving' = [saving EXCEPT ![s].at = at]
OthersUnchanged == UNCHANGED <<windows, window, running, request>>

\* An error removes the temporary file.
SaveFails(s) ==
  /\ Goes(s, "failed")
  /\ temp' = [temp EXCEPT ![s] = "none"]

\* What is there must load before it is replaced.
CheckTarget(s) ==
  /\ saving[s].at = "checking"
  /\ \/ disk.target # "torn" /\ Goes(s, "writing") /\ temp' = [temp EXCEPT ![s] = "torn"]
     \/ disk.target = "torn" /\ Goes(s, "failed") /\ UNCHANGED temp
  /\ UNCHANGED <<disk, existed>> /\ OthersUnchanged

\* The stream may report success and leave the file short all the same.
WriteTemp(s) ==
  /\ saving[s].at = "writing"
  /\ \/ /\ Goes(s, "verifying")
        /\ \E written \in {saving[s].config, "torn"} : temp' = [temp EXCEPT ![s] = written]
     \/ SaveFails(s)
  /\ UNCHANGED <<disk, existed>> /\ OthersUnchanged

\* Wrong: a file that was written without an error is published.
VerifyNothing(s) ==
  /\ saving[s].at = "verifying"
  /\ Goes(s, "publishing")
  /\ UNCHANGED <<temp, disk, existed>> /\ OthersUnchanged
VerifyTemp(s) ==
  /\ saving[s].at = "verifying"
  /\ \/ Readable(temp[s]) /\ Goes(s, "publishing") /\ UNCHANGED temp
     \/ ~Readable(temp[s]) /\ SaveFails(s)
  /\ UNCHANGED <<disk, existed>> /\ OthersUnchanged

Published(s) ==
  /\ disk' = [disk EXCEPT !.target = temp[s]]
  /\ temp' = [temp EXCEPT ![s] = "none"]
  /\ Goes(s, "done")
  /\ existed' = TRUE

\* Linux: a copy to the backup, in place, and a rename.
BackUp(s) ==
  /\ saving[s].at = "publishing" /\ ~windows /\ disk.target # "none"
  /\ disk' = [disk EXCEPT !.backup = "torn"]
  /\ Goes(s, "copying")
  /\ UNCHANGED <<temp, existed>> /\ OthersUnchanged
FinishBackUp(s) ==
  /\ saving[s].at = "copying"
  /\ \/ disk' = [disk EXCEPT !.backup = disk.target] /\ Goes(s, "renaming") /\ UNCHANGED temp
     \/ SaveFails(s) /\ UNCHANGED disk
  /\ UNCHANGED existed /\ OthersUnchanged
Rename(s) ==
  /\ ~windows
  /\ \/ saving[s].at = "renaming"
     \/ saving[s].at = "publishing" /\ disk.target = "none"
  /\ \/ Published(s)
     \/ SaveFails(s) /\ UNCHANGED <<disk, existed>>
  /\ OthersUnchanged

\* Windows: ReplaceFile keeps the old file as the backup, and may fail after it
\* has moved it there.  MoveFileEx does not replace what appeared meanwhile.
ReplaceFile(s) ==
  /\ saving[s].at = "publishing" /\ windows
  /\ \/ /\ disk.target # "none"
        /\ disk' = [target |-> temp[s], backup |-> disk.target]
        /\ temp' = [temp EXCEPT ![s] = "none"] /\ Goes(s, "done")
        /\ UNCHANGED existed
     \/ disk.target = "none" /\ Published(s)
     \/ SaveFails(s) /\ UNCHANGED <<disk, existed>>
     \/ /\ disk.target # "none"
        /\ disk' = [target |-> "none", backup |-> disk.target]
        /\ SaveFails(s) /\ UNCHANGED existed
  /\ OthersUnchanged

Begin(s, config) == saving' = [saving EXCEPT ![s] = [at |-> "checking", config |-> config]]
Ended(s) == saving[s].at \in {"done", "failed"}
Rest(s) == saving' = [saving EXCEPT ![s] = [at |-> "idle", config |-> "none"]]

-----------------------------------------------------------------------------
(* NativeDnsWindow.                                                        *)

FileUnchanged == UNCHANGED <<windows, disk, temp, existed>>

\* loadConfiguration: a missing file is created, a torn one is left alone.
OpenGui ==
  /\ window.at = "down"
  /\ IF disk.target = "none"
       THEN /\ Begin("gui", DefaultConfig)
            /\ window' = [window EXCEPT !.at = "creating", !.config = DefaultConfig]
       ELSE /\ window' = [window EXCEPT !.at = "up",
              !.config = IF Readable(disk.target) THEN disk.target ELSE DefaultConfig]
            /\ UNCHANGED saving
  /\ FileUnchanged /\ UNCHANGED <<running, request>>

Saved ==
  /\ window.at \in {"creating", "logging", "restoring"} /\ Ended("gui")
  /\ window' = [window EXCEPT !.at = "up"]
  /\ Rest("gui")
  /\ FileUnchanged /\ UNCHANGED <<running, request>>

\* applyConfiguration, from a dialog that puts config_ back if it fails, or from
\* Import and New, which do not.
Apply ==
  /\ window.at = "up"
  /\ \E next \in Configs, dialog \in BOOLEAN :
       IF disk.target = "torn"
         THEN /\ window' = [window EXCEPT !.config = IF dialog THEN @ ELSE next]
              /\ UNCHANGED saving
         ELSE /\ window' = [at |-> "saving", config |-> next, former |-> window.config,
                            previous |-> disk.target, dialog |-> dialog]
              /\ Begin("gui", next)
  /\ FileUnchanged /\ UNCHANGED <<running, request>>

Refused == [window EXCEPT !.at = "up", !.config = IF window.dialog THEN window.former ELSE @]

ApplySaved ==
  /\ window.at = "saving" /\ Ended("gui")
  /\ window' = IF saving["gui"].at = "done" THEN [window EXCEPT !.at = "sending"] ELSE Refused
  /\ Rest("gui")
  /\ FileUnchanged /\ UNCHANGED <<running, request>>

\* restartCore: a CoreHost that is absent is started, and loads the file.
SendReload ==
  /\ window.at = "sending" /\ request.at = "none"
  /\ \/ /\ running.at = "serving"
        /\ request' = [at |-> "sent", config |-> "none"]
        /\ window' = [window EXCEPT !.at = "reloading"]
     \/ running.at # "serving" /\ window' = [window EXCEPT !.at = "up"] /\ UNCHANGED request
  /\ FileUnchanged /\ UNCHANGED <<saving, running>>

\* Accepted, rejected, or no answer: only a rejection takes the file back.
Reloaded ==
  /\ window.at = "reloading" /\ request.at \in {"accepted", "rejected"}
  /\ request' = [at |-> "none", config |-> "none"]
  /\ \/ request.at = "accepted" /\ window' = [window EXCEPT !.at = "up"] /\ UNCHANGED saving
     \/ /\ request.at = "rejected" /\ window.previous # "none"
        /\ window' = [Refused EXCEPT !.at = "restoring"]
        /\ Begin("gui", window.previous)
     \/ /\ request.at = "rejected" /\ window.previous = "none"
        /\ window' = Refused /\ UNCHANGED saving
  /\ FileUnchanged /\ UNCHANGED running

GiveUp ==
  /\ window.at = "reloading"
  /\ window' = [window EXCEPT !.at = "up"]
  /\ IF request.at \in {"sent", "loaded"} THEN UNCHANGED request
     ELSE request' = [at |-> "none", config |-> "none"]
  /\ FileUnchanged /\ UNCHANGED <<saving, running>>

\* A setting of the log saves config_, whatever became of it.
ChangeLogging ==
  /\ window.at = "up"
  /\ window' = [window EXCEPT !.at = "logging"]
  /\ Begin("gui", window.config)
  /\ FileUnchanged /\ UNCHANGED <<running, request>>

\* The GUI dies, at any step of its save; its temporary file stays.
GuiDies ==
  /\ window.at # "down"
  /\ window' = [window EXCEPT !.at = "down"]
  /\ saving' = [saving EXCEPT !["gui"] = [at |-> "idle", config |-> "none"]]
  /\ FileUnchanged /\ UNCHANGED <<running, request>>

-----------------------------------------------------------------------------
(* CoreHost.                                                               *)

\* Started by hand it creates the file; then it loads it, or ends.
StartCore ==
  /\ running.at = "down"
  /\ \/ /\ disk.target = "none"
        /\ Begin("core", DefaultConfig)
        /\ running' = [running EXCEPT !.at = "creating"]
     \/ /\ Readable(disk.target)
        /\ running' = [at |-> "serving", config |-> disk.target]
        /\ UNCHANGED saving
  /\ FileUnchanged /\ UNCHANGED <<window, request>>

CoreCreated ==
  /\ running.at = "creating" /\ Ended("core")
  /\ running' = [running EXCEPT !.at = "down"]
  /\ Rest("core")
  /\ FileUnchanged /\ UNCHANGED <<window, request>>

\* Its requests end with it.
CoreEnds ==
  /\ running.at # "down"
  /\ running' = [at |-> "down", config |-> "none"]
  /\ saving' = [saving EXCEPT !["core"] = [at |-> "idle", config |-> "none"]]
  /\ request' = [at |-> "none", config |-> "none"]
  /\ window' = IF window.at = "reloading" THEN [window EXCEPT !.at = "up"] ELSE window
  /\ FileUnchanged

LoadRequested ==
  /\ request.at = "sent"
  /\ request' = IF Readable(disk.target) THEN [at |-> "loaded", config |-> disk.target]
                ELSE [request EXCEPT !.at = "rejected"]
  /\ FileUnchanged /\ UNCHANGED <<saving, window, running>>

Answer(verdict) ==
  request' = IF window.at = "reloading" THEN [at |-> verdict, config |-> "none"]
             ELSE [at |-> "none", config |-> "none"]

\* The interception takes the configuration as a whole, or refuses it.
ApplyRequested ==
  /\ request.at = "loaded"
  /\ \/ /\ running' = [running EXCEPT !.config = request.config]
        /\ Answer("accepted")
     \/ Answer("rejected") /\ UNCHANGED running
  /\ FileUnchanged /\ UNCHANGED <<saving, window>>

ConfigNext ==
  \/ \E s \in Savers :
       \/ CheckTarget(s) \/ WriteTemp(s) \/ VerifyTemp(s)
       \/ BackUp(s) \/ FinishBackUp(s) \/ Rename(s) \/ ReplaceFile(s)
  \/ OpenGui \/ Saved \/ Apply \/ ApplySaved \/ SendReload \/ Reloaded \/ GiveUp
  \/ ChangeLogging \/ GuiDies
  \/ StartCore \/ CoreCreated \/ CoreEnds \/ LoadRequested \/ ApplyRequested

-----------------------------------------------------------------------------
(* Properties.                                                             *)

\* docs/ARCHITECTURE.md:174, atomic publication: whichever process dies or fails in
\* the middle of a save, the file is whole, and a configuration that was published
\* is there or in its backup.  Not so for the machine: save_config has nothing
\* written through to the disk (no fsync), and a loss of power is not covered.
FileWhole ==
  /\ disk.target # "torn"
  /\ existed => Readable(disk.target) \/ Readable(disk.backup)

-----------------------------------------------------------------------------
(* Why it holds: what is published has been read back, and what is         *)
(* replaced was readable.                                                  *)

Contents == Configs \union {"none", "torn"}

ConfigTypeOK ==
  /\ windows \in BOOLEAN /\ existed \in BOOLEAN
  /\ disk \in [target : Contents, backup : Contents]
  /\ temp \in [Savers -> Contents]
  /\ saving \in [Savers -> [at : {"idle", "checking", "writing", "verifying", "publishing",
                                 "copying", "renaming", "done", "failed"},
                           config : Contents]]
  /\ window \in [at : {"down", "creating", "up", "saving", "sending", "reloading",
                       "restoring", "logging"},
                 config : Contents, former : Contents, previous : Contents,
                 dialog : BOOLEAN]
  /\ running \in [at : {"down", "creating", "serving"}, config : Contents]
  /\ request \in [at : {"none", "sent", "loaded", "accepted", "rejected"}, config : Contents]

\* A temporary file that is about to be published can be read.
VerifiedFirst ==
  \A s \in Savers :
    /\ saving[s].at \in {"publishing", "copying", "renaming"} => Readable(temp[s])
    /\ saving[s].at = "copying" => ~windows

TargetKept ==
  /\ disk.target # "torn"
  /\ existed => Readable(disk.target) \/ (windows /\ Readable(disk.backup))

ConfigInv == ConfigTypeOK /\ VerifiedFirst /\ TargetKept
=============================================================================
