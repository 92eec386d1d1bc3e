---------------------------- MODULE EditorConfig ----------------------------
(***************************************************************************)
(* The configuration of the editor: editor.json and its backup, the copy   *)
(* in the server's memory, and the copies of the clients that save it on   *)
(* every change.  The server is one thread: a handler runs to its end, but *)
(* it can be killed between two operations on files, and the handlers that *)
(* load the configuration wait in the middle.                              *)
(*                                                                         *)
(* A configuration is the settings a client chooses and the time of the    *)
(* last update of the data, which the engine reports; times are numbered   *)
(* and 0 is the empty string.  A file of configuration c counts as signed  *)
(* when it was written whole: the server alone has the key.                *)
(***************************************************************************)
EXTENDS Naturals, Sequences

CONSTANTS
    Clients,      \* windows and tabs
    Settings,     \* settings a client may choose
    Default,      \* the settings of createDefaultConfig
    NoSettings,   \* settings without a project folder: no configuration is there
    Outside,      \* settings with a folder of bar data outside the project
    MaxUpdates,   \* bound: updates of the data the engine reports
    MayFail       \* operations on files that may fail

ASSUME ConfigAssumption ==
    /\ Default \in Settings /\ NoSettings \notin Settings
    /\ Outside \subseteq Settings \ {Default} /\ MaxUpdates \in Nat
    /\ MayFail \subseteq {"write", "unlink", "rename", "copy", "cleanup"}

VARIABLES
    cfg, bak,     \* editor.json and editor.json.bak
    config,       \* editorConfig: the configuration in memory
    pc,           \* the operation on files the server has reached
    job,          \* the handler that runs it
    load,         \* the loading of the configuration: where it waits
    clients,      \* what each client holds
    inbox,        \* messages on their way to each client
    updates       \* updates of the data so far

files == <<cfg, bak>>
vars  == <<cfg, bak, config, pc, job, load, clients, inbox, updates>>

Configs  == [settings : Settings, lastUpdate : 0..MaxUpdates]
NoConfig == [settings |-> NoSettings, lastUpdate |-> 0]
DefaultConfig == [settings |-> Default, lastUpdate |-> 0]

\* Files.  Version 1 of the signature is that of older programs.
Absent       == [kind |-> "absent"]
Torn         == [kind |-> "torn"]
Signed(v, c) == [kind |-> "signed", version |-> v, config |-> c]
Files == {Absent, Torn} \cup [kind : {"signed"}, version : {1, 2}, config : Configs]

Valid(f) == f.kind = "signed"

\* What readSignedConfigWithRecovery finds.
Readable == IF Valid(cfg) THEN cfg.config ELSE IF Valid(bak) THEN bak.config ELSE NoConfig

Idle  == pc = "idle"
NoJob == [for |-> "none", migrate |-> FALSE, config |-> NoConfig]
NotLoading == [stage |-> "none", config |-> NoConfig, asker |-> {}]
Closed == [stage |-> "closed", config |-> NoConfig, dirty |-> FALSE]

-----------------------------------------------------------------------------
(* The end of a handler.                                                   *)

Send(S, m) == inbox' = [k \in Clients |-> IF k \in S THEN Append(inbox[k], m) ELSE inbox[k]]
Connected == {k \in Clients : clients[k].stage # "closed"}

\* The reading is over: what was found goes back to the load, or into the update.
HasRead(for, c) ==
    IF for = "load"
    THEN /\ pc' = IF c = NoConfig THEN "delete" ELSE "idle"
         /\ load' = IF c = NoConfig THEN load ELSE [load EXCEPT !.stage = "validating", !.config = c]
         /\ job' = IF c = NoConfig THEN job ELSE NoJob
    ELSE /\ pc' = "write" /\ UNCHANGED load
         /\ job' = [for |-> "update", migrate |-> FALSE,
                    config |-> [IF c = NoConfig THEN DefaultConfig ELSE c
                                EXCEPT !.lastUpdate = updates']]

\* A save is taken into memory when it is in the files.
InMemoryMutant(success) == job.for \in {"save", "update"}
InMemory(success) == success /\ job.for \in {"save", "update"}

\* writeSignedFileAtomic has returned.
Wrote(success) ==
    /\ UNCHANGED <<clients, updates>>
    /\ IF job.migrate
       THEN HasRead(job.for, job.config) /\ UNCHANGED <<config, inbox>>
       ELSE /\ pc' = "idle" /\ job' = NoJob
            /\ config' = IF InMemory(success) THEN job.config ELSE config
            /\ load' = IF job.for # "create" THEN load
                       ELSE [load EXCEPT !.stage = "validating",
                                         !.config = IF success THEN job.config ELSE NoConfig]
            /\ IF success /\ job.for = "update"
               THEN Send(Connected, [action |-> "lastDataUpdates", config |-> job.config])
               ELSE UNCHANGED inbox

-----------------------------------------------------------------------------
(* writeSignedFileAtomic.  The temporary file is only ever read by the     *)
(* rename that follows its writing.                                        *)

\* A step from one operation to the next.
Goto(next) == pc' = next /\ UNCHANGED <<config, job, load, clients, inbox, updates>>

Fails(operation) == operation \in MayFail /\ Wrote(FALSE) /\ UNCHANGED files

WriteTmp ==
    /\ pc = "write"
    /\ \/ /\ Goto(IF cfg = Absent THEN "toCfg" ELSE IF bak = Absent THEN "toBak" ELSE "unlink")
          /\ UNCHANGED files
       \/ Fails("write")

\* Errors are ignored where a file is removed.
Unlinked(file) == file' = Absent \/ ("unlink" \in MayFail /\ file' = file)

UnlinkBak ==
    /\ pc = "unlink" /\ Goto("toBak") /\ UNCHANGED cfg /\ Unlinked(bak)

RenameToBakMutant ==
    /\ pc = "toBak" /\ cfg' = Absent /\ UNCHANGED bak /\ Goto("toCfg")
RenameToBak ==
    /\ pc = "toBak"
    /\ \/ bak' = cfg /\ cfg' = Absent /\ Goto("toCfg")
       \/ Fails("rename")

RenameToCfg ==
    /\ pc = "toCfg"
    /\ \/ /\ cfg' = Signed(2, job.config) /\ UNCHANGED bak
          /\ IF bak = Absent THEN Goto("copy") ELSE Wrote(TRUE)
       \/ Fails("rename")

\* The destination of a copy that failed is removed, unless that fails too or it
\* could not be opened in the first place.
FailedCopy == {Absent} \cup (IF "cleanup" \in MayFail THEN {Torn} ELSE {})

\* The first save copies the file; an error is ignored.
CopyToBak ==
    pc = "copy" /\ bak' = Torn /\ UNCHANGED cfg /\ Goto("copying")

CopiedToBak ==
    /\ pc = "copying" /\ UNCHANGED cfg /\ Wrote(TRUE)
    /\ \/ bak' = cfg
       \/ "copy" \in MayFail /\ bak' \in FailedCopy

Writing == WriteTmp \/ UnlinkBak \/ RenameToBak \/ RenameToCfg \/ CopyToBak \/ CopiedToBak

-----------------------------------------------------------------------------
(* readSignedConfigWithRecovery.                                           *)

\* A file of version 1 is written again before its configuration is used.
Found(for, f) ==
    IF f.version = 1
    THEN /\ pc' = "write" /\ job' = [for |-> for, migrate |-> TRUE, config |-> f.config]
         /\ UNCHANGED load
    ELSE HasRead(for, f.config)

Read(for) ==
    IF Valid(cfg) THEN Found(for, cfg)
    ELSE IF Valid(bak)
    THEN pc' = "recover" /\ job' = [NoJob EXCEPT !.for = for] /\ UNCHANGED load
    ELSE HasRead(for, NoConfig)

\* The backup is copied over editor.json.  If that fails it is used all the same.
Recover ==
    /\ pc = "recover" /\ cfg' = Torn /\ pc' = "recovering"
    /\ UNCHANGED <<bak, config, job, load, clients, inbox, updates>>

Recovered ==
    /\ pc = "recovering" /\ UNCHANGED <<bak, config, clients, inbox, updates>>
    /\ \/ cfg' = bak /\ Found(job.for, bak)
       \/ "copy" \in MayFail /\ cfg' \in FailedCopy /\ HasRead(job.for, bak.config)

-----------------------------------------------------------------------------
(* Loading.  It waits before the first look at the file, while the project *)
(* folder is made, and while the configuration is validated.               *)

\* A configuration is loaded once; editorConfigLoading keeps others out.
StartLoad(askers) ==
    load' = [stage |-> "access", config |-> NoConfig, asker |-> askers]

CanLoad == config = NoConfig /\ load = NotLoading

\* A missing file throws, so that its backup is not looked at.
AccessFile ==
    /\ Idle /\ load.stage = "access" /\ UNCHANGED <<files, config, clients, inbox, updates>>
    /\ IF cfg = Absent
       THEN load' = [load EXCEPT !.stage = "creating"] /\ UNCHANGED <<pc, job>>
       ELSE Read("load")

\* deleteConfigAndBak, when neither file is valid.  Errors are ignored.
DeleteConfigAndBak ==
    /\ \/ pc = "delete" /\ Unlinked(cfg) /\ UNCHANGED <<bak, load>> /\ pc' = "deleteBak"
       \/ /\ pc = "deleteBak" /\ Unlinked(bak) /\ UNCHANGED cfg
          /\ pc' = "idle" /\ load' = [load EXCEPT !.stage = "creating"]
    /\ UNCHANGED <<config, job, clients, inbox, updates>>

CreateDefault ==
    /\ Idle /\ load.stage = "creating" /\ pc' = "write"
    /\ job' = [for |-> "create", migrate |-> FALSE, config |-> DefaultConfig]
    /\ UNCHANGED <<files, config, load, clients, inbox, updates>>

\* A configuration that is not valid is replaced by the default one.
Validate ==
    /\ Idle /\ load.stage = "validating"
    /\ IF load.config.settings \in Outside
       THEN load' = [load EXCEPT !.stage = "creating"] /\ UNCHANGED <<config, inbox>>
       ELSE /\ config' = load.config /\ load' = NotLoading
            /\ Send(load.asker, [action |-> "editorConfigLoaded", config |-> load.config])
    /\ UNCHANGED <<files, pc, job, clients, updates>>

-----------------------------------------------------------------------------
(* The other handlers.                                                     *)

Connect(k) ==
    /\ Idle /\ clients[k].stage = "closed"
    /\ clients' = [clients EXCEPT ![k].stage = "open"]
    /\ IF CanLoad THEN StartLoad({}) ELSE UNCHANGED load
    /\ UNCHANGED <<files, config, pc, job, inbox, updates>>

\* loadEditorConfig: answered at once while another handler loads.
LoadEditorConfig(k) ==
    /\ Idle /\ clients[k].stage = "open"
    /\ clients' = [clients EXCEPT ![k].stage = "asked"]
    /\ IF CanLoad
       THEN StartLoad({k}) /\ UNCHANGED inbox
       ELSE Send({k}, [action |-> "editorConfigLoaded", config |-> config]) /\ UNCHANGED load
    /\ UNCHANGED <<files, config, pc, job, updates>>

\* saveEditorConfig: a time the client has not is kept.  Without a project folder
\* nothing is saved.
Saved(c) == IF c.lastUpdate = 0 THEN [c EXCEPT !.lastUpdate = config.lastUpdate] ELSE c

HasProjectMutant(c) == TRUE
HasProject(c) == c.settings # NoSettings

SaveEditorConfig(k) ==
    /\ Idle /\ clients[k].stage = "loaded" /\ clients[k].dirty
    /\ clients' = [clients EXCEPT ![k].dirty = FALSE]
    /\ IF HasProject(clients[k].config)
       THEN /\ pc' = "write"
            /\ job' = [for |-> "save", migrate |-> FALSE, config |-> Saved(clients[k].config)]
       ELSE UNCHANGED <<pc, job>>
    /\ UNCHANGED <<files, config, load, inbox, updates>>

\* The engine reports that the data have been updated.
UpdateDone ==
    /\ Idle /\ config # NoConfig /\ updates < MaxUpdates
    /\ updates' = updates + 1 /\ Read("update")
    /\ UNCHANGED <<files, config, clients, inbox>>

Disconnect(k) ==
    /\ Idle /\ clients[k].stage # "closed"
    /\ clients' = [clients EXCEPT ![k] = Closed] /\ inbox' = [inbox EXCEPT ![k] = <<>>]
    /\ load' = [load EXCEPT !.asker = @ \ {k}]
    /\ UNCHANGED <<files, config, pc, job, updates>>

Server == Writing \/ Recover \/ Recovered \/ AccessFile \/ DeleteConfigAndBak
          \/ CreateDefault \/ Validate \/ UpdateDone

\* Killed, or exited for want of clients.
Crash ==
    /\ pc # "down" /\ pc' = "down" /\ config' = NoConfig /\ job' = NoJob /\ load' = NotLoading
    /\ clients' = [k \in Clients |-> Closed] /\ inbox' = [k \in Clients |-> <<>>]
    /\ UNCHANGED <<files, updates>>

Restart == pc = "down" /\ pc' = "idle" /\ UNCHANGED <<files, config, job, load, clients, inbox, updates>>

-----------------------------------------------------------------------------
(* The clients.                                                            *)

\* Whatever it shows, a client saves 300 ms after a change.
ReceiveMessage(k) ==
    /\ inbox[k] # <<>> /\ inbox' = [inbox EXCEPT ![k] = Tail(@)]
    /\ clients' =
         [clients EXCEPT ![k] =
            LET m == Head(inbox[k])
            IN  IF m.action = "editorConfigLoaded"
                THEN [stage |-> "loaded", config |-> m.config, dirty |-> TRUE]
                ELSE [@ EXCEPT !.config.lastUpdate = m.config.lastUpdate, !.dirty = TRUE]]
    /\ UNCHANGED <<files, config, pc, job, load, updates>>

Edit(k, s) ==
    /\ clients[k].stage = "loaded" /\ clients[k].config.settings \notin {s, NoSettings}
    /\ clients' = [clients EXCEPT ![k].config.settings = s, ![k].dirty = TRUE]
    /\ UNCHANGED <<files, config, pc, job, load, inbox, updates>>

Client(k) ==
    \/ Connect(k) \/ LoadEditorConfig(k) \/ SaveEditorConfig(k) \/ Disconnect(k)
    \/ ReceiveMessage(k) \/ \E s \in Settings : Edit(k, s)

\* The first start, an older program's file, or one edited by hand.
Init ==
    /\ cfg \in {Absent, Torn, Signed(1, DefaultConfig)} /\ bak = Absent
    /\ config = NoConfig /\ pc = "down" /\ job = NoJob /\ load = NotLoading
    /\ clients = [k \in Clients |-> Closed] /\ inbox = [k \in Clients |-> <<>>]
    /\ updates = 0

Next == Server \/ Crash \/ Restart \/ \E k \in Clients : Client(k)

Spec == Init /\ [][Next]_vars
-----------------------------------------------------------------------------
(* Properties.                                                             *)

Messages == [action : {"editorConfigLoaded", "lastDataUpdates"}, config : Configs \cup {NoConfig}]

\* Every variable stays in its domain: in particular what a client shows before
\* anything was loaded never gets into a file.
TypeOK ==
    /\ cfg \in Files /\ bak \in Files
    /\ config \in Configs \cup {NoConfig} /\ updates \in 0..MaxUpdates
    /\ pc \in {"down", "idle", "write", "unlink", "toBak", "toCfg", "copy", "copying",
               "recover", "recovering", "delete", "deleteBak"}
    /\ job \in [for : {"none", "save", "update", "create", "load"}, migrate : BOOLEAN,
                config : Configs \cup {NoConfig}]
    /\ load \in [stage : {"none", "access", "creating", "validating"},
                 config : Configs \cup {NoConfig}, asker : SUBSET Clients]
    /\ clients \in [Clients -> [stage : {"closed", "open", "asked", "loaded"},
                                config : [settings : Settings \cup {NoSettings},
                                          lastUpdate : 0..MaxUpdates],
                                dirty : BOOLEAN]]
    /\ inbox \in [Clients -> Seq(Messages)]

\* Between two handlers the configuration in memory is the one a restart would
\* find in the files, whichever operations failed.
MemoryOnDisk == Idle /\ config # NoConfig => config = Readable

\* From the moment the files are touched until the new one has taken its name.
BeingWritten == IF pc \in {"unlink", "toBak", "toCfg"} THEN job.config ELSE NoConfig

Register == INSTANCE ConfigRegister WITH
    Values  <- Configs,
    Nothing <- NoConfig,
    stored  <- Readable,
    writing <- BeingWritten

\* The two files together are one register that is written as a whole or not at
\* all: no crash and no error leaves anything but the old or the new value.
ImplementsRegister == Register!Spec

\* A configuration that was saved and is valid is not replaced by the default one.
DefaultOnlyWithoutConfig ==
    [][job.for = "create" /\ Readable' # Readable
         => Readable.settings \in Outside \cup {NoSettings}]_vars
=============================================================================
