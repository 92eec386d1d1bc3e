------------------------- MODULE EditorConfig_proofs -------------------------
(***************************************************************************)
(* Proofs about EditorConfig, for any clients, settings and updates, when  *)
(* any operation on files may fail, but not the removal of what a failed   *)
(* copy has left.                                                          *)
(***************************************************************************)
EXTENDS EditorConfig, SequenceTheorems, TLAPS

\* A copy that fails leaves no torn file behind.
NoTornCopy == ~({"copy", "cleanup"} \subseteq MayFail)

-----------------------------------------------------------------------------
(* The inductive invariant.                                                *)

Held  == Configs \cup {NoConfig}
Jobs  == [for : {"none", "save", "update", "create", "load"}, migrate : BOOLEAN, config : Held]
Loads == [stage : {"none", "access", "creating", "validating"}, config : Held,
          asker : SUBSET Clients]
Views == [stage : {"closed", "open", "asked", "loaded"},
          config : [settings : Settings \cup {NoSettings}, lastUpdate : 0..MaxUpdates],
          dirty : BOOLEAN]

\* Messages without a configuration.
BareMessages == [action : {"editorConfigLoaded", "lastDataUpdates"}, config : {NoConfig}]

Replacing  == {"write", "unlink", "toBak", "toCfg"}
Copying    == {"copy", "copying"}
Recovering == {"recover", "recovering"}
Deleting   == {"delete", "deleteBak"}

\* TypeOK, with the sets named.
TypedOK ==
    /\ cfg \in Files /\ bak \in Files
    /\ config \in Held /\ updates \in 0..MaxUpdates
    /\ pc \in {"down", "idle"} \cup Replacing \cup Copying \cup Recovering \cup Deleting
    /\ job \in Jobs /\ load \in Loads /\ clients \in [Clients -> Views]
    /\ inbox \in [Clients -> Seq(Messages)]

\* Which handler has reached which operation.
JobOK ==
    /\ pc \in Replacing \cup Copying => job.config \in Configs
    /\ pc \in Replacing \cup Copying \cup Recovering =>
        /\ job.for # "none"
        /\ job.for \in {"save", "update"} => config # NoConfig
        /\ job.for = "load" => load.stage = "access"
        /\ job.for = "create" => load.stage = "creating"
    /\ pc \in Recovering => job.for \in {"load", "update"}
    /\ pc \in Deleting => load.stage = "access"
    /\ pc = "down" => load = NotLoading
    /\ job.migrate => pc \in Replacing \cup Copying /\ job.for \in {"load", "update"}

\* Nothing is in memory while it is loaded, and no client shows what was not.
LoadOK ==
    /\ load.stage # "none" \/ pc = "down" => config = NoConfig
    /\ config = NoConfig => \A k \in Clients : clients[k].config.settings = NoSettings
    /\ config = NoConfig => \A k \in Clients : inbox[k] \in Seq(BareMessages)

\* The file that is given up is never the only good one.
FilesOK ==
    /\ pc \in {"unlink", "toBak"} => cfg # Absent
    /\ pc \in Copying => Valid(cfg) /\ cfg.config = job.config
    /\ pc \in Recovering => ~Valid(cfg) /\ Valid(bak)
    /\ pc \in Deleting => ~Valid(cfg) /\ ~Valid(bak)
    /\ (config # NoConfig \/ load.stage \in {"creating", "validating"} \/ pc \in Replacing)
       /\ pc \notin Recovering => ~(cfg = Torn /\ Valid(bak))

\* What is in memory, or about to be, is in the files.
MemoryOK ==
    /\ config # NoConfig /\ (pc \notin Copying \/ job.migrate) => config = Readable
    /\ job.migrate => job.config = Readable
    /\ load.stage = "validating" => load.config \in {Readable, NoConfig}

IInv == TypedOK /\ JobOK /\ LoadOK /\ FilesOK /\ MemoryOK

\* A step, seen as one of the register.
RegisterStep == Register!Next \/ UNCHANGED <<Readable, BeingWritten>>

-----------------------------------------------------------------------------
(* Configurations and files.                                               *)

\* What is no configuration is none.
LEMMA NoConfigIsNone ==
    /\ NoConfig \notin Configs /\ DefaultConfig \in Configs
    /\ \A c \in Configs : c # NoConfig /\ c.settings # NoSettings
    /\ \A c \in Held : c = NoConfig <=> c.settings = NoSettings
<1>1. NoConfig.settings = NoSettings /\ \A c \in Configs : c.settings \in Settings
  BY DEF NoConfig, Configs
<1>2. DefaultConfig \in Configs
  BY ConfigAssumption DEF DefaultConfig, Configs
<1> QED BY <1>1, <1>2, ConfigAssumption DEF Held

\* Another time of the last update.
LEMMA Updated ==
    ASSUME NEW c \in Configs, NEW t \in 0..MaxUpdates
    PROVE  [c EXCEPT !.lastUpdate = t] \in Configs
BY DEF Configs

\* Files that are valid, and those that are not.
LEMMA FileKinds ==
    /\ \A f \in Files : Valid(f) => f.config \in Configs
    /\ ~Valid(Absent) /\ ~Valid(Torn) /\ Absent # Torn /\ Absent \in Files /\ Torn \in Files
    /\ \A c \in Configs : Signed(2, c) \in Files /\ Valid(Signed(2, c)) /\ Signed(2, c).config = c
                          /\ Signed(1, c) \in Files
    /\ \A f \in Files : f = Absent \/ f = Torn \/ Valid(f)
BY DEF Files, Absent, Torn, Signed, Valid

\* What a recovery can read is a configuration, unless neither file is valid.
LEMMA ReadableHeld ==
    ASSUME TypedOK
    PROVE  /\ Readable \in Held
           /\ Readable = NoConfig <=> ~Valid(cfg) /\ ~Valid(bak)
BY FileKinds, NoConfigIsNone DEF TypedOK, Readable, Held

\* TypeOK is what the invariant says of the types.
LEMMA Typed == TypedOK => TypeOK
BY DEF TypedOK, TypeOK, Held, Jobs, Loads, Views, Replacing, Copying, Recovering, Deleting

\* Messages sent are messages received.
LEMMA Sent ==
    ASSUME inbox \in [Clients -> Seq(Messages)], NEW S, NEW m \in Messages, Send(S, m)
    PROVE  inbox' \in [Clients -> Seq(Messages)]
<1>1. ASSUME NEW k \in Clients PROVE Append(inbox[k], m) \in Seq(Messages) /\ inbox[k] \in Seq(Messages)
  BY AppendProperties
<1> QED BY <1>1 DEF Send

\* A message without a configuration leaves only such messages in the inboxes.
LEMMA SentBare ==
    ASSUME inbox \in [Clients -> Seq(Messages)], \A k \in Clients : inbox[k] \in Seq(BareMessages),
           NEW S, NEW m \in BareMessages, Send(S, m)
    PROVE  \A k \in Clients : inbox'[k] \in Seq(BareMessages)
<1>1. ASSUME NEW k \in Clients PROVE Append(inbox[k], m) \in Seq(BareMessages)
  BY AppendProperties
<1> QED BY <1>1 DEF Send

\* A message of a configuration.
LEMMA MessageOf ==
    ASSUME NEW a \in {"editorConfigLoaded", "lastDataUpdates"}, NEW c \in Held
    PROVE  /\ [action |-> a, config |-> c] \in Messages
           /\ c = NoConfig => [action |-> a, config |-> c] \in BareMessages
BY DEF Messages, BareMessages, Held

-----------------------------------------------------------------------------
(* The ends of handlers.                                                   *)

\* Before a handler begins or goes on to read, and after it.
LEMMA HasReadOK ==
    ASSUME IInv, NEW for \in {"load", "update"}, NEW c, c = Readable',
           HasRead(for, c), UNCHANGED <<config, clients, inbox>>,
           cfg' \in Files, bak' \in Files, updates' \in 0..MaxUpdates,
           ~(cfg' = Torn /\ Valid(bak')),
           for = "load" => load.stage = "access" /\ config = NoConfig /\ (c = NoConfig => ~job.migrate),
           for = "update" => config # NoConfig /\ config = Readable'
    PROVE  IInv' /\ pc' \in {"idle", "write", "delete"}
<1>0. TypedOK /\ JobOK /\ LoadOK
  BY DEF IInv
<1>1. c \in Held /\ (c = NoConfig <=> ~Valid(cfg') /\ ~Valid(bak'))
  BY FileKinds, NoConfigIsNone DEF Readable, Held
<1>2. LoadOK' /\ pc' \in {"idle", "write", "delete"}
  <2>1. pc' \in {"idle", "write", "delete"}
    BY DEF HasRead
  <2>2. load'.stage # "none" => config = NoConfig
    BY <1>0 DEF HasRead, LoadOK, TypedOK, Loads
  <2> QED BY <1>0, <2>1, <2>2 DEF LoadOK
<1>3. CASE for = "load" /\ c = NoConfig
  <2>1. pc' = "delete" /\ load' = load /\ job' = job
    BY <1>3 DEF HasRead
  <2>2. TypedOK'
    BY <1>0, <2>1 DEF TypedOK, Deleting
  <2>3. JobOK'
    BY <1>0, <1>3, <2>1 DEF JobOK, Replacing, Copying, Recovering, Deleting
  <2>4. FilesOK' /\ MemoryOK'
    BY <1>1, <1>3, <2>1 DEF FilesOK, MemoryOK, Replacing, Copying, Recovering, Deleting
  <2> QED BY <1>2, <2>2, <2>3, <2>4 DEF IInv
<1>4. CASE for = "load" /\ c # NoConfig
  <2>1. pc' = "idle" /\ load' = [load EXCEPT !.stage = "validating", !.config = c] /\ job' = NoJob
    BY <1>4 DEF HasRead
  <2>2. load' \in Loads /\ load'.stage = "validating" /\ load'.config = c
    BY <1>0, <1>1, <2>1 DEF TypedOK, Loads
  <2>3. job' \in Jobs /\ job'.migrate = FALSE
    BY <2>1 DEF NoJob, Jobs, Held
  <2>4. TypedOK'
    BY <1>0, <2>1, <2>2, <2>3 DEF TypedOK
  <2>5. JobOK'
    BY <2>1, <2>3 DEF JobOK, Replacing, Copying, Recovering, Deleting
  <2>6. FilesOK' /\ MemoryOK'
    BY <1>4, <2>1, <2>2, <2>3 DEF FilesOK, MemoryOK, Replacing, Copying, Recovering, Deleting
  <2> QED BY <1>2, <2>4, <2>5, <2>6 DEF IInv
<1>5. CASE for = "update"
  <2> DEFINE d == [IF c = NoConfig THEN DefaultConfig ELSE c EXCEPT !.lastUpdate = updates']
  <2>1. pc' = "write" /\ load' = load /\ job' = [for |-> "update", migrate |-> FALSE, config |-> d]
    BY <1>5 DEF HasRead
  <2>2. d \in Configs
    <3>1. (IF c = NoConfig THEN DefaultConfig ELSE c) \in Configs
      BY <1>1, NoConfigIsNone DEF Held
    <3> QED BY <3>1, Updated
  <2> HIDE DEF d
  <2>3. job' \in Jobs /\ job'.migrate = FALSE /\ job'.for = "update" /\ job'.config = d
    BY <2>1, <2>2 DEF Jobs, Held
  <2>4. TypedOK'
    BY <1>0, <2>1, <2>3 DEF TypedOK, Replacing
  <2>5. JobOK'
    BY <1>5, <2>1, <2>2, <2>3 DEF JobOK, Replacing, Copying, Recovering, Deleting
  <2>6. load'.stage # "validating"
    BY <1>0, <1>5, <2>1 DEF LoadOK
  <2>7. FilesOK' /\ MemoryOK'
    BY <1>5, <2>1, <2>3, <2>6 DEF FilesOK, MemoryOK, Replacing, Copying, Recovering, Deleting
  <2> QED BY <1>2, <2>4, <2>5, <2>7 DEF IInv
<1> QED BY <1>2, <1>3, <1>4, <1>5

\* The file that is read, or first written in the new version.
LEMMA FoundOK ==
    ASSUME IInv, NEW for \in {"load", "update"}, NEW f \in Files, Valid(f), f.config = Readable',
           Found(for, f), UNCHANGED <<config, clients, inbox>>,
           cfg' \in Files, bak' \in Files, updates' \in 0..MaxUpdates,
           ~(cfg' = Torn /\ Valid(bak')),
           for = "load" => load.stage = "access" /\ config = NoConfig,
           for = "update" => config # NoConfig /\ config = Readable'
    PROVE  IInv' /\ pc' \in {"idle", "write", "delete"}
<1>0. TypedOK /\ JobOK /\ LoadOK /\ f.config \in Configs
  BY FileKinds DEF IInv
<1>1. CASE f.version # 1
  <2>1. HasRead(for, f.config) /\ f.config # NoConfig
    BY <1>0, <1>1, NoConfigIsNone DEF Found
  <2> QED BY <2>1, HasReadOK
<1>2. CASE f.version = 1
  <2>1. pc' = "write" /\ job' = [for |-> for, migrate |-> TRUE, config |-> f.config] /\ load' = load
    BY <1>2 DEF Found
  <2>2. job' \in Jobs /\ job'.migrate = TRUE /\ job'.for = for /\ job'.config = f.config
    BY <1>0, <2>1 DEF Jobs, Held
  <2>3. TypedOK'
    BY <1>0, <2>1, <2>2 DEF TypedOK, Replacing
  <2>4. JobOK'
    BY <1>0, <2>1, <2>2 DEF JobOK, Replacing, Copying, Recovering, Deleting
  <2>5. LoadOK'
    BY <1>0, <2>1 DEF LoadOK
  <2>6. load'.stage # "validating"
    BY <1>0, <2>1 DEF LoadOK
  <2>7. FilesOK' /\ MemoryOK'
    BY <2>1, <2>2, <2>6 DEF FilesOK, MemoryOK, Replacing, Copying, Recovering, Deleting
  <2> QED BY <2>1, <2>3, <2>4, <2>5, <2>7 DEF IInv
<1> QED BY <1>1, <1>2

\* The end of a writing that has stored the new value, or left the old one.
LEMMA WroteOK ==
    ASSUME IInv, pc \in Replacing \cup Copying, NEW success \in BOOLEAN, Wrote(success),
           cfg' \in Files, bak' \in Files, ~(cfg' = Torn /\ Valid(bak')),
           success => Readable' = job.config,
           ~success => Readable' = Readable /\ pc \notin Copying
    PROVE  IInv' /\ pc' \in {"idle", "write", "delete"}
<1>0. TypedOK /\ JobOK /\ LoadOK /\ MemoryOK /\ job.config \in Configs /\ job.config # NoConfig
      /\ UNCHANGED <<clients, updates>> /\ updates \in 0..MaxUpdates
  BY NoConfigIsNone DEF IInv, JobOK, Wrote, TypedOK
<1>1. CASE job.migrate
  <2>1. HasRead(job.for, job.config) /\ UNCHANGED <<config, inbox>>
    BY <1>1 DEF Wrote
  <2>2. job.for \in {"load", "update"} /\ job.config = Readable'
    BY <1>0, <1>1 DEF JobOK, MemoryOK
  <2>3. job.for = "load" => load.stage = "access" /\ config = NoConfig
    BY <1>0 DEF JobOK, LoadOK
  <2>4. job.for = "update" => config # NoConfig /\ config = Readable'
    BY <1>0, <1>1, <2>2 DEF JobOK, MemoryOK
  <2> QED BY <1>0, <2>1, <2>2, <2>3, <2>4, HasReadOK
<1>2. CASE ~job.migrate
  <2>1. /\ pc' = "idle" /\ job' = NoJob
        /\ config' = IF InMemory(success) THEN job.config ELSE config
        /\ load' = IF job.for # "create" THEN load
                   ELSE [load EXCEPT !.stage = "validating",
                                     !.config = IF success THEN job.config ELSE NoConfig]
        /\ IF success /\ job.for = "update"
           THEN Send(Connected, [action |-> "lastDataUpdates", config |-> job.config])
           ELSE UNCHANGED inbox
    BY <1>2 DEF Wrote
  <2>2. config' \in Held /\ (config # NoConfig => config' # NoConfig)
        /\ (config = NoConfig => config' = NoConfig)
    BY <1>0, <2>1 DEF InMemory, TypedOK, Held, JobOK
  <2>3. job' \in Jobs /\ job'.migrate = FALSE
    BY <2>1 DEF NoJob, Jobs, Held
  <2>4. load' \in Loads /\ (load'.stage # "none" => load.stage # "none")
        /\ (load'.stage = "validating" => (load.stage = "validating" /\ load' = load)
                                          \/ load'.config \in {Readable', NoConfig})
    <3>1. CASE job.for = "create"
      <4>1. load' = [load EXCEPT !.stage = "validating",
                                 !.config = IF success THEN job.config ELSE NoConfig]
        BY <2>1, <3>1
      <4>2. load.stage = "creating"
        BY <1>0, <3>1 DEF JobOK
      <4> QED BY <1>0, <4>1, <4>2 DEF TypedOK, Loads, Held
    <3>2. CASE job.for # "create"
      BY <1>0, <2>1, <3>2 DEF TypedOK
    <3> QED BY <3>1, <3>2
  <2>5. inbox' \in [Clients -> Seq(Messages)]
    <3>1. CASE success /\ job.for = "update"
      <4>1. [action |-> "lastDataUpdates", config |-> job.config] \in Messages
        BY <1>0, MessageOf DEF Held
      <4> QED BY <1>0, <2>1, <3>1, <4>1, Sent DEF TypedOK
    <3>2. CASE ~(success /\ job.for = "update")
      BY <1>0, <2>1, <3>2 DEF TypedOK
    <3> QED BY <3>1, <3>2
  <2>6. TypedOK'
    BY <1>0, <2>1, <2>2, <2>3, <2>4, <2>5 DEF TypedOK
  <2>7. JobOK'
    BY <2>1, <2>3 DEF JobOK, Replacing, Copying, Recovering, Deleting
  <2>8. LoadOK'
    <3>1. config' = NoConfig => UNCHANGED inbox
      BY <1>0, <2>1, <2>2 DEF JobOK
    <3> QED BY <1>0, <2>1, <2>2, <2>4, <3>1 DEF LoadOK
  <2>9. FilesOK'
    BY <2>1 DEF FilesOK, Replacing, Copying, Recovering, Deleting
  <2>10. MemoryOK'
    <3>1. config' # NoConfig => config' = Readable'
      <4>1. CASE InMemory(success)
        BY <2>1, <4>1 DEF InMemory
      <4>2. CASE ~InMemory(success) /\ config # NoConfig
        <5>1. job.for \in {"save", "update"}
          <6>1. load.stage = "none"
            BY <1>0, <4>2 DEF LoadOK
          <6> QED BY <1>0, <6>1 DEF JobOK, TypedOK, Jobs
        <5>2. ~success
          BY <4>2, <5>1 DEF InMemory
        <5> QED BY <1>0, <2>1, <4>2, <5>2 DEF MemoryOK
      <4> QED BY <2>1, <4>1, <4>2
    <3>2. load'.stage = "validating" => load'.config \in {Readable', NoConfig}
      <4>1. load.stage # "validating"
        <5>1. CASE job.for \in {"save", "update"}
          BY <1>0, <5>1 DEF JobOK, LoadOK
        <5>2. CASE job.for \in {"load", "create"}
          BY <1>0, <5>2 DEF JobOK
        <5> QED BY <1>0, <5>1, <5>2 DEF JobOK, TypedOK, Jobs
      <4> QED BY <2>4, <4>1
    <3> QED BY <2>1, <2>3, <3>1, <3>2 DEF MemoryOK
  <2> QED BY <2>1, <2>6, <2>7, <2>8, <2>9, <2>10 DEF IInv
<1> QED BY <1>0, <1>1, <1>2 DEF TypedOK, Jobs

-----------------------------------------------------------------------------
(* The register.                                                           *)

\* Where a value is being written.
Begun == {"unlink", "toBak", "toCfg"}

\* Nothing is written before, or after.
LEMMA NotBegun ==
    ASSUME pc \notin Begun, pc' \notin Begun, Readable' = Readable
    PROVE  RegisterStep
BY DEF Begun, RegisterStep, BeingWritten

\* A writing goes on.
LEMMA GoesOn ==
    ASSUME pc \in Begun, pc' \in Begun, Readable' = Readable, job' = job
    PROVE  RegisterStep
BY DEF Begun, RegisterStep, BeingWritten

\* A writing is given up.
LEMMA GivenUp ==
    ASSUME IInv, pc \in Begun, pc' \notin Begun, Readable' = Readable
    PROVE  RegisterStep
<1>1. BeingWritten = job.config /\ BeingWritten' = NoConfig
  BY DEF Begun, BeingWritten
<1>2. job.config # NoConfig
  BY NoConfigIsNone DEF IInv, JobOK, Begun, Replacing
<1>3. Register!Abort
  BY <1>1, <1>2 DEF Register!Abort
<1> QED BY <1>3 DEF RegisterStep, Register!Next

\* Of the loading, while a handler writes.
LEMMA NotValidating ==
    ASSUME IInv, pc \in Replacing \cup Copying
    PROVE  load.stage # "validating"
<1>1. job.for \in {"save", "update", "create", "load"} /\ JobOK /\ LoadOK
  BY DEF IInv, JobOK, TypedOK, Jobs
<1>2. CASE job.for \in {"save", "update"}
  BY <1>1, <1>2 DEF JobOK, LoadOK
<1>3. CASE job.for \in {"load", "create"}
  BY <1>1, <1>3 DEF JobOK
<1> QED BY <1>1, <1>2, <1>3

\* From one operation to the next.
LEMMA GotoOK ==
    ASSUME IInv, pc \in Replacing \cup Copying, NEW next \in Replacing \cup Copying,
           Goto(next), cfg' \in Files, bak' \in Files
    PROVE  TypedOK' /\ JobOK' /\ LoadOK'
<1>1. pc' = next /\ UNCHANGED <<config, job, load, clients, inbox, updates>>
  BY DEF Goto
<1>2. TypedOK'
  BY <1>1 DEF IInv, TypedOK
<1>3. JobOK'
  BY <1>1 DEF IInv, JobOK, Replacing, Copying, Recovering, Deleting
<1>4. LoadOK'
  BY <1>1 DEF IInv, LoadOK, Replacing, Copying
<1> QED BY <1>2, <1>3, <1>4

\* An operation that fails leaves the files as they are.
LEMMA FailsOK ==
    ASSUME IInv, pc \in Replacing, NEW operation, Fails(operation)
    PROVE  IInv' /\ RegisterStep
<1>1. Wrote(FALSE) /\ UNCHANGED files /\ Readable' = Readable
  BY DEF Fails, files, Readable
<1>2. IInv' /\ pc' \in {"idle", "write", "delete"}
  <2>1. cfg' \in Files /\ bak' \in Files /\ ~(cfg' = Torn /\ Valid(bak'))
    BY <1>1 DEF IInv, TypedOK, FilesOK, files, Replacing, Recovering
  <2>2. pc \notin Copying
    BY DEF Replacing, Copying
  <2> QED BY <1>1, <2>1, <2>2, WroteOK
<1>3. CASE pc = "write"
  BY <1>1, <1>2, <1>3, NotBegun DEF Begun
<1>4. CASE pc \in Begun
  BY <1>1, <1>2, <1>4, GivenUp DEF Begun
<1> QED BY <1>2, <1>3, <1>4 DEF Replacing, Begun

-----------------------------------------------------------------------------
(* The operations on files.                                                *)

\* The temporary file is written, or not: the two files stay.
LEMMA WriteTmpOK ==
    ASSUME IInv, WriteTmp
    PROVE  IInv' /\ RegisterStep
<1>0. pc = "write" /\ pc \in Replacing
  BY DEF WriteTmp, Replacing
<1>1. CASE Fails("write")
  BY <1>0, <1>1, FailsOK
<1>2. CASE Goto(IF cfg = Absent THEN "toCfg" ELSE IF bak = Absent THEN "toBak" ELSE "unlink")
           /\ UNCHANGED files
  <2>1. PICK next \in Begun : Goto(next) /\ (next # "toCfg" => cfg # Absent)
    BY <1>2 DEF Begun
  <2>2. pc' = next /\ UNCHANGED <<cfg, bak, config, job, load, clients, inbox, updates>>
    BY <1>2, <2>1 DEF Goto, files
  <2>3. TypedOK' /\ JobOK' /\ LoadOK'
    BY <1>0, <2>1, <2>2, GotoOK DEF IInv, TypedOK, Begun, Replacing
  <2>4. FilesOK'
    BY <1>0, <2>1, <2>2 DEF IInv, FilesOK, Begun, Replacing, Copying, Recovering, Deleting
  <2>5. Readable' = Readable
    BY <2>2 DEF Readable
  <2>6. MemoryOK'
    BY <1>0, <2>2, <2>5 DEF IInv, MemoryOK, Begun, Copying
  <2>7. Register!Begin(job.config)
    <3>1. BeingWritten = NoConfig /\ BeingWritten' = job.config
      BY <1>0, <2>2 DEF BeingWritten, Begun
    <3> QED BY <2>5, <3>1 DEF Register!Begin
  <2>8. job.config \in Configs
    BY <1>0 DEF IInv, JobOK
  <2>9. RegisterStep
    BY <2>7, <2>8 DEF RegisterStep, Register!Next
  <2> QED BY <2>3, <2>4, <2>6, <2>9 DEF IInv
<1> QED BY <1>1, <1>2 DEF WriteTmp

\* The old backup is removed while the file itself is valid.
LEMMA UnlinkBakOK ==
    ASSUME IInv, UnlinkBak
    PROVE  IInv' /\ RegisterStep
<1>0. pc = "unlink" /\ cfg' = cfg /\ (bak' = Absent \/ bak' = bak) /\ Goto("toBak")
  BY DEF UnlinkBak, Unlinked
<1>1. pc' = "toBak" /\ UNCHANGED <<config, job, load, clients, inbox, updates>>
  BY <1>0 DEF Goto
<1>2. cfg \in Files /\ bak \in Files /\ bak' \in Files /\ cfg # Absent /\ ~(cfg = Torn /\ Valid(bak))
  BY <1>0, FileKinds DEF IInv, TypedOK, FilesOK, Replacing, Recovering
<1>3. TypedOK' /\ JobOK' /\ LoadOK'
  BY <1>0, <1>2, GotoOK DEF Replacing
<1>4. Readable' = Readable
  BY <1>0, <1>2, FileKinds DEF Readable
<1>5. FilesOK'
  BY <1>0, <1>1, <1>2, FileKinds DEF FilesOK, Replacing, Copying, Recovering, Deleting
<1>6. MemoryOK'
  BY <1>0, <1>1, <1>4 DEF IInv, MemoryOK, Copying
<1>7. RegisterStep
  BY <1>0, <1>1, <1>4, GoesOn DEF Begun
<1> QED BY <1>3, <1>5, <1>6, <1>7 DEF IInv

\* The file becomes the backup, and is readable there.
LEMMA RenameToBakOK ==
    ASSUME IInv, RenameToBak
    PROVE  IInv' /\ RegisterStep
<1>0. pc = "toBak" /\ pc \in Replacing
  BY DEF RenameToBak, Replacing
<1>1. CASE Fails("rename")
  BY <1>0, <1>1, FailsOK
<1>2. CASE bak' = cfg /\ cfg' = Absent /\ Goto("toCfg")
  <2>1. pc' = "toCfg" /\ UNCHANGED <<config, job, load, clients, inbox, updates>>
    BY <1>2 DEF Goto
  <2>2. cfg \in Files /\ bak \in Files /\ cfg # Absent /\ ~(cfg = Torn /\ Valid(bak))
    BY <1>0 DEF IInv, TypedOK, FilesOK, Replacing, Recovering
  <2>3. TypedOK' /\ JobOK' /\ LoadOK'
    BY <1>0, <1>2, <2>2, GotoOK, FileKinds DEF Replacing
  <2>4. Readable' = Readable
    BY <1>2, <2>2, FileKinds DEF Readable
  <2>5. FilesOK'
    BY <1>2, <2>1, FileKinds DEF FilesOK, Replacing, Copying, Recovering, Deleting
  <2>6. MemoryOK'
    BY <1>0, <2>1, <2>4 DEF IInv, MemoryOK, Copying
  <2>7. RegisterStep
    BY <1>0, <2>1, <2>4, GoesOn DEF Begun
  <2> QED BY <2>3, <2>5, <2>6, <2>7 DEF IInv
<1> QED BY <1>1, <1>2 DEF RenameToBak

\* The temporary file becomes the file: the save takes effect.
LEMMA RenameToCfgOK ==
    ASSUME IInv, RenameToCfg
    PROVE  IInv' /\ RegisterStep
<1>0. pc = "toCfg" /\ pc \in Replacing /\ job.config \in Configs /\ bak \in Files
  BY DEF RenameToCfg, Replacing, IInv, JobOK, TypedOK
<1>1. CASE Fails("rename")
  BY <1>0, <1>1, FailsOK
<1>2. CASE cfg' = Signed(2, job.config) /\ UNCHANGED bak
           /\ (IF bak = Absent THEN Goto("copy") ELSE Wrote(TRUE))
  <2>1. cfg' \in Files /\ Valid(cfg') /\ cfg' # Torn /\ cfg'.config = job.config
    BY <1>0, <1>2, FileKinds
  <2>2. Readable' = job.config
    BY <2>1 DEF Readable
  <2>3. IInv' /\ pc' \in {"idle", "write", "delete", "copy"}
    <3>1. CASE bak # Absent
      <4>1. Wrote(TRUE) /\ bak' \in Files
        BY <1>0, <1>2, <3>1
      <4> QED BY <1>0, <2>1, <2>2, <4>1, WroteOK
    <3>2. CASE bak = Absent
      <4>1. Goto("copy") /\ pc' = "copy" /\ UNCHANGED <<config, job, load, clients, inbox, updates>>
        BY <1>2, <3>2 DEF Goto
      <4>2. TypedOK' /\ JobOK' /\ LoadOK'
        BY <1>0, <1>2, <2>1, <4>1, GotoOK DEF Copying
      <4>3. FilesOK'
        BY <2>1, <4>1 DEF FilesOK, Replacing, Copying, Recovering, Deleting
      <4>4. load.stage # "validating"
        BY <1>0, NotValidating
      <4>5. MemoryOK'
        BY <1>0, <2>2, <4>1, <4>4 DEF IInv, MemoryOK, Copying
      <4> QED BY <4>1, <4>2, <4>3, <4>5 DEF IInv
    <3> QED BY <3>1, <3>2
  <2>4. Register!Commit
    <3>1. BeingWritten = job.config /\ BeingWritten' = NoConfig
      BY <1>0, <2>3 DEF BeingWritten
    <3> QED BY <1>0, <2>2, <3>1, NoConfigIsNone DEF Register!Commit
  <2> QED BY <2>3, <2>4 DEF RegisterStep, Register!Next
<1> QED BY <1>1, <1>2 DEF RenameToCfg

\* A copy to the backup begins: the backup is torn, the file is not.
LEMMA CopyToBakOK ==
    ASSUME IInv, CopyToBak
    PROVE  IInv' /\ RegisterStep
<1>0. pc = "copy" /\ bak' = Torn /\ cfg' = cfg /\ Goto("copying")
  BY DEF CopyToBak
<1>1. pc' = "copying" /\ UNCHANGED <<config, job, load, clients, inbox, updates>>
  BY <1>0 DEF Goto
<1>2. cfg \in Files /\ Valid(cfg) /\ cfg.config = job.config
  BY <1>0 DEF IInv, TypedOK, FilesOK, Copying
<1>3. TypedOK' /\ JobOK' /\ LoadOK'
  BY <1>0, <1>2, GotoOK, FileKinds DEF Copying
<1>4. Readable' = Readable
  BY <1>0, <1>2 DEF Readable
<1>5. FilesOK'
  BY <1>0, <1>1, <1>2, FileKinds DEF FilesOK, Replacing, Copying, Recovering, Deleting
<1>6. MemoryOK'
  BY <1>0, <1>1, <1>4 DEF IInv, MemoryOK, Copying
<1>7. RegisterStep
  BY <1>0, <1>1, <1>4, NotBegun DEF Begun
<1> QED BY <1>3, <1>5, <1>6, <1>7 DEF IInv

\* The copy ends, and has succeeded or failed.
LEMMA CopiedToBakOK ==
    ASSUME IInv, CopiedToBak
    PROVE  IInv' /\ RegisterStep
<1>0. pc = "copying" /\ cfg' = cfg /\ Wrote(TRUE) /\ (bak' = cfg \/ bak' \in FailedCopy)
  BY DEF CopiedToBak
<1>1. cfg \in Files /\ Valid(cfg) /\ cfg.config = job.config
  BY <1>0 DEF IInv, TypedOK, FilesOK, Copying
<1>2. bak' \in Files
  BY <1>0, <1>1, FileKinds DEF FailedCopy
<1>3. Readable' = job.config /\ Readable' = Readable
  BY <1>0, <1>1 DEF Readable
<1>4. IInv' /\ pc' \in {"idle", "write", "delete"}
  BY <1>0, <1>1, <1>2, <1>3, WroteOK, FileKinds DEF Copying
<1> QED BY <1>0, <1>3, <1>4, NotBegun DEF Begun

-----------------------------------------------------------------------------
(* Reading and loading.                                                    *)

\* Reading, for a load or for an update, finds the valid file or goes on to recover.
LEMMA ReadOK ==
    ASSUME IInv, Idle, NEW for \in {"load", "update"}, Read(for),
           UNCHANGED <<files, config, clients, inbox>>, updates' \in 0..MaxUpdates,
           for = "load" => load.stage = "access",
           for = "update" => config # NoConfig,
           ~(cfg = Torn /\ Valid(bak)) \/ for = "load"
    PROVE  IInv' /\ RegisterStep
<1>0. TypedOK /\ JobOK /\ LoadOK /\ MemoryOK /\ cfg' = cfg /\ bak' = bak /\ pc = "idle"
      /\ Readable' = Readable /\ ~job.migrate
  BY DEF IInv, Idle, files, Readable, JobOK, Replacing, Copying
<1>1. for = "load" => config = NoConfig
  BY <1>0 DEF LoadOK
<1>2. for = "update" => config = Readable'
  BY <1>0 DEF MemoryOK, Copying
<1>3. cfg' \in Files /\ bak' \in Files /\ UNCHANGED <<config, clients, inbox>>
  BY <1>0 DEF TypedOK
<1>4. CASE Valid(cfg)
  <2>1. Found(for, cfg) /\ cfg.config = Readable' /\ cfg' # Torn
    BY <1>0, <1>4, FileKinds DEF Read, Readable
  <2>2. IInv' /\ pc' \in {"idle", "write", "delete"}
    BY <1>0, <1>1, <1>2, <1>3, <1>4, <2>1, FoundOK
  <2> QED BY <1>0, <2>2, NotBegun DEF Begun
<1>5. CASE ~Valid(cfg) /\ Valid(bak)
  <2>1. pc' = "recover" /\ job' = [NoJob EXCEPT !.for = for] /\ load' = load
    BY <1>5 DEF Read
  <2>2. job' \in Jobs /\ job'.for = for /\ job'.migrate = FALSE
    BY <2>1 DEF NoJob, Jobs, Held
  <2>3. TypedOK'
    BY <1>0, <1>3, <2>1, <2>2 DEF TypedOK, Recovering
  <2>4. JobOK'
    BY <1>0, <1>3, <2>1, <2>2 DEF JobOK, Replacing, Copying, Recovering, Deleting
  <2>5. LoadOK'
    BY <1>0, <1>3, <2>1 DEF LoadOK
  <2>6. FilesOK'
    BY <1>0, <1>5, <2>1 DEF FilesOK, Replacing, Copying, Recovering, Deleting
  <2>7. MemoryOK'
    BY <1>0, <1>3, <2>1, <2>2 DEF MemoryOK, Copying
  <2>8. RegisterStep
    BY <1>0, <2>1, NotBegun DEF Begun
  <2> QED BY <2>3, <2>4, <2>5, <2>6, <2>7, <2>8 DEF IInv
<1>6. CASE ~Valid(cfg) /\ ~Valid(bak)
  <2>1. HasRead(for, NoConfig) /\ NoConfig = Readable'
    BY <1>0, <1>6 DEF Read, Readable
  <2>2. IInv' /\ pc' \in {"idle", "write", "delete"}
    BY <1>0, <1>1, <1>2, <1>3, <1>6, <2>1, HasReadOK
  <2> QED BY <1>0, <2>2, NotBegun DEF Begun
<1> QED BY <1>4, <1>5, <1>6

\* The copy of the backup over the file begins: the backup is valid.
LEMMA RecoverOK ==
    ASSUME IInv, Recover
    PROVE  IInv' /\ RegisterStep
<1>0. pc = "recover" /\ cfg' = Torn /\ pc' = "recovering"
      /\ UNCHANGED <<bak, config, job, load, clients, inbox, updates>>
  BY DEF Recover
<1>1. ~Valid(cfg) /\ Valid(bak)
  BY <1>0 DEF IInv, FilesOK, Recovering
<1>2. TypedOK'
  BY <1>0, FileKinds DEF IInv, TypedOK, Recovering
<1>3. JobOK'
  BY <1>0 DEF IInv, JobOK, Replacing, Copying, Recovering, Deleting
<1>4. LoadOK'
  BY <1>0 DEF IInv, LoadOK
<1>5. FilesOK'
  BY <1>0, <1>1, FileKinds DEF FilesOK, Replacing, Copying, Recovering, Deleting
<1>6. Readable' = Readable
  BY <1>0, <1>1, FileKinds DEF Readable
<1>7. MemoryOK'
  BY <1>0, <1>6 DEF IInv, MemoryOK, Copying
<1> QED BY <1>0, <1>2, <1>3, <1>4, <1>5, <1>6, <1>7, NotBegun DEF IInv, Begun

\* It ends; a copy that failed leaves no torn file.
LEMMA RecoveredOK ==
    ASSUME NoTornCopy, IInv, Recovered
    PROVE  IInv' /\ RegisterStep
<1>0. pc = "recovering" /\ UNCHANGED <<bak, config, clients, inbox, updates>>
  BY DEF Recovered
<1>1. ~Valid(cfg) /\ Valid(bak) /\ bak \in Files /\ job.for \in {"load", "update"} /\ ~job.migrate
      /\ Readable = bak.config /\ updates' \in 0..MaxUpdates /\ bak.config \in Configs
  BY <1>0, FileKinds DEF IInv, TypedOK, FilesOK, JobOK, Readable, Recovering, Replacing, Copying
<1>2. job.for = "load" => load.stage = "access" /\ config = NoConfig
  BY <1>0 DEF IInv, JobOK, LoadOK, Recovering
<1>3. job.for = "update" => config # NoConfig /\ config = Readable
  BY <1>0 DEF IInv, JobOK, MemoryOK, Recovering, Copying
<1>4. Readable' = Readable /\ pc' \in {"idle", "write", "delete"} /\ IInv'
  <2>1. CASE cfg' = bak /\ Found(job.for, bak)
    <3>1. Readable' = Readable /\ cfg' \in Files /\ bak' \in Files /\ ~(cfg' = Torn /\ Valid(bak'))
      BY <1>0, <1>1, <2>1, FileKinds DEF Readable
    <3> QED BY <1>0, <1>1, <1>2, <1>3, <2>1, <3>1, FoundOK
  <2>2. CASE "copy" \in MayFail /\ cfg' \in FailedCopy /\ HasRead(job.for, bak.config)
    <3>1. cfg' = Absent
      BY <2>2 DEF NoTornCopy, FailedCopy
    <3>2. Readable' = Readable /\ cfg' \in Files /\ bak' \in Files /\ ~(cfg' = Torn /\ Valid(bak'))
      BY <1>0, <1>1, <3>1, FileKinds DEF Readable
    <3> QED BY <1>0, <1>1, <1>2, <1>3, <2>2, <3>2, HasReadOK
  <2> QED BY <2>1, <2>2 DEF Recovered
<1> QED BY <1>0, <1>4, NotBegun DEF Begun

\* A load looks whether there is a file.
LEMMA AccessFileOK ==
    ASSUME IInv, AccessFile
    PROVE  IInv' /\ RegisterStep
<1>0. Idle /\ pc = "idle" /\ load.stage = "access" /\ UNCHANGED <<files, config, clients, inbox, updates>>
  BY DEF AccessFile, Idle
<1>1. updates' \in 0..MaxUpdates
  BY <1>0 DEF IInv, TypedOK
<1>2. CASE cfg # Absent
  BY <1>0, <1>1, <1>2, ReadOK DEF AccessFile
<1>3. CASE cfg = Absent
  <2>1. load' = [load EXCEPT !.stage = "creating"] /\ UNCHANGED <<pc, job, cfg, bak>>
    BY <1>0, <1>3 DEF AccessFile, files
  <2>2. load' \in Loads /\ load'.stage = "creating"
    BY <2>1 DEF IInv, TypedOK, Loads
  <2>3. TypedOK'
    BY <1>0, <2>1, <2>2 DEF IInv, TypedOK
  <2>4. JobOK'
    BY <1>0, <2>1, <2>2 DEF IInv, JobOK, Replacing, Copying, Recovering, Deleting
  <2>5. LoadOK'
    BY <1>0, <2>1 DEF IInv, LoadOK
  <2>6. FilesOK'
    BY <1>0, <1>3, <2>1, FileKinds DEF FilesOK, Replacing, Copying, Recovering, Deleting
  <2>7. Readable' = Readable
    BY <2>1 DEF Readable
  <2>8. MemoryOK'
    BY <1>0, <2>1, <2>2, <2>7 DEF IInv, MemoryOK, Copying
  <2> QED BY <1>0, <2>1, <2>3, <2>4, <2>5, <2>6, <2>7, <2>8, NotBegun DEF IInv, Begun
<1> QED BY <1>2, <1>3

\* Files neither of which can be read are removed.
LEMMA DeleteConfigAndBakOK ==
    ASSUME IInv, DeleteConfigAndBak
    PROVE  IInv' /\ RegisterStep
<1>0. pc \in Deleting /\ UNCHANGED <<config, job, clients, inbox, updates>>
      /\ (cfg' = Absent \/ cfg' = cfg) /\ (bak' = Absent \/ bak' = bak)
      /\ (\/ (pc' = "deleteBak" /\ load' = load)
          \/ (pc' = "idle" /\ load' = [load EXCEPT !.stage = "creating"]))
  BY DEF DeleteConfigAndBak, Unlinked, Deleting
<1>1. ~Valid(cfg) /\ ~Valid(bak) /\ load.stage = "access" /\ config = NoConfig /\ ~job.migrate
  BY <1>0 DEF IInv, FilesOK, JobOK, LoadOK, Deleting, Replacing, Copying
<1>2. cfg' \in Files /\ bak' \in Files /\ ~Valid(cfg') /\ ~Valid(bak')
  BY <1>0, <1>1, FileKinds DEF IInv, TypedOK
<1>3. load' \in Loads /\ load'.stage \in {"access", "creating"}
      /\ (pc' = "deleteBak" => load'.stage = "access")
  BY <1>0, <1>1 DEF IInv, TypedOK, Loads
<1>4. TypedOK'
  BY <1>0, <1>2, <1>3 DEF IInv, TypedOK, Deleting
<1>5. JobOK'
  BY <1>0, <1>1, <1>3 DEF JobOK, Replacing, Copying, Recovering, Deleting
<1>6. LoadOK'
  BY <1>0, <1>1, <1>3 DEF IInv, LoadOK
<1>7. FilesOK'
  BY <1>0, <1>2 DEF FilesOK, Replacing, Copying, Recovering, Deleting
<1>8. MemoryOK'
  BY <1>0, <1>1, <1>3 DEF MemoryOK
<1>9. Readable' = Readable
  BY <1>1, <1>2 DEF Readable
<1> QED BY <1>0, <1>4, <1>5, <1>6, <1>7, <1>8, <1>9, NotBegun DEF IInv, Begun, Deleting

\* Without a configuration, the default one is saved.
LEMMA CreateDefaultOK ==
    ASSUME IInv, CreateDefault
    PROVE  IInv' /\ RegisterStep
<1>0. pc = "idle" /\ load.stage = "creating" /\ pc' = "write"
      /\ job' = [for |-> "create", migrate |-> FALSE, config |-> DefaultConfig]
      /\ UNCHANGED <<cfg, bak, config, load, clients, inbox, updates>>
  BY DEF CreateDefault, Idle, files
<1>1. job' \in Jobs /\ job'.for = "create" /\ job'.migrate = FALSE /\ job'.config \in Configs
  BY <1>0, NoConfigIsNone DEF Jobs, Held
<1>2. TypedOK'
  BY <1>0, <1>1 DEF IInv, TypedOK, Replacing
<1>3. JobOK'
  BY <1>0, <1>1 DEF JobOK, Replacing, Copying, Recovering, Deleting
<1>4. LoadOK'
  BY <1>0 DEF IInv, LoadOK
<1>5. FilesOK'
  BY <1>0 DEF IInv, FilesOK, Replacing, Copying, Recovering, Deleting
<1>6. Readable' = Readable
  BY <1>0 DEF Readable
<1>7. MemoryOK'
  BY <1>0, <1>1, <1>6 DEF IInv, MemoryOK, LoadOK, Copying
<1> QED BY <1>0, <1>2, <1>3, <1>4, <1>5, <1>6, <1>7, NotBegun DEF IInv, Begun

\* The configuration that was read becomes the one in memory.
LEMMA ValidateOK ==
    ASSUME IInv, Validate
    PROVE  IInv' /\ RegisterStep
<1>0. pc = "idle" /\ pc' = pc /\ load.stage = "validating"
      /\ UNCHANGED <<cfg, bak, job, clients, updates>>
  BY DEF Validate, Idle, files
<1>1. load \in Loads /\ config = NoConfig /\ load.config \in {Readable, NoConfig} /\ ~job.migrate
  BY <1>0 DEF IInv, TypedOK, LoadOK, MemoryOK, JobOK, Replacing, Copying
<1>2. Readable' = Readable
  BY <1>0 DEF Readable
<1>3. FilesOK'
  BY <1>0 DEF IInv, FilesOK, Replacing, Copying, Recovering, Deleting
<1>4. RegisterStep
  BY <1>0, <1>2, NotBegun DEF Begun
<1>5. CASE load.config.settings \in Outside
  <2>1. load' = [load EXCEPT !.stage = "creating"] /\ UNCHANGED <<config, inbox>>
    BY <1>5 DEF Validate
  <2>2. load' \in Loads /\ load'.stage = "creating"
    BY <1>1, <2>1 DEF Loads
  <2>3. TypedOK'
    BY <1>0, <2>1, <2>2 DEF IInv, TypedOK
  <2>4. JobOK'
    BY <1>0, <1>1 DEF JobOK, Replacing, Copying, Recovering, Deleting
  <2>5. LoadOK'
    BY <1>0, <1>1, <2>1 DEF IInv, LoadOK
  <2>6. MemoryOK'
    BY <1>0, <1>1, <2>1, <2>2 DEF MemoryOK
  <2> QED BY <1>3, <1>4, <2>3, <2>4, <2>5, <2>6 DEF IInv
<1>6. CASE load.config.settings \notin Outside
  <2>1. config' = load.config /\ load' = NotLoading
        /\ Send(load.asker, [action |-> "editorConfigLoaded", config |-> load.config])
    BY <1>6 DEF Validate
  <2>2. config' \in Held /\ load' \in Loads /\ load'.stage = "none"
    BY <1>1, <2>1 DEF Loads, NotLoading, Held
  <2>3. [action |-> "editorConfigLoaded", config |-> load.config] \in Messages
    BY <2>1, <2>2, MessageOf
  <2>4. inbox' \in [Clients -> Seq(Messages)]
    BY <2>1, <2>3, Sent DEF IInv, TypedOK
  <2>5. TypedOK'
    BY <1>0, <2>2, <2>4 DEF IInv, TypedOK
  <2>6. JobOK'
    BY <1>0, <1>1 DEF JobOK, Replacing, Copying, Recovering, Deleting
  <2>7. LoadOK'
    <3>1. ASSUME config' = NoConfig PROVE \A k \in Clients : inbox'[k] \in Seq(BareMessages)
      <4>1. [action |-> "editorConfigLoaded", config |-> load.config] \in BareMessages
        BY <2>1, <2>2, <3>1, MessageOf
      <4> QED BY <1>1, <2>1, <4>1, SentBare DEF IInv, TypedOK, LoadOK
    <3>2. \A k \in Clients : clients'[k].config.settings = NoSettings
      BY <1>0, <1>1 DEF IInv, LoadOK
    <3> QED BY <1>0, <2>2, <3>1, <3>2 DEF LoadOK
  <2>8. MemoryOK'
    BY <1>0, <1>1, <1>2, <2>1, <2>2 DEF MemoryOK
  <2> QED BY <1>3, <1>4, <2>5, <2>6, <2>7, <2>8 DEF IInv
<1> QED BY <1>5, <1>6

-----------------------------------------------------------------------------
(* The other handlers, the clients and crashes.                            *)

\* Neither the files nor what is in memory changes, nor the handler that runs.
LEMMA FilesAlone ==
    ASSUME IInv, UNCHANGED <<files, config, job, updates>>, pc' = pc,
           load' = load \/ (pc = "idle" /\ load'.stage \in {"none", "access"}),
           load' \in Loads, clients' \in [Clients -> Views], inbox' \in [Clients -> Seq(Messages)],
           LoadOK'
    PROVE  IInv' /\ RegisterStep
<1>1. Readable' = Readable /\ cfg' = cfg /\ bak' = bak
  BY DEF files, Readable
<1>2. TypedOK'
  BY <1>1 DEF IInv, TypedOK
<1>3. JobOK'
  BY DEF IInv, JobOK, Replacing, Copying, Recovering, Deleting
<1>4. FilesOK'
  BY <1>1 DEF IInv, FilesOK
<1>5. MemoryOK'
  BY <1>1 DEF IInv, MemoryOK
<1>6. BeingWritten' = BeingWritten
  BY DEF BeingWritten
<1> QED BY <1>1, <1>2, <1>3, <1>4, <1>5, <1>6 DEF IInv, RegisterStep

\* The time of an update is saved with the configuration that is read.
LEMMA UpdateDoneOK ==
    ASSUME IInv, UpdateDone
    PROVE  IInv' /\ RegisterStep
<1>1. Idle /\ config # NoConfig /\ Read("update") /\ UNCHANGED <<files, config, clients, inbox>>
  BY DEF UpdateDone
<1>2. updates' \in 0..MaxUpdates
  BY ConfigAssumption DEF UpdateDone, IInv, TypedOK
<1>3. ~(cfg = Torn /\ Valid(bak))
  BY <1>1 DEF IInv, FilesOK, Idle, Recovering
<1> QED BY <1>1, <1>2, <1>3, ReadOK

\* The loading that a handler starts, if any.
LEMMA Starts ==
    ASSUME IInv, NEW askers \in SUBSET Clients, CanLoad, StartLoad(askers)
    PROVE  load' \in Loads /\ load'.stage = "access" /\ config = NoConfig
BY DEF CanLoad, StartLoad, Loads, Held

\* A client connects, and holds no configuration.
LEMMA ConnectOK ==
    ASSUME IInv, NEW k \in Clients, Connect(k)
    PROVE  IInv' /\ RegisterStep
<1>1. pc = "idle" /\ clients' = [clients EXCEPT ![k].stage = "open"]
      /\ UNCHANGED <<files, config, pc, job, inbox, updates>>
  BY DEF Connect, Idle
<1>2. load' \in Loads /\ (load' = load \/ (load'.stage = "access" /\ config = NoConfig))
  <2>1. CASE CanLoad /\ StartLoad({})
    BY <2>1, Starts
  <2>2. CASE load' = load
    BY <2>2 DEF IInv, TypedOK
  <2> QED BY <2>1, <2>2 DEF Connect
<1>3. clients' \in [Clients -> Views] /\ inbox' \in [Clients -> Seq(Messages)]
      /\ \A j \in Clients : clients'[j].config = clients[j].config
  BY <1>1 DEF IInv, TypedOK, Views
<1>4. LoadOK'
  BY <1>1, <1>2, <1>3 DEF IInv, LoadOK
<1> QED BY <1>1, <1>2, <1>3, <1>4, FilesAlone

\* A client asks for the configuration.
LEMMA LoadEditorConfigOK ==
    ASSUME IInv, NEW k \in Clients, LoadEditorConfig(k)
    PROVE  IInv' /\ RegisterStep
<1>1. pc = "idle" /\ clients' = [clients EXCEPT ![k].stage = "asked"]
      /\ UNCHANGED <<files, config, pc, job, updates>>
  BY DEF LoadEditorConfig, Idle
<1>2. clients' \in [Clients -> Views]
      /\ \A j \in Clients : clients'[j].config = clients[j].config
  BY <1>1 DEF IInv, TypedOK, Views
<1>3. CASE CanLoad /\ StartLoad({k}) /\ UNCHANGED inbox
  <2>1. load' \in Loads /\ load'.stage = "access" /\ config = NoConfig
    BY <1>3, Starts
  <2>2. LoadOK' /\ inbox' \in [Clients -> Seq(Messages)]
    BY <1>1, <1>2, <1>3, <2>1 DEF IInv, TypedOK, LoadOK
  <2> QED BY <1>1, <1>2, <2>1, <2>2, FilesAlone
<1>4. CASE /\ Send({k}, [action |-> "editorConfigLoaded", config |-> config])
           /\ UNCHANGED load
  <2>1. config \in Held
    BY DEF IInv, TypedOK
  <2>2. inbox' \in [Clients -> Seq(Messages)]
    BY <1>4, <2>1, MessageOf, Sent DEF IInv, TypedOK
  <2>3. ASSUME config = NoConfig PROVE \A j \in Clients : inbox'[j] \in Seq(BareMessages)
    <3>1. [action |-> "editorConfigLoaded", config |-> config] \in BareMessages
      BY <2>1, <2>3, MessageOf
    <3> QED BY <1>4, <2>3, <3>1, SentBare DEF IInv, TypedOK, LoadOK
  <2>4. LoadOK' /\ load' \in Loads
    BY <1>1, <1>2, <1>4, <2>3 DEF IInv, TypedOK, LoadOK
  <2> QED BY <1>1, <1>2, <1>4, <2>2, <2>4, FilesAlone
<1> QED BY <1>3, <1>4 DEF LoadEditorConfig

\* A client saves the configuration it shows.
LEMMA SaveEditorConfigOK ==
    ASSUME IInv, NEW k \in Clients, SaveEditorConfig(k)
    PROVE  IInv' /\ RegisterStep
<1>0. pc = "idle" /\ clients' = [clients EXCEPT ![k].dirty = FALSE]
      /\ UNCHANGED <<files, config, load, inbox, updates>>
  BY DEF SaveEditorConfig, Idle
<1>1. clients' \in [Clients -> Views]
      /\ \A j \in Clients : clients'[j].config = clients[j].config
  BY <1>0 DEF IInv, TypedOK, Views
<1>2. LoadOK' /\ load' \in Loads /\ inbox' \in [Clients -> Seq(Messages)]
  <2>1. pc' # "down"
    BY <1>0 DEF SaveEditorConfig
  <2> QED BY <1>0, <1>1, <2>1 DEF IInv, TypedOK, LoadOK
<1>3. CASE ~HasProject(clients[k].config)
  BY <1>0, <1>1, <1>2, <1>3, FilesAlone DEF SaveEditorConfig
<1>4. CASE HasProject(clients[k].config)
  <2>1. pc' = "write" /\ cfg' = cfg /\ bak' = bak
        /\ job' = [for |-> "save", migrate |-> FALSE, config |-> Saved(clients[k].config)]
    BY <1>0, <1>4 DEF SaveEditorConfig, files
  <2>2. clients[k].config.settings # NoSettings /\ config # NoConfig
    BY <1>4 DEF HasProject, IInv, LoadOK
  <2>3. Saved(clients[k].config) \in Configs
    <3>1. clients[k].config \in Configs
      BY <2>2 DEF IInv, TypedOK, Views, Configs
    <3>2. config.lastUpdate \in 0..MaxUpdates
      BY <2>2 DEF IInv, TypedOK, Held, Configs
    <3> QED BY <3>1, <3>2, Updated DEF Saved
  <2>4. job' \in Jobs /\ job'.for = "save" /\ job'.migrate = FALSE /\ job'.config \in Configs
    BY <2>1, <2>3 DEF Jobs, Held
  <2>5. TypedOK'
    BY <1>0, <1>1, <2>1, <2>4 DEF IInv, TypedOK, Replacing
  <2>6. JobOK'
    BY <1>0, <2>1, <2>2, <2>4 DEF JobOK, Replacing, Copying, Recovering, Deleting
  <2>7. FilesOK'
    BY <1>0, <2>1, <2>2 DEF IInv, FilesOK, Replacing, Copying, Recovering, Deleting
  <2>8. Readable' = Readable
    BY <2>1 DEF Readable
  <2>9. MemoryOK'
    BY <1>0, <2>1, <2>4, <2>8 DEF IInv, MemoryOK, Copying
  <2> QED BY <1>0, <1>2, <2>1, <2>5, <2>6, <2>7, <2>8, <2>9, NotBegun DEF IInv, Begun
<1> QED BY <1>3, <1>4

\* A client leaves with its messages.
LEMMA DisconnectOK ==
    ASSUME IInv, NEW k \in Clients, Disconnect(k)
    PROVE  IInv' /\ RegisterStep
<1>0. pc = "idle" /\ clients' = [clients EXCEPT ![k] = Closed] /\ inbox' = [inbox EXCEPT ![k] = <<>>]
      /\ load' = [load EXCEPT !.asker = @ \ {k}] /\ UNCHANGED <<files, config, pc, job, updates>>
  BY DEF Disconnect, Idle
<1>1. Closed \in Views /\ Closed.config.settings = NoSettings
  BY ConfigAssumption DEF Closed, Views, NoConfig
<1>2. <<>> \in Seq(Messages) /\ <<>> \in Seq(BareMessages)
  BY EmptySeq
<1>3. clients' \in [Clients -> Views] /\ inbox' \in [Clients -> Seq(Messages)]
  BY <1>0, <1>1, <1>2 DEF IInv, TypedOK
<1>4. load' \in Loads /\ load'.stage = load.stage /\ load'.config = load.config
  BY <1>0 DEF IInv, TypedOK, Loads
<1>5. LoadOK'
  BY <1>0, <1>1, <1>2, <1>3, <1>4 DEF IInv, TypedOK, LoadOK
<1>6. Readable' = Readable /\ cfg' = cfg /\ bak' = bak
  BY <1>0 DEF files, Readable
<1>7. TypedOK' /\ JobOK'
  BY <1>0, <1>3, <1>4, <1>6 DEF IInv, TypedOK, JobOK, Replacing, Copying, Recovering, Deleting
<1>8. FilesOK' /\ MemoryOK'
  BY <1>0, <1>4, <1>6 DEF IInv, FilesOK, MemoryOK
<1> QED BY <1>0, <1>5, <1>6, <1>7, <1>8, NotBegun DEF IInv, Begun

\* A client takes the configuration it is sent.
LEMMA ReceiveMessageOK ==
    ASSUME IInv, NEW k \in Clients, ReceiveMessage(k)
    PROVE  IInv' /\ RegisterStep
<1>0. inbox[k] # <<>> /\ inbox' = [inbox EXCEPT ![k] = Tail(@)]
      /\ UNCHANGED <<files, config, pc, job, load, updates>>
  BY DEF ReceiveMessage
<1>1. inbox[k] \in Seq(Messages) /\ clients \in [Clients -> Views]
  BY DEF IInv, TypedOK
<1>2. PICK m \in Messages : m = Head(inbox[k])
  BY <1>0, <1>1, HeadTailProperties
<1>3. PICK v : clients' = [clients EXCEPT ![k] = v]
               /\ v = IF m.action = "editorConfigLoaded"
                      THEN [stage |-> "loaded", config |-> m.config, dirty |-> TRUE]
                      ELSE [clients[k] EXCEPT !.config.lastUpdate = m.config.lastUpdate,
                                              !.dirty = TRUE]
  BY <1>2 DEF ReceiveMessage
<1>4. m.config \in Held /\ m.config \in [settings : Settings \cup {NoSettings},
                                         lastUpdate : 0..MaxUpdates]
  BY ConfigAssumption DEF Messages, Held, Configs, NoConfig
<1>5. v \in Views /\ (v.config = m.config \/ v.config.settings = clients[k].config.settings)
  BY <1>1, <1>3, <1>4 DEF Views
<1>6. clients' \in [Clients -> Views] /\ inbox' \in [Clients -> Seq(Messages)]
  <2>1. Tail(inbox[k]) \in Seq(Messages)
    BY <1>0, <1>1, HeadTailProperties
  <2> QED BY <1>0, <1>1, <1>3, <1>5, <2>1 DEF IInv, TypedOK
<1>7. LoadOK'
  <2>1. SUFFICES ASSUME config = NoConfig
                 PROVE  \A j \in Clients : clients'[j].config.settings = NoSettings
                                           /\ inbox'[j] \in Seq(BareMessages)
    BY <1>0 DEF IInv, LoadOK
  <2>2. inbox[k] \in Seq(BareMessages)
    BY <2>1 DEF IInv, LoadOK
  <2>3. Tail(inbox[k]) \in Seq(BareMessages) /\ m \in BareMessages
    BY <1>0, <1>2, <2>2, HeadTailProperties
  <2>4. v.config.settings = NoSettings
    BY <1>5, <2>1, <2>3 DEF IInv, LoadOK, BareMessages, NoConfig
  <2> QED BY <1>0, <1>1, <1>3, <2>1, <2>3, <2>4 DEF IInv, LoadOK, TypedOK
<1>8. load' \in Loads
  BY <1>0 DEF IInv, TypedOK
<1> QED BY <1>0, <1>6, <1>7, <1>8, FilesAlone

\* A client changes its configuration; the server knows nothing of it yet.
LEMMA EditOK ==
    ASSUME IInv, NEW k \in Clients, NEW s \in Settings, Edit(k, s)
    PROVE  IInv' /\ RegisterStep
<1>0. clients[k].config.settings # NoSettings
      /\ clients' = [clients EXCEPT ![k].config.settings = s, ![k].dirty = TRUE]
      /\ UNCHANGED <<files, config, pc, job, load, inbox, updates>>
  BY DEF Edit
<1>1. clients' \in [Clients -> Views] /\ config # NoConfig
  BY <1>0 DEF IInv, TypedOK, Views, LoadOK
<1>2. LoadOK' /\ load' \in Loads /\ inbox' \in [Clients -> Seq(Messages)]
  BY <1>0, <1>1 DEF IInv, LoadOK, TypedOK
<1> QED BY <1>0, <1>1, <1>2, FilesAlone

\* A crash loses memory and the operation under way, and no file.
LEMMA CrashOK ==
    ASSUME IInv, Crash
    PROVE  IInv' /\ RegisterStep
<1>0. pc' = "down" /\ config' = NoConfig /\ job' = NoJob /\ load' = NotLoading
      /\ clients' = [k \in Clients |-> Closed] /\ inbox' = [k \in Clients |-> <<>>]
      /\ UNCHANGED <<cfg, bak, updates>>
  BY DEF Crash, files
<1>1. Closed \in Views /\ Closed.config.settings = NoSettings
  BY ConfigAssumption DEF Closed, Views, NoConfig
<1>2. <<>> \in Seq(Messages) /\ <<>> \in Seq(BareMessages)
  BY EmptySeq
<1>3. job' \in Jobs /\ job'.migrate = FALSE /\ load' \in Loads /\ load'.stage = "none"
  BY <1>0 DEF NoJob, Jobs, NotLoading, Loads, Held
<1>4. TypedOK'
  BY <1>0, <1>1, <1>2, <1>3 DEF IInv, TypedOK, Held
<1>5. JobOK'
  BY <1>0, <1>3 DEF JobOK, Replacing, Copying, Recovering, Deleting
<1>6. LoadOK'
  BY <1>0, <1>1, <1>2 DEF LoadOK
<1>7. FilesOK' /\ MemoryOK'
  BY <1>0, <1>3 DEF FilesOK, MemoryOK, Replacing, Copying, Recovering, Deleting
<1>8. Readable' = Readable
  BY <1>0 DEF Readable
<1>9. RegisterStep
  BY <1>0, <1>8, NotBegun, GivenUp DEF Begun
<1> QED BY <1>4, <1>5, <1>6, <1>7, <1>9 DEF IInv

\* The server starts with the files it finds.
LEMMA RestartOK ==
    ASSUME IInv, Restart
    PROVE  IInv' /\ RegisterStep
<1>0. pc = "down" /\ pc' = "idle" /\ load = NotLoading /\ config = NoConfig
      /\ UNCHANGED <<cfg, bak, config, job, load, clients, inbox, updates>>
  BY DEF Restart, files, IInv, JobOK, LoadOK
<1>1. TypedOK'
  BY <1>0 DEF IInv, TypedOK
<1>2. JobOK'
  BY <1>0 DEF IInv, JobOK, Replacing, Copying, Recovering, Deleting
<1>3. LoadOK'
  BY <1>0 DEF IInv, LoadOK
<1>4. Readable' = Readable
  BY <1>0 DEF Readable
<1>5. FilesOK' /\ MemoryOK'
  BY <1>0, <1>4 DEF IInv, FilesOK, MemoryOK, NotLoading, Replacing, Copying, Recovering, Deleting
<1> QED BY <1>0, <1>1, <1>2, <1>3, <1>4, <1>5, NotBegun DEF IInv, Begun

-----------------------------------------------------------------------------
(* The theorems.                                                           *)

\* The server starts without clients, with whatever files there are.
LEMMA InitOK == Init => IInv /\ Register!Init
<1> SUFFICES ASSUME Init PROVE IInv /\ Register!Init
  OBVIOUS
<1>0. cfg \in {Absent, Torn, Signed(1, DefaultConfig)} /\ bak = Absent
      /\ config = NoConfig /\ pc = "down" /\ job = NoJob /\ load = NotLoading
      /\ clients = [k \in Clients |-> Closed] /\ inbox = [k \in Clients |-> <<>>] /\ updates = 0
  BY DEF Init
<1>1. Closed \in Views /\ Closed.config.settings = NoSettings
  BY ConfigAssumption DEF Closed, Views, NoConfig
<1>2. <<>> \in Seq(Messages) /\ <<>> \in Seq(BareMessages)
  BY EmptySeq
<1>3. job \in Jobs /\ job.migrate = FALSE /\ load \in Loads /\ load.stage = "none"
  BY <1>0 DEF NoJob, Jobs, NotLoading, Loads, Held
<1>4. TypedOK
  <2>1. cfg \in Files /\ bak \in Files
    BY <1>0, FileKinds, NoConfigIsNone
  <2>2. 0 \in 0..MaxUpdates
    BY ConfigAssumption
  <2> QED BY <1>0, <1>1, <1>2, <1>3, <2>1, <2>2 DEF TypedOK, Held
<1>5. JobOK
  BY <1>0, <1>3 DEF JobOK, Replacing, Copying, Recovering, Deleting
<1>6. LoadOK
  BY <1>0, <1>1, <1>2 DEF LoadOK
<1>7. FilesOK /\ MemoryOK
  BY <1>0, <1>3 DEF FilesOK, MemoryOK, Replacing, Copying, Recovering, Deleting
<1>8. Register!Init
  <2>1. BeingWritten = NoConfig
    BY <1>0 DEF BeingWritten
  <2> QED BY <1>4, <2>1, ReadableHeld DEF Register!Init, Held
<1> QED BY <1>4, <1>5, <1>6, <1>7, <1>8 DEF IInv

\* A step of any handler, client or crash.
LEMMA NextOK ==
    ASSUME NoTornCopy, IInv, [Next]_vars
    PROVE  IInv' /\ RegisterStep
<1>1. CASE Writing
  BY <1>1, WriteTmpOK, UnlinkBakOK, RenameToBakOK, RenameToCfgOK, CopyToBakOK, CopiedToBakOK
  DEF Writing
<1>2. CASE Recover \/ Recovered \/ AccessFile \/ DeleteConfigAndBak \/ CreateDefault
           \/ Validate \/ UpdateDone
  BY <1>2, RecoverOK, RecoveredOK, AccessFileOK, DeleteConfigAndBakOK, CreateDefaultOK,
     ValidateOK, UpdateDoneOK
<1>3. CASE Crash \/ Restart
  BY <1>3, CrashOK, RestartOK
<1>4. CASE \E k \in Clients : Client(k)
  <2>1. PICK k \in Clients : Client(k)
    BY <1>4
  <2> QED BY <2>1, ConnectOK, LoadEditorConfigOK, SaveEditorConfigOK, DisconnectOK,
             ReceiveMessageOK, EditOK DEF Client
<1>5. CASE UNCHANGED vars
  <2>1. UNCHANGED <<cfg, bak, config, pc, job, load, clients, inbox, updates>>
    BY <1>5 DEF vars
  <2>2. Readable' = Readable /\ BeingWritten' = BeingWritten
    BY <2>1 DEF Readable, BeingWritten
  <2> QED BY <2>1, <2>2 DEF IInv, TypedOK, JobOK, LoadOK, FilesOK, MemoryOK, RegisterStep
<1> QED BY <1>1, <1>2, <1>3, <1>4, <1>5 DEF Next, Server

\* The invariant of the files, of what is in memory and of the handler that runs
\* holds in every state, if a copy that fails leaves no torn file.
THEOREM Inductive == NoTornCopy => (Spec => []IInv)
<1> SUFFICES ASSUME NoTornCopy PROVE Spec => []IInv
  OBVIOUS
<1>1. Init => IInv
  BY InitOK
<1>2. IInv /\ [Next]_vars => IInv'
  BY NextOK
<1> QED BY <1>1, <1>2, PTL DEF Spec

\* Every variable stays in its domain; nothing but configurations gets into the
\* files (writeSignedFileAtomic, handleSaveEditorConfig).
THEOREM TypeCorrect == NoTornCopy => (Spec => []TypeOK)
<1> SUFFICES ASSUME NoTornCopy PROVE Spec => []TypeOK
  OBVIOUS
<1>1. IInv => TypeOK
  BY Typed DEF IInv
<1>2. Spec => []IInv
  BY Inductive
<1> QED BY <1>1, <1>2, PTL

\* Between two handlers the configuration in memory is the one a restart would
\* find (editorConfig, readSignedConfigWithRecovery).
THEOREM MemoryMatchesFiles == NoTornCopy => (Spec => []MemoryOnDisk)
<1> SUFFICES ASSUME NoTornCopy PROVE Spec => []MemoryOnDisk
  OBVIOUS
<1>1. IInv => MemoryOnDisk
  BY DEF IInv, MemoryOK, MemoryOnDisk, Idle, Copying
<1>2. Spec => []IInv
  BY Inductive
<1> QED BY <1>1, <1>2, PTL

\* The two files are one register: whatever fails or is killed, a restart finds
\* the old configuration or the new one (writeSignedFileAtomic).
THEOREM Implements == NoTornCopy => (Spec => ImplementsRegister)
<1> SUFFICES ASSUME NoTornCopy PROVE Spec => ImplementsRegister
  OBVIOUS
<1>1. Init => Register!Init
  BY InitOK
<1>2. IInv /\ [Next]_vars => [Register!Next]_<<Readable, BeingWritten>>
  BY NextOK DEF RegisterStep
<1>3. Spec => []IInv
  BY Inductive
<1> QED BY <1>1, <1>2, <1>3, PTL DEF Spec, ImplementsRegister, Register!Spec
=============================================================================
