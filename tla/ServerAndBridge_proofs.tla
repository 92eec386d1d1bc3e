----------------------- MODULE ServerAndBridge_proofs -----------------------
(***************************************************************************)
(* Proofs about the two sides of CommandEngine.                            *)
(*                                                                         *)
(* CommandServer, for any configurations, number of bar data, lengths of   *)
(* the pipes, and whether or not commands fail of their own: backtests run *)
(* on whole bar data, and the two threads implement CommandEngine.         *)
(*                                                                         *)
(* EngineBridge, for any windows, configurations and number of commands:   *)
(* a success or a failure always finds who asked for it, and with one      *)
(* window a backtest executes on the bar data that it shows.               *)
(***************************************************************************)
EXTENDS CommandServer, EngineBridge, SequenceTheorems, FiniteSetTheorems, TLAPS

-----------------------------------------------------------------------------
(* CommandServer.  The inductive invariant.                                *)

Commands == Runs \cup {Fetch}

IdlePcs  == {"testing", "locking", "locked", "blocking", "waiting", "joining", "exited"}
UsingPcs == {"loading", "configuring", "backtesting"}
RunPcs   == {"starting", "preparing", "adding", "ending"} \cup UsingPcs
FetchPcs == {"fetchStarting", "fetching", "fetched"}

\* The reader holds a command only to publish it, and stops reading at the exit.
ReaderOK ==
    /\ stdin \in Seq(Lines) /\ stdout \in Seq(Outputs)
    /\ readerPc \in {"reading", "publishing", "notifying", "closing", "ended"}
    /\ IF readerPc = "publishing" THEN line \in Commands ELSE line = None
    /\ shouldExit \in BOOLEAN /\ stopRequested \in BOOLEAN
    /\ readerPc \in {"reading", "publishing", "notifying"} => ~shouldExit
    /\ pendingCommand \in Commands \cup {None}

\* The main thread executes what it has taken.
MainOK ==
    /\ mainPc \in IdlePcs \cup RunPcs \cup FetchPcs
    /\ mainPc \in IdlePcs => command = None
    /\ mainPc \in RunPcs => command \in Runs
    /\ mainPc \in FetchPcs => command = Fetch

\* Unless an error is noted, what the handler holds is nothing, a part of what is being
\* added, or all the bar data of one configuration.
BarsOK ==
    /\ isFirstAdding \in BOOLEAN /\ addingError \in BOOLEAN /\ fundingLoads \in 0..2
    /\ barData \in Seq(Configs) /\ Len(barData) <= NumBarData
    /\ isFirstAdding => barData = <<>> /\ ~addingError
    /\ mainPc = "adding" =>
        /\ ~isFirstAdding /\ ~addingError /\ Len(barData) < NumBarData
        /\ \A i \in 1..Len(barData) : barData[i] = command.config
    /\ mainPc # "adding" /\ ~isFirstAdding /\ ~addingError => \E c \in Configs : barData = AllOf(c)
    /\ mainPc \in UsingPcs =>
        /\ ~isFirstAdding /\ ~addingError
        /\ command.clear => barData = AllOf(command.config)

IInv == ReaderOK /\ MainOK /\ BarsOK

\* A step, seen from outside.
SeenStep == Engine!Next \/ UNCHANGED Engine!vars

-----------------------------------------------------------------------------
(* The lines and the commands.                                             *)

\* Commands are told apart.
LEMMA Distinct ==
    /\ Fetch # Stop /\ Fetch # Exit /\ Stop # Exit /\ None # Fetch
    /\ None \notin Runs /\ Fetch \notin Runs /\ Stop \notin Runs /\ Exit \notin Runs
    /\ \A c \in Runs : c.config \in Configs /\ c.clear \in BOOLEAN
<1>1. \A c \in Runs : c.cmd = "runSingleBacktesting" /\ c.config \in Configs /\ c.clear \in BOOLEAN
  <2> TAKE c \in Runs
  <2>1. PICK d \in Configs, clear \in BOOLEAN : c = Run(d, clear)
    BY DEF Runs
  <2> QED BY <2>1 DEF Run
<1>2. Fetch.cmd = "fetchOrUpdateBarData" /\ Stop.cmd = "stopSingleBacktesting"
      /\ Exit.cmd = "shutdown" /\ None.cmd = "none"
  BY DEF Fetch, Stop, Exit, None
<1> QED BY <1>1, <1>2

\* The absence of a command, which also stands for that of bar data, is no configuration.
LEMMA NoneIsNoConfig == None \notin Configs
BY ServerAssumption DEF None

\* Bar data appended to what has been added: they are whole with the last one.
LEMMA Appended ==
    ASSUME NEW s \in Seq(Configs), NEW c \in Configs, Len(s) < NumBarData,
           \A i \in 1..Len(s) : s[i] = c
    PROVE  /\ Append(s, c) \in Seq(Configs) /\ Len(Append(s, c)) = Len(s) + 1
           /\ \A i \in 1..Len(s) + 1 : Append(s, c)[i] = c
           /\ Len(Append(s, c)) = NumBarData => Append(s, c) = AllOf(c)
<1>1. /\ Append(s, c) \in Seq(Configs) /\ Len(Append(s, c)) = Len(s) + 1
      /\ \A i \in 1..Len(s) : Append(s, c)[i] = s[i]
      /\ Append(s, c)[Len(s) + 1] = c
  BY AppendProperties
<1>2. Len(s) \in Nat
  OBVIOUS
<1>3. \A i \in 1..Len(s) + 1 : Append(s, c)[i] = c
  BY <1>1, <1>2
<1>4. ASSUME Len(Append(s, c)) = NumBarData PROVE Append(s, c) = AllOf(c)
  <2>1. NumBarData \in Nat /\ Len(s) + 1 = NumBarData
    BY <1>1, <1>4, ServerAssumption
  <2>2. AllOf(c) \in Seq(Configs) /\ Len(AllOf(c)) = NumBarData
        /\ \A i \in 1..NumBarData : AllOf(c)[i] = c
    BY <2>1 DEF AllOf
  <2>3. \A i \in 1..NumBarData : Append(s, c)[i] = AllOf(c)[i]
    BY <1>3, <2>1, <2>2
  <2> QED BY <1>1, <1>4, <2>2, <2>3, SeqEqual
<1> QED BY <1>1, <1>3, <1>4

\* All the bar data of a configuration are so many, and the first is of it.
LEMMA AllOfIt ==
    ASSUME NEW c \in Configs
    PROVE  AllOf(c) \in Seq(Configs) /\ Len(AllOf(c)) = NumBarData /\ AllOf(c)[1] = c
BY ServerAssumption DEF AllOf

-----------------------------------------------------------------------------
(* The steps: each keeps the invariant and is a step of the engine, or none. *)

\* At first nothing is read and nothing is cached.
LEMMA InitOK == Init => IInv /\ Engine!Init
<1> SUFFICES ASSUME Init PROVE IInv /\ Engine!Init
  OBVIOUS
<1>1. ReaderOK
  BY EmptySeq DEF Init, ReaderOK
<1>2. MainOK
  BY DEF Init, MainOK, IdlePcs, RunPcs, UsingPcs, FetchPcs
<1>3. BarsOK
  <2>1. barData \in Seq(Configs) /\ Len(barData) = 0
    BY EmptySeq DEF Init
  <2>2. barData = <<>> /\ isFirstAdding = TRUE /\ addingError = FALSE /\ fundingLoads = 0
        /\ mainPc = "testing"
    BY DEF Init
  <2>3. 0 <= NumBarData
    BY ServerAssumption
  <2>4. isFirstAdding \in BOOLEAN /\ addingError \in BOOLEAN /\ fundingLoads \in 0..2
    <3>1. isFirstAdding \in BOOLEAN /\ addingError \in BOOLEAN
      BY <2>2, Zenon
    <3> QED BY <2>2, <3>1
  <2>5. mainPc # "adding" /\ mainPc \notin UsingPcs /\ isFirstAdding
    BY <2>2 DEF UsingPcs
  <2>6. Len(barData) <= NumBarData
    BY <2>1, <2>3
  <2> QED BY <2>1, <2>2, <2>4, <2>5, <2>6, Zenon DEF BarsOK
<1>4. Pipe = <<>> /\ Phase = "idle" /\ Bars = None
  BY ServerAssumption DEF Init, Pipe, Phase, Bars
<1> QED BY <1>1, <1>2, <1>3, <1>4 DEF Init, IInv, Engine!Init

\* What the main thread does not touch.
LEMMA QuietOK ==
    ASSUME IInv, Quiet, UNCHANGED sharedVars
    PROVE  ReaderOK' /\ Pipe' = Pipe
BY DEF IInv, ReaderOK, Quiet, sharedVars, Pipe

\* A line written to the standard output does not concern the reader; the engine answers.
LEMMA OutputOK ==
    ASSUME IInv, NEW o \in Outputs, Output(o)
    PROVE  ReaderOK' /\ Pipe' = Pipe /\ Engine!Answer(o)
<1>1. Append(stdout, o) \in Seq(Outputs)
  BY AppendProperties DEF IInv, ReaderOK
<1>2. stdout' = Append(stdout, o) /\ UNCHANGED <<stdin, readerPc, line, sharedVars>>
  BY DEF Output
<1>3. ReaderOK'
  BY <1>1, <1>2 DEF IInv, ReaderOK, sharedVars
<1>4. Pipe' = Pipe
  BY <1>2 DEF Pipe
<1> QED BY <1>2, <1>3, <1>4 DEF Engine!Answer, sharedVars

\* A main thread that moves among its idle places does nothing that is seen.
LEMMA IdleOK ==
    ASSUME IInv, mainPc \in IdlePcs, mainPc' \in IdlePcs, Quiet,
           UNCHANGED <<command, sharedVars, cores>>
    PROVE  IInv' /\ SeenStep
<1>1. ReaderOK' /\ Pipe' = Pipe
  BY QuietOK
<1>2. MainOK'
  BY DEF IInv, MainOK, IdlePcs, RunPcs, UsingPcs, FetchPcs
<1>3. BarsOK'
  BY DEF IInv, BarsOK, IdlePcs, UsingPcs, cores
<1>4. Phase' = Phase /\ Bars' = Bars
  BY DEF Phase, Bars, IdlePcs, cores
<1> QED BY <1>1, <1>2, <1>3, <1>4 DEF IInv, SeenStep, Engine!vars, Quiet, sharedVars

\* A line the reader takes: a stop or the exit counts at once, a command when published.
LEMMA ReadLineOK ==
    ASSUME IInv, ReadLine
    PROVE  IInv' /\ SeenStep
<1>0. stdin \in Seq(Lines) /\ stdin # <<>> /\ readerPc = "reading" /\ line = None /\ ~shouldExit
  BY DEF IInv, ReaderOK, ReadLine
<1>1. Head(stdin) \in Lines /\ Tail(stdin) \in Seq(Lines) /\ <<Head(stdin)>> \o Tail(stdin) = stdin
  <2>1. Head(stdin) \in Lines /\ Tail(stdin) \in Seq(Lines)
        /\ Len(Tail(stdin)) = Len(stdin) - 1 /\ Len(stdin) \in Nat /\ Len(stdin) > 0
        /\ \A i \in 1..Len(Tail(stdin)) : Tail(stdin)[i] = stdin[i + 1]
    BY <1>0, HeadTailProperties, EmptySeq
  <2> DEFINE h == <<Head(stdin)>>
             t == Tail(stdin)
  <2>2. h \in Seq(Lines) /\ Len(h) = 1 /\ h[1] = stdin[1]
    BY <2>1
  <2>3. t \in Seq(Lines) /\ Len(t) = Len(stdin) - 1
        /\ \A i \in 1..Len(t) : t[i] = stdin[i + 1]
    BY <2>1
  <2> HIDE DEF h, t
  <2>4. /\ h \o t \in Seq(Lines) /\ Len(h \o t) = Len(stdin)
        /\ \A i \in 1..Len(stdin) : (h \o t)[i] = IF i <= 1 THEN h[i] ELSE t[i - 1]
    <3>1. /\ h \o t \in Seq(Lines) /\ Len(h \o t) = Len(h) + Len(t)
          /\ \A i \in 1..Len(h) + Len(t) :
               (h \o t)[i] = IF i <= Len(h) THEN h[i] ELSE t[i - Len(h)]
      <4>1. h \in Seq(Lines) /\ t \in Seq(Lines)
        BY <2>2, <2>3
      <4> QED BY <4>1, ConcatProperties
    <3>2. Len(h) + Len(t) = Len(stdin)
      BY <2>1, <2>2, <2>3
    <3> QED BY <2>2, <3>1, <3>2
  <2>5. \A i \in 1..Len(stdin) : (h \o t)[i] = stdin[i]
    BY <2>1, <2>2, <2>3, <2>4
  <2>6. h \o t = stdin
    BY <1>0, <2>4, <2>5, SeqEqual
  <2> QED BY <2>1, <2>6 DEF h, t
<1>2. Pipe = stdin
  <2>1. Pipe = <<>> \o stdin
    BY <1>0 DEF Pipe
  <2> QED BY <1>0, <2>1, ConcatEmptySeq
<1>3. stdin' = Tail(stdin) /\ UNCHANGED <<stdout, mainPc, command, pendingCommand, cores>>
  BY DEF ReadLine
<1>4. MainOK' /\ BarsOK' /\ Phase' = Phase /\ Bars' = Bars
  <2>1. MainOK'
    BY <1>3 DEF IInv, MainOK
  <2>2. BarsOK'
    BY <1>3 DEF IInv, BarsOK, cores
  <2> QED BY <1>3, <2>1, <2>2 DEF Phase, Bars, cores
<1>5. CASE Head(stdin) = Stop
  <2>1. stopRequested' = TRUE /\ UNCHANGED <<readerPc, line, shouldExit>>
    BY <1>5, Distinct DEF ReadLine
  <2>2. ReaderOK'
    BY <1>0, <1>1, <1>3, <2>1 DEF IInv, ReaderOK
  <2>3. Pipe' = Tail(stdin)
    <3>1. Pipe' = <<>> \o Tail(stdin)
      BY <1>0, <1>3, <2>1 DEF Pipe
    <3> QED BY <1>1, <3>1, ConcatEmptySeq
  <2>4. Engine!Read
    BY <1>0, <1>2, <1>3, <1>4, <1>5, <2>1, <2>3, Distinct DEF Engine!Read, IInv, ReaderOK
  <2> QED BY <1>4, <2>2, <2>4 DEF IInv, SeenStep, Engine!Next, Engine!Step
<1>6. CASE Head(stdin) = Exit
  <2>1. shouldExit' = TRUE /\ readerPc' = "closing" /\ UNCHANGED <<line, stopRequested>>
    BY <1>6, Distinct DEF ReadLine
  <2>2. ReaderOK'
    BY <1>0, <1>1, <1>3, <2>1 DEF IInv, ReaderOK
  <2>3. Pipe' = Tail(stdin)
    <3>1. Pipe' = <<>> \o Tail(stdin)
      BY <1>0, <1>3, <2>1 DEF Pipe
    <3> QED BY <1>1, <3>1, ConcatEmptySeq
  <2>4. Engine!Read
    BY <1>0, <1>2, <1>3, <1>4, <1>6, <2>1, <2>3, Distinct DEF Engine!Read, IInv, ReaderOK
  <2> QED BY <1>4, <2>2, <2>4 DEF IInv, SeenStep, Engine!Next, Engine!Step
<1>7. CASE Head(stdin) \in Commands
  <2>1. line' = Head(stdin) /\ readerPc' = "publishing" /\ UNCHANGED <<stopRequested, shouldExit>>
    BY <1>7, Distinct DEF ReadLine, Commands
  <2>2. ReaderOK'
    BY <1>0, <1>1, <1>3, <1>7, <2>1 DEF IInv, ReaderOK
  <2>3. Pipe' = Pipe
    BY <1>1, <1>2, <1>3, <1>7, <2>1, Distinct DEF Pipe, Commands
  <2> QED BY <1>3, <1>4, <2>1, <2>2, <2>3 DEF IInv, SeenStep, Engine!vars
<1> QED BY <1>1, <1>5, <1>6, <1>7 DEF Lines, Commands

\* The command gets into the slot.
LEMMA PublishOK ==
    ASSUME IInv, Publish
    PROVE  IInv' /\ SeenStep
<1>1. /\ line \in Commands /\ stdin \in Seq(Lines) /\ ~shouldExit /\ readerPc = "publishing"
      /\ pendingCommand' = line /\ line' = None /\ readerPc' = "notifying"
      /\ UNCHANGED <<stdin, stdout, mainPc, command, stopRequested, shouldExit, cores>>
  BY DEF IInv, ReaderOK, Publish
<1>2. ReaderOK'
  BY <1>1 DEF IInv, ReaderOK
<1>3. MainOK' /\ Phase' = Phase /\ Bars' = Bars
  BY <1>1 DEF IInv, MainOK, Phase, Bars, cores
<1>4. BarsOK'
  BY <1>1 DEF IInv, BarsOK, cores
<1>5. line \in Lines /\ line # None /\ line # Stop /\ line # Exit
  BY <1>1, Distinct DEF Commands, Lines
<1>6. Pipe # <<>> /\ Head(Pipe) = line /\ Tail(Pipe) = stdin
  <2> DEFINE h == <<line>>
  <2>1. h \in Seq(Lines) /\ Len(h) = 1 /\ h[1] = line
    BY <1>5
  <2>2. Pipe = h \o stdin
    BY <1>5 DEF Pipe
  <2> HIDE DEF h
  <2>3. /\ Pipe \in Seq(Lines) /\ Len(Pipe) = 1 + Len(stdin)
        /\ \A i \in 1..1 + Len(stdin) : Pipe[i] = IF i <= 1 THEN h[i] ELSE stdin[i - 1]
    <3>1. /\ h \o stdin \in Seq(Lines) /\ Len(h \o stdin) = Len(h) + Len(stdin)
          /\ \A i \in 1..Len(h) + Len(stdin) :
               (h \o stdin)[i] = IF i <= Len(h) THEN h[i] ELSE stdin[i - Len(h)]
      BY <1>1, <2>1, ConcatProperties
    <3> QED BY <2>1, <2>2, <3>1
  <2>4. Len(stdin) \in Nat
    BY <1>1
  <2>5. Pipe # <<>> /\ Head(Pipe) = Pipe[1] /\ Tail(Pipe) \in Seq(Lines)
        /\ Len(Tail(Pipe)) = Len(Pipe) - 1
        /\ \A i \in 1..Len(Tail(Pipe)) : Tail(Pipe)[i] = Pipe[i + 1]
    <3>1. Pipe # <<>>
      BY <2>3, <2>4
    <3> QED BY <2>3, <3>1, HeadTailProperties
  <2>6. \A i \in 1..Len(stdin) : Tail(Pipe)[i] = stdin[i]
    BY <2>3, <2>4, <2>5
  <2>7. Tail(Pipe) = stdin
    <3>1. Len(Tail(Pipe)) = Len(stdin)
      BY <2>3, <2>4, <2>5
    <3> QED BY <1>1, <2>5, <2>6, <3>1, SeqEqual
  <2>8. Pipe[1] = line
    BY <2>1, <2>3, <2>4
  <2> QED BY <2>5, <2>7, <2>8
<1>7. Pipe' = stdin
  <2>1. Pipe' = <<>> \o stdin
    BY <1>1 DEF Pipe
  <2> QED BY <1>1, <2>1, ConcatEmptySeq
<1>8. Engine!Read
  BY <1>1, <1>3, <1>5, <1>6, <1>7 DEF Engine!Read, IInv, ReaderOK, Commands
<1> QED BY <1>2, <1>3, <1>4, <1>8 DEF IInv, SeenStep, Engine!Next, Engine!Step

\* The notification moves the main thread only from one idle place to another.
LEMMA NotifyOK ==
    ASSUME IInv, Notify
    PROVE  IInv' /\ SeenStep
<1>1. ReaderOK' /\ Pipe' = Pipe
  BY DEF IInv, ReaderOK, Notify, sharedVars, Pipe
<1>2. MainOK'
  BY DEF IInv, MainOK, Notify, IdlePcs, RunPcs, UsingPcs, FetchPcs
<1>3. BarsOK' /\ Bars' = Bars
  BY DEF IInv, BarsOK, Notify, UsingPcs, cores, Bars
<1>4. Phase' = Phase
  BY DEF Notify, Phase
<1> QED BY <1>1, <1>2, <1>3, <1>4 DEF IInv, SeenStep, Engine!vars, Notify, sharedVars

\* The command leaves the slot, or the main thread goes to sleep or to its end.
LEMMA TakeCommandOK ==
    ASSUME IInv, TakeCommand
    PROVE  IInv' /\ SeenStep
<1>1. mainPc = "locked" /\ Quiet /\ UNCHANGED <<stopRequested, shouldExit, cores>>
  BY DEF TakeCommand
<1>2. CASE shouldExit \/ pendingCommand = None
  <2>1. mainPc' \in IdlePcs /\ UNCHANGED <<command, pendingCommand>>
    BY <1>2 DEF TakeCommand, IdlePcs
  <2>2. mainPc \in IdlePcs /\ UNCHANGED sharedVars
    BY <1>1, <2>1 DEF IdlePcs, sharedVars
  <2> QED BY <1>1, <2>1, <2>2, IdleOK
<1>3. CASE ~shouldExit /\ pendingCommand # None
  <2>1. /\ command' = pendingCommand /\ pendingCommand' = None
        /\ mainPc' = IF pendingCommand = Fetch THEN "fetchStarting" ELSE "starting"
    BY <1>3 DEF TakeCommand
  <2>2. pendingCommand \in Commands
    BY <1>3 DEF IInv, ReaderOK
  <2>3. ReaderOK'
    BY <1>1, <2>1 DEF IInv, ReaderOK, Quiet
  <2>4. MainOK'
    BY <2>1, <2>2 DEF MainOK, Commands, IdlePcs, RunPcs, UsingPcs, FetchPcs
  <2>5. BarsOK' /\ Bars' = Bars
    BY <1>1, <2>1 DEF IInv, BarsOK, cores, UsingPcs, Bars
  <2>6. Pipe' = Pipe /\ Phase = "idle" /\ Phase' = "taken"
    BY <1>1, <2>1 DEF Pipe, Phase, Quiet
  <2>7. Engine!Take
    BY <1>1, <1>3, <2>1, <2>5, <2>6 DEF Engine!Take, Quiet
  <2> QED BY <2>3, <2>4, <2>5, <2>7 DEF IInv, SeenStep, Engine!Next, Engine!Step
<1> QED BY <1>2, <1>3

\* The command starts, and the flag is put down.
LEMMA StartOK ==
    ASSUME IInv, Start
    PROVE  IInv' /\ SeenStep
<1>1. /\ mainPc \in {"starting", "fetchStarting"} /\ stopRequested' = FALSE
      /\ mainPc' = IF mainPc = "starting" THEN "preparing" ELSE "fetching"
      /\ Quiet /\ UNCHANGED <<command, pendingCommand, shouldExit, cores>>
  BY DEF Start
<1>2. ReaderOK' /\ Pipe' = Pipe
  BY <1>1 DEF IInv, ReaderOK, Quiet, Pipe
<1>3. MainOK'
  BY <1>1 DEF IInv, MainOK, IdlePcs, RunPcs, UsingPcs, FetchPcs
<1>4. BarsOK' /\ Bars' = Bars
  BY <1>1 DEF IInv, BarsOK, cores, UsingPcs, Bars
<1>5. (mainPc = "starting" => command \in Runs) /\ (mainPc = "fetchStarting" => command = Fetch)
  BY DEF IInv, MainOK, RunPcs, FetchPcs
<1>6. Phase = "taken" /\ Phase' = IF command = Fetch THEN "fetching" ELSE "preparing"
  BY <1>1, <1>5, Distinct DEF Phase
<1>7. Engine!Start
  BY <1>1, <1>2, <1>4, <1>6 DEF Engine!Start, Quiet
<1> QED BY <1>2, <1>3, <1>4, <1>7 DEF IInv, SeenStep, Engine!Next, Engine!Step

\* What is known of the bar data before a backtest chooses whether to use them.
LEMMA BarsKnown ==
    ASSUME IInv
    PROVE  /\ Bars = None <=> addingError \/ Len(barData) < NumBarData
           /\ isFirstAdding => Len(barData) < NumBarData
           /\ mainPc # "adding" /\ ~isFirstAdding /\ ~addingError => Bars # None
<1>1. barData \in Seq(Configs) /\ Len(barData) \in Nat /\ NumBarData \in Nat \ {0}
  BY ServerAssumption DEF IInv, BarsOK
<1>2. isFirstAdding => Len(barData) = 0
  BY EmptySeq DEF IInv, BarsOK
<1>3. ASSUME ~addingError, ~(Len(barData) < NumBarData) PROVE Bars # None
  <2>1. barData[1] \in Configs
    BY <1>1, <1>3, ElementOfSeq
  <2> QED BY <1>3, <2>1, NoneIsNoConfig DEF Bars
<1>4. mainPc # "adding" /\ ~isFirstAdding /\ ~addingError => Len(barData) = NumBarData
  BY AllOfIt DEF IInv, BarsOK
<1> QED BY <1>1, <1>2, <1>3, <1>4 DEF Bars

\* A command that ends where the code looks at the stop flag, or by an exception, with
\* the bar data it has or less than them.
LEMMA EndsOK ==
    ASSUME IInv, mainPc \in {"preparing", "adding"} \cup UsingPcs,
           NEW o \in {"stopped", "failed"}, o = "stopped" => stopRequested,
           Output(o), Done, isFirstAdding' = isFirstAdding, fundingLoads' \in 0..2,
           IF mainPc = "adding"
           THEN barData' \in {barData, Append(barData, command.config)} /\ addingError' = TRUE
           ELSE UNCHANGED <<barData, addingError>>
    PROVE  IInv' /\ SeenStep
<1>1. ReaderOK' /\ Pipe' = Pipe /\ Engine!Answer(o)
  BY OutputOK DEF Outputs
<1>2. MainOK' /\ mainPc' = "testing" /\ command' = None
  BY DEF Done, MainOK, IdlePcs, RunPcs, UsingPcs, FetchPcs
<1>3. command \in Runs /\ command.config \in Configs
  <2>1. command \in Runs
    BY DEF IInv, MainOK, RunPcs, UsingPcs
  <2> QED BY <2>1, Distinct
<1>4. BarsOK' /\ Bars' = Bars
  <2>1. CASE mainPc = "adding"
    <3>1. barData \in Seq(Configs) /\ Len(barData) < NumBarData /\ ~isFirstAdding
          /\ \A i \in 1..Len(barData) : barData[i] = command.config
      BY <2>1 DEF IInv, BarsOK
    <3>2. Append(barData, command.config) \in Seq(Configs)
          /\ Len(Append(barData, command.config)) = Len(barData) + 1
      BY <1>3, <3>1, Appended
    <3>3. barData' \in Seq(Configs) /\ Len(barData') <= NumBarData
      BY <2>1, <3>1, <3>2, ServerAssumption
    <3>4. Bars = None /\ Bars' = None
      BY <2>1, <3>1 DEF Bars
    <3> QED BY <1>2, <2>1, <3>1, <3>3, <3>4 DEF IInv, BarsOK, UsingPcs
  <2>2. CASE mainPc # "adding"
    <3>1. Bars' = Bars
      BY <2>2 DEF Bars
    <3> QED BY <1>2, <2>2, <3>1 DEF IInv, BarsOK, UsingPcs
  <2> QED BY <2>1, <2>2
<1>5. Phase \in {"preparing", "adding", "running"} /\ Phase' = "idle"
  BY <1>2 DEF Phase, UsingPcs
<1>6. Engine!Stopped \/ Engine!Fails
  BY <1>1, <1>2, <1>4, <1>5 DEF Engine!Stopped, Engine!Fails, Engine!Done
<1> QED BY <1>1, <1>2, <1>4, <1>6 DEF IInv, SeenStep, Engine!Next, Engine!Step

\* The cached bar data are used, or the handler is emptied.
LEMMA PrepareOK ==
    ASSUME IInv, Prepare
    PROVE  IInv' /\ SeenStep
<1>1. mainPc = "preparing" /\ command \in Runs
  BY DEF Prepare, IInv, MainOK, RunPcs
<1>2. CASE ReturnIfStopped
  <2>1. stopRequested /\ Output("stopped") /\ Done /\ UNCHANGED cores
    BY <1>2 DEF ReturnIfStopped
  <2>2. fundingLoads' \in 0..2 /\ UNCHANGED <<isFirstAdding, barData, addingError>>
    BY <2>1 DEF cores, IInv, BarsOK
  <2> QED BY <1>1, <2>1, <2>2, EndsOK
<1>3. CASE ~ReturnIfStopped
  <2>1. /\ ~stopRequested /\ Quiet /\ UNCHANGED <<command, sharedVars, fundingLoads>>
        /\ IF NeedsAdding
           THEN /\ mainPc' = "adding" /\ isFirstAdding' = FALSE
                /\ barData' = Cleared /\ addingError' = (isFirstAdding /\ addingError)
           ELSE mainPc' = "loading" /\ UNCHANGED <<barData, isFirstAdding, addingError>>
    BY <1>3 DEF Prepare
  <2>2. ReaderOK' /\ Pipe' = Pipe
    BY <2>1, QuietOK
  <2>3. MainOK'
    BY <1>1, <2>1 DEF MainOK, IdlePcs, RunPcs, UsingPcs, FetchPcs
  <2>4. Phase = "preparing" /\ Phase' = IF NeedsAdding THEN "adding" ELSE "running"
    BY <1>1, <2>1 DEF Phase
  <2>5. CASE NeedsAdding
    <3>1. barData' = <<>> /\ ~addingError' /\ ~isFirstAdding' /\ mainPc' = "adding"
      BY <2>1, <2>5 DEF IInv, BarsOK, Cleared
    <3>2. barData' \in Seq(Configs) /\ Len(barData') = 0
      BY <3>1, EmptySeq
    <3>3. BarsOK'
      <4>1. addingError' \in BOOLEAN /\ isFirstAdding' \in BOOLEAN
        BY <2>1, <2>5
      <4>2. 0 < NumBarData /\ \A i \in 1..0 : FALSE
        BY ServerAssumption
      <4>3. fundingLoads' \in 0..2
        BY <2>1 DEF IInv, BarsOK
      <4>4. Len(barData') <= NumBarData /\ Len(barData') < NumBarData
            /\ \A i \in 1..Len(barData') : barData'[i] = command'.config
        <5>1. 0 <= NumBarData
          BY <4>2, ServerAssumption
        <5> QED BY <3>2, <4>2, <5>1
      <4>5. mainPc' # "preparing" /\ mainPc' \notin UsingPcs
        BY <3>1 DEF UsingPcs
      <4> QED BY <3>1, <3>2, <4>1, <4>3, <4>4, <4>5, Zenon DEF BarsOK
    <3>4. Bars' = None
      BY <3>2, ServerAssumption DEF Bars
    <3>5. command.clear \/ Bars = None
      BY <2>5, BarsKnown DEF NeedsAdding
    <3>6. Engine!Prepare
      BY <2>1, <2>2, <2>4, <2>5, <3>4, <3>5
      DEF Engine!Prepare, Engine!NeedsAdding, Engine!Goto, Quiet, sharedVars
    <3> QED BY <2>2, <2>3, <3>3, <3>6 DEF IInv, SeenStep, Engine!Next, Engine!Step
  <2>6. CASE ~NeedsAdding
    <3>1. ~command.clear /\ ~addingError /\ ~isFirstAdding
      BY <2>6 DEF NeedsAdding
    <3>2. BarsOK' /\ Bars' = Bars
      BY <1>1, <2>1, <2>6, <3>1 DEF IInv, BarsOK, UsingPcs, Bars
    <3>3. Bars # None
      BY <1>1, <3>1, BarsKnown
    <3>4. Engine!Prepare
      BY <2>1, <2>2, <2>4, <2>6, <3>1, <3>2, <3>3
      DEF Engine!Prepare, Engine!NeedsAdding, Engine!Goto, Quiet, sharedVars
    <3> QED BY <2>2, <2>3, <3>2, <3>4 DEF IInv, SeenStep, Engine!Next, Engine!Step
  <2> QED BY <2>5, <2>6
<1> QED BY <1>2, <1>3

\* Bar data are added one by one; only with the last of them are they there.
LEMMA AddBarDataOK ==
    ASSUME IInv, AddBarData
    PROVE  IInv' /\ SeenStep
<1>1. mainPc = "adding" /\ command \in Runs /\ command.config \in Configs
  <2>1. mainPc = "adding" /\ command \in Runs
    BY DEF AddBarData, IInv, MainOK, RunPcs
  <2> QED BY <2>1, Distinct
<1>2. CASE stopRequested
  <2>1. Interrupted /\ UNCHANGED isFirstAdding /\ Output("stopped") /\ ResetCores /\ Done
    BY <1>2 DEF AddBarData
  <2> QED BY <1>1, <1>2, <2>1, EndsOK DEF Interrupted, ResetCores
<1>3. CASE ~stopRequested
  <2>1. /\ barData' = Append(barData, command.config)
        /\ mainPc' = IF Len(barData') = NumBarData THEN "loading" ELSE "adding"
        /\ Quiet /\ UNCHANGED <<command, sharedVars, isFirstAdding, addingError, fundingLoads>>
    BY <1>3 DEF AddBarData
  <2>2. ReaderOK' /\ Pipe' = Pipe
    BY <2>1, QuietOK
  <2>3. MainOK'
    BY <1>1, <2>1 DEF MainOK, IdlePcs, RunPcs, UsingPcs, FetchPcs
  <2>4. /\ barData \in Seq(Configs) /\ Len(barData) < NumBarData /\ ~isFirstAdding /\ ~addingError
        /\ \A i \in 1..Len(barData) : barData[i] = command.config
    BY <1>1 DEF IInv, BarsOK
  <2>5. /\ barData' \in Seq(Configs) /\ Len(barData') = Len(barData) + 1
        /\ \A i \in 1..Len(barData) + 1 : barData'[i] = command.config
        /\ Len(barData') = NumBarData => barData' = AllOf(command.config)
    BY <1>1, <2>1, <2>4, Appended
  <2>6. Len(barData) \in Nat /\ NumBarData \in Nat
    BY <2>4, ServerAssumption
  <2>7. BarsOK'
    <3>1. isFirstAdding' \in BOOLEAN /\ addingError' \in BOOLEAN /\ fundingLoads' \in 0..2
      BY <2>1 DEF IInv, BarsOK
    <3>2. Len(barData') <= NumBarData /\ (mainPc' = "adding" => Len(barData') < NumBarData)
      BY <2>1, <2>4, <2>5, <2>6
    <3> QED BY <1>1, <2>1, <2>4, <2>5, <3>1, <3>2 DEF BarsOK, UsingPcs
  <2>8. Bars = None
    BY <2>4 DEF Bars
  <2>9. CASE Len(barData') = NumBarData
    <3>1. Bars' = command.config
      <4>1. barData'[1] = command.config
        BY <2>5, <2>6
      <4> QED BY <2>1, <2>4, <2>6, <2>9, <4>1 DEF Bars
    <3>2. Phase = "adding" /\ Phase' = "running"
      BY <1>1, <2>1, <2>9 DEF Phase
    <3>3. Engine!Added
      BY <1>3, <2>1, <2>2, <3>1, <3>2 DEF Engine!Added, Engine!Goto, Quiet, sharedVars
    <3> QED BY <2>2, <2>3, <2>7, <3>3 DEF IInv, SeenStep, Engine!Next, Engine!Step
  <2>10. CASE Len(barData') # NumBarData
    <3>1. Bars' = None
      <4>1. Len(barData') < NumBarData
        BY <2>4, <2>5, <2>6, <2>10
      <4> QED BY <4>1 DEF Bars
    <3>2. Phase = "adding" /\ Phase' = "adding"
      BY <1>1, <2>1, <2>10 DEF Phase
    <3> QED BY <2>1, <2>2, <2>3, <2>7, <2>8, <3>1, <3>2 DEF IInv, SeenStep, Engine!vars, Quiet, sharedVars
  <2> QED BY <2>9, <2>10
<1> QED BY <1>2, <1>3

\* Places a backtest passes with its bar data in use.
LEMMA UsingOK ==
    ASSUME IInv, mainPc \in UsingPcs, mainPc' \in UsingPcs, Quiet,
           UNCHANGED <<command, sharedVars, barData, isFirstAdding, addingError>>,
           fundingLoads' \in 0..2
    PROVE  IInv' /\ SeenStep
<1>1. ReaderOK' /\ Pipe' = Pipe
  BY QuietOK
<1>2. MainOK'
  BY DEF IInv, MainOK, IdlePcs, RunPcs, UsingPcs, FetchPcs
<1>3. BarsOK'
  BY DEF IInv, BarsOK, UsingPcs
<1>4. Phase' = Phase /\ Bars' = Bars
  BY DEF Phase, Bars, UsingPcs
<1> QED BY <1>1, <1>2, <1>3, <1>4 DEF IInv, SeenStep, Engine!vars, Quiet, sharedVars

\* The funding rates are added, or the configuration: neither touches the bars.
LEMMA AddFundingRatesOK ==
    ASSUME IInv, AddFundingRates \/ Configure
    PROVE  IInv' /\ SeenStep
<1>1. mainPc \in UsingPcs /\ fundingLoads \in 0..2
  BY DEF AddFundingRates, Configure, UsingPcs, IInv, BarsOK
<1>2. CASE ReturnIfStopped
  <2>1. stopRequested /\ Output("stopped") /\ Done /\ UNCHANGED cores
    BY <1>2 DEF ReturnIfStopped
  <2>2. fundingLoads' \in 0..2 /\ UNCHANGED <<isFirstAdding, barData, addingError>> /\ mainPc # "adding"
    BY <1>1, <2>1 DEF cores, UsingPcs
  <2> QED BY <1>1, <2>1, <2>2, EndsOK
<1>3. CASE ~ReturnIfStopped
  <2>1. mainPc' \in UsingPcs /\ Quiet /\ fundingLoads' \in 0..2
        /\ UNCHANGED <<command, sharedVars, barData, isFirstAdding, addingError>>
    BY <1>1, <1>3 DEF AddFundingRates, Configure, UsingPcs, cores
  <2> QED BY <1>1, <2>1, UsingOK
<1> QED BY <1>2, <1>3

\* An exception ends a backtest.
LEMMA FailOK ==
    ASSUME IInv, Fail, mainPc \in {"preparing", "adding"} \cup UsingPcs
    PROVE  IInv' /\ SeenStep
<1>1. Output("failed") /\ Done /\ isFirstAdding' = isFirstAdding /\ fundingLoads' \in 0..2
  BY DEF Fail, ResetCores
<1>2. IF mainPc = "adding"
      THEN barData' \in {barData, Append(barData, command.config)} /\ addingError' = TRUE
      ELSE UNCHANGED <<barData, addingError>>
  BY DEF Fail, IInv, BarsOK
<1> QED BY <1>1, <1>2, EndsOK

\* A backtest runs, and says that it is complete unless it was stopped.
LEMMA RunBacktestingOK ==
    ASSUME IInv, RunBacktesting
    PROVE  IInv' /\ SeenStep
<1>1. mainPc = "backtesting" /\ mainPc \in UsingPcs /\ command \in Runs
  BY DEF RunBacktesting, UsingPcs, IInv, MainOK, RunPcs
<1>2. CASE Fail
  BY <1>1, <1>2, FailOK
<1>3. CASE ~Fail
  <2>1. /\ mainPc' = "ending" /\ UNCHANGED <<command, cores>>
        /\ IF stopRequested THEN Quiet /\ UNCHANGED sharedVars ELSE Output("completed")
    BY <1>3 DEF RunBacktesting
  <2>2. ReaderOK' /\ Pipe' = Pipe
        /\ IF stopRequested THEN UNCHANGED <<pendingCommand, stopRequested, shouldExit, stdout>>
           ELSE Engine!Answer("completed")
    <3>1. CASE stopRequested
      BY <2>1, <3>1, QuietOK DEF Quiet, sharedVars
    <3>2. CASE ~stopRequested
      BY <2>1, <3>2, OutputOK DEF Outputs
    <3> QED BY <3>1, <3>2
  <2>3. MainOK'
    BY <1>1, <2>1 DEF MainOK, IdlePcs, RunPcs, UsingPcs, FetchPcs
  <2>4. BarsOK' /\ Bars' = Bars
    BY <1>1, <2>1 DEF IInv, BarsOK, UsingPcs, cores, Bars
  <2>5. Phase = "running" /\ Phase' = "ending"
    BY <1>1, <2>1 DEF Phase
  <2>6. Engine!Complete
    BY <2>1, <2>2, <2>4, <2>5 DEF Engine!Complete
  <2> QED BY <2>2, <2>3, <2>4, <2>6 DEF IInv, SeenStep, Engine!Next, Engine!Step
<1> QED BY <1>2, <1>3

\* A backtest that ends well leaves no error, and the bars of its configuration.
LEMMA EndBacktestingOK ==
    ASSUME IInv, EndBacktesting
    PROVE  IInv' /\ SeenStep
<1>1. /\ mainPc = "ending" /\ mainPc' = "testing" /\ command' = None
      /\ fundingLoads' = 0 /\ UNCHANGED <<barData, isFirstAdding, addingError>>
  BY DEF EndBacktesting, Done, ResetCores
<1>2. ReaderOK' /\ Pipe' = Pipe
      /\ IF stopRequested THEN Engine!Answer("stopped")
         ELSE UNCHANGED <<pendingCommand, stopRequested, shouldExit, stdout>>
  <2>1. CASE ~stopRequested
    <3>1. Quiet /\ UNCHANGED sharedVars
      BY <2>1 DEF EndBacktesting
    <3> QED BY <2>1, <3>1, QuietOK DEF Quiet, sharedVars
  <2>2. CASE stopRequested
    <3>1. Output("stopped")
      BY <2>2 DEF EndBacktesting
    <3> QED BY <2>2, <3>1, OutputOK DEF Outputs
  <2> QED BY <2>1, <2>2
<1>3. MainOK'
  BY <1>1 DEF MainOK, IdlePcs, RunPcs, UsingPcs, FetchPcs
<1>4. BarsOK' /\ Bars' = Bars
  BY <1>1 DEF IInv, BarsOK, UsingPcs, Bars
<1>5. Phase = "ending" /\ Phase' = "idle"
  BY <1>1 DEF Phase
<1>6. Engine!End
  BY <1>1, <1>2, <1>4, <1>5 DEF Engine!End, Engine!Done
<1> QED BY <1>2, <1>3, <1>4, <1>6 DEF IInv, SeenStep, Engine!Next, Engine!Step

\* The download of bar data leaves those that are cached.
LEMMA FetchOK ==
    ASSUME IInv, FetchOrUpdateBarData
    PROVE  IInv' /\ SeenStep
<1>1. mainPc \in {"fetching", "fetched"} /\ UNCHANGED <<barData, isFirstAdding, addingError>>
      /\ command = Fetch
  BY DEF FetchOrUpdateBarData, IInv, MainOK, FetchPcs
<1>2. Bars' = Bars /\ Phase = "fetching"
  BY <1>1 DEF Bars, Phase
<1>3. CASE mainPc' = "fetched" /\ Quiet /\ UNCHANGED <<command, sharedVars, fundingLoads>>
  <2>1. ReaderOK' /\ Pipe' = Pipe
    BY <1>3, QuietOK
  <2>2. MainOK'
    BY <1>1, <1>3 DEF MainOK, IdlePcs, RunPcs, UsingPcs, FetchPcs
  <2>3. BarsOK'
    BY <1>1, <1>3 DEF IInv, BarsOK, UsingPcs
  <2>4. Phase' = "fetching"
    BY <1>3 DEF Phase
  <2> QED BY <1>2, <1>3, <2>1, <2>2, <2>3, <2>4 DEF IInv, SeenStep, Engine!vars, Quiet, sharedVars
<1>4. ASSUME NEW o \in {"fetchStopped", "fetchCompleted", "fetchFailed"},
             Output(o), ResetCores, Done, o = "fetchStopped" => stopRequested
      PROVE  IInv' /\ SeenStep
  <2>1. ReaderOK' /\ Pipe' = Pipe /\ Engine!Answer(o)
    BY <1>4, OutputOK DEF Outputs
  <2>2. MainOK'
    BY <1>4 DEF Done, MainOK, IdlePcs, RunPcs, UsingPcs, FetchPcs
  <2>3. BarsOK'
    BY <1>1, <1>4 DEF IInv, BarsOK, UsingPcs, Done, ResetCores
  <2>4. Phase' = "idle" /\ command' = None
    BY <1>4 DEF Phase, Done
  <2>5. Engine!Fetched
    BY <1>2, <1>4, <2>1, <2>4 DEF Engine!Fetched, Engine!Done
  <2> QED BY <2>1, <2>2, <2>3, <2>5 DEF IInv, SeenStep, Engine!Next, Engine!Step
<1> QED BY <1>3, <1>4 DEF FetchOrUpdateBarData

\* A line is written, or an answer read.
LEMMA SendOK ==
    ASSUME IInv, NEW l \in Lines, SendLine(l)
    PROVE  IInv' /\ SeenStep
<1>1. stdin' = Append(stdin, l)
      /\ UNCHANGED <<stdout, readerPc, line, mainPc, command, sharedVars, cores>>
  BY DEF SendLine
<1>2. stdin \in Seq(Lines) /\ stdin' \in Seq(Lines) /\ line \in Commands \cup {None}
  BY <1>1, AppendProperties DEF IInv, ReaderOK
<1>3. ReaderOK'
  BY <1>1, <1>2 DEF IInv, ReaderOK, sharedVars
<1>4. MainOK' /\ BarsOK' /\ Phase' = Phase /\ Bars' = Bars
  <2>1. MainOK'
    BY <1>1 DEF IInv, MainOK
  <2>2. BarsOK'
    BY <1>1 DEF IInv, BarsOK, cores
  <2> QED BY <1>1, <2>1, <2>2 DEF Phase, Bars, cores
<1>5. Pipe' = Append(Pipe, l)
  <2> DEFINE h == IF line = None THEN <<>> ELSE <<line>>
             last == <<l>>
  <2>1. h \in Seq(Lines) /\ last \in Seq(Lines)
    <3>1. l \in Lines /\ (line # None => line \in Lines)
      BY <1>2 DEF Commands, Lines
    <3> QED BY <3>1, EmptySeq
  <2>2. Pipe = h \o stdin /\ Pipe' = h \o stdin'
    BY <1>1 DEF Pipe
  <2>3. stdin' = stdin \o last
    BY <1>1, <1>2, AppendIsConcat
  <2> HIDE DEF h
  <2>4. Pipe \in Seq(Lines) /\ Append(Pipe, l) = Pipe \o last
    <3>1. Pipe \in Seq(Lines)
      BY <1>2, <2>1, <2>2, ConcatProperties
    <3> QED BY <3>1, AppendIsConcat
  <2> HIDE DEF last
  <2>5. (h \o stdin) \o last = h \o (stdin \o last)
    BY <1>2, <2>1, ConcatAssociative
  <2> QED BY <2>2, <2>3, <2>4, <2>5
<1>6. Engine!Write(l)
  BY <1>1, <1>4, <1>5 DEF Engine!Write, sharedVars
<1> QED BY <1>3, <1>4, <1>6 DEF IInv, SeenStep, Engine!Next, Lines

\* The bridge reads a line of the output.
LEMMA ReceiveOK ==
    ASSUME IInv, Receive
    PROVE  IInv' /\ SeenStep
<1>1. stdout # <<>> /\ stdout' = Tail(stdout)
      /\ UNCHANGED <<stdin, readerPc, line, mainPc, command, sharedVars, cores>>
  BY DEF Receive
<1>2. stdout' \in Seq(Outputs)
  BY <1>1, HeadTailProperties DEF IInv, ReaderOK
<1>3. ReaderOK' /\ Pipe' = Pipe
  BY <1>1, <1>2 DEF IInv, ReaderOK, sharedVars, Pipe
<1>4. MainOK' /\ BarsOK' /\ Phase' = Phase /\ Bars' = Bars
  <2>1. MainOK'
    BY <1>1 DEF IInv, MainOK
  <2>2. BarsOK'
    BY <1>1 DEF IInv, BarsOK, cores
  <2> QED BY <1>1, <2>1, <2>2 DEF Phase, Bars, cores
<1>5. Engine!ReadAnswer
  BY <1>1, <1>3, <1>4 DEF Engine!ReadAnswer, sharedVars
<1> QED BY <1>3, <1>4, <1>5 DEF IInv, SeenStep, Engine!Next

\* Every step.
LEMMA NextOK ==
    ASSUME IInv, [Next]_vars
    PROVE  IInv' /\ SeenStep
<1>1. CASE Reader
  BY <1>1, ReadLineOK, PublishOK, NotifyOK DEF Reader
<1>2. CASE TestExit \/ Lock \/ Sleep \/ Join \/ WakeSpuriously
  <2>1. mainPc \in IdlePcs /\ mainPc' \in IdlePcs /\ Quiet /\ UNCHANGED <<command, sharedVars, cores>>
    BY <1>2 DEF TestExit, Lock, Sleep, Join, WakeSpuriously, IdlePcs
  <2> QED BY <2>1, IdleOK
<1>3. CASE TakeCommand \/ Start \/ Prepare \/ AddBarData
  BY <1>3, TakeCommandOK, StartOK, PrepareOK, AddBarDataOK
<1>4. CASE AddFundingRates \/ Configure \/ RunBacktesting \/ EndBacktesting
  BY <1>4, AddFundingRatesOK, RunBacktestingOK, EndBacktestingOK
<1>5. CASE Throws
  BY <1>5, FailOK DEF Throws, UsingPcs
<1>6. CASE FetchOrUpdateBarData
  BY <1>6, FetchOK
<1>7. CASE \E l \in Lines : SendLine(l)
  BY <1>7, SendOK
<1>8. CASE Receive
  BY <1>8, ReceiveOK
<1>9. CASE UNCHANGED vars
  <2>1. ReaderOK' /\ MainOK' /\ Pipe' = Pipe /\ Phase' = Phase
    BY <1>9 DEF vars, sharedVars, IInv, ReaderOK, MainOK, Pipe, Phase
  <2>2. BarsOK' /\ Bars' = Bars
    BY <1>9 DEF vars, cores, IInv, BarsOK, Bars
  <2> QED BY <1>9, <2>1, <2>2 DEF IInv, SeenStep, Engine!vars, vars, sharedVars
<1> QED BY <1>1, <1>2, <1>3, <1>4, <1>5, <1>6, <1>7, <1>8, <1>9 DEF Next, Main, Exited

-----------------------------------------------------------------------------
(* The theorems.                                                           *)

\* IInv is inductive.
THEOREM Inductive == Spec => []IInv
<1>1. IInv /\ [Next]_vars => IInv'
  BY NextOK
<1> QED BY <1>1, InitOK, PTL DEF Spec

\* Type correctness: no more bar data are cached than a configuration has.
THEOREM TypeCorrect == Spec => []TypeOK
<1>1. IInv => TypeOK
  <2> SUFFICES ASSUME IInv PROVE TypeOK
    OBVIOUS
  <2>1. barData \in BoundedSeq(Configs, NumBarData)
    <3>1. barData \in Seq(Configs) /\ Len(barData) <= NumBarData
      BY DEF IInv, BarsOK
    <3>2. Len(barData) \in 0..NumBarData /\ barData \in [1..Len(barData) -> Configs]
      BY <3>1, ServerAssumption, LenProperties
    <3> QED BY <3>2 DEF BoundedSeq, SeqOf
  <2>2. line \in Runs \cup {Fetch, None} /\ pendingCommand \in Runs \cup {Fetch, None}
    BY DEF IInv, ReaderOK, Commands
  <2>3. command \in Runs \cup {Fetch, None}
    BY DEF IInv, MainOK
  <2>4. mainPc \in {"testing", "locking", "locked", "blocking", "waiting", "joining", "exited",
                    "starting", "preparing", "adding", "loading", "configuring", "backtesting",
                    "ending", "fetchStarting", "fetching", "fetched"}
    BY DEF IInv, MainOK, IdlePcs, RunPcs, UsingPcs, FetchPcs
  <2> QED BY <2>1, <2>2, <2>3, <2>4 DEF IInv, ReaderOK, BarsOK, TypeOK
<1> QED BY <1>1, Inductive, PTL

\* A backtest runs on all the bar data of one configuration, however many runs before it
\* were stopped or failed while theirs were added.
THEOREM RunsOnWholeBarData == Spec => []BarDataWhole
<1>1. IInv => BarDataWhole
  BY DEF IInv, BarsOK, UsingPcs, BarDataWhole
<1> QED BY <1>1, Inductive, PTL

\* And on those of its own configuration, if it asked for them to be added.
THEOREM RunsOnFreshBarData == Spec => []FreshBarData
<1>1. IInv => FreshBarData
  BY DEF IInv, BarsOK, UsingPcs, FreshBarData
<1> QED BY <1>1, Inductive, PTL

\* The two threads, the slot under its mutex and the condition variable implement the
\* engine: each command that is started was read, is started once and answered before the
\* next, whatever the interleaving.
THEOREM Implements == Spec => ImplementsEngine
<1>1. IInv /\ [Next]_vars => [Engine!Next]_(Engine!vars)
  BY NextOK DEF SeenStep
<1>2. Init => Engine!Init
  BY InitOK
<1> QED BY <1>1, <1>2, Inductive, PTL DEF Spec, ImplementsEngine, Engine!Spec

-----------------------------------------------------------------------------
(* EngineBridge.  Counting what is in a sequence.                          *)

\* A sequence has finitely many places, and so many of them hold something of a set.
LEMMA CountIsNat ==
    ASSUME NEW A, NEW s \in Seq(A), NEW S
    PROVE  IsFiniteSet({i \in DOMAIN s : s[i] \in S}) /\ CountIn(s, S) \in Nat
<1>1. IsFiniteSet(1..Len(s))
  BY FS_Interval
<1>2. {i \in DOMAIN s : s[i] \in S} \subseteq 1..Len(s)
  OBVIOUS
<1>3. IsFiniteSet({i \in DOMAIN s : s[i] \in S})
  BY <1>1, <1>2, FS_Subset
<1> QED BY <1>3, FS_CardinalityType DEF CountIn

\* Without the element at i, moved to the places that g says, a sequence has one less
\* of what that element is.
LEMMA CountWithout ==
    ASSUME NEW A, NEW s \in Seq(A), NEW t \in Seq(A), NEW S, NEW i \in DOMAIN s,
           NEW g \in Bijection(DOMAIN t, DOMAIN s \ {i}), \A j \in DOMAIN t : t[j] = s[g[j]]
    PROVE  CountIn(s, S) = CountIn(t, S) + (IF s[i] \in S THEN 1 ELSE 0)
<1> DEFINE I == {j \in DOMAIN s : s[j] \in S}
           J == {j \in DOMAIN t : t[j] \in S}
           h == [j \in J |-> g[j]]
<1>1. IsFiniteSet(I) /\ IsFiniteSet(J)
  BY CountIsNat
<1>2. /\ \A j \in DOMAIN t : g[j] \in DOMAIN s \ {i}
      /\ \A j, l \in DOMAIN t : g[j] = g[l] => j = l
      /\ \A l \in DOMAIN s \ {i} : \E j \in DOMAIN t : g[j] = l
  BY DEF Bijection, Injection, Surjection, IsInjective
<1>3. h \in Bijection(J, I \ {i})
  <2>1. h \in [J -> I \ {i}]
    BY <1>2
  <2>2. \A j, l \in J : h[j] = h[l] => j = l
    BY <1>2
  <2>3. \A l \in I \ {i} : \E j \in J : h[j] = l
    BY <1>2
  <2> QED BY <2>1, <2>2, <2>3 DEF Bijection, Injection, Surjection, IsInjective
<1>4. Cardinality(J) = Cardinality(I \ {i})
  <2>1. ExistsBijection(J, I \ {i})
    BY <1>3 DEF ExistsBijection
  <2>2. IsFiniteSet(I \ {i})
    BY <1>1, FS_RemoveElement
  <2> QED BY <1>1, <2>1, <2>2, FS_Bijection
<1>5. Cardinality(I \ {i}) = IF i \in I THEN Cardinality(I) - 1 ELSE Cardinality(I)
  BY <1>1, FS_RemoveElement
<1>6. Cardinality(I) \in Nat
  BY <1>1, FS_CardinalityType
<1>7. i \in I <=> s[i] \in S
  OBVIOUS
<1> QED BY <1>4, <1>5, <1>6, <1>7 DEF CountIn

\* Nothing is in an empty sequence.
LEMMA CountEmpty == \A S : CountIn(<<>>, S) = 0
<1> TAKE S
<1>1. {i \in DOMAIN <<>> : <<>>[i] \in S} = {}
  OBVIOUS
<1> QED BY <1>1, FS_EmptySet DEF CountIn

\* One element counts itself.
LEMMA CountOne ==
    ASSUME NEW x, NEW S
    PROVE  CountIn(<<x>>, S) = IF x \in S THEN 1 ELSE 0
<1>1. DOMAIN <<x>> = {1} /\ <<x>>[1] = x
  OBVIOUS
<1>2. CASE x \in S
  <2>1. {i \in DOMAIN <<x>> : <<x>>[i] \in S} = {1}
    BY <1>1, <1>2
  <2> QED BY <1>2, <2>1, FS_Singleton DEF CountIn
<1>3. CASE x \notin S
  <2>1. {i \in DOMAIN <<x>> : <<x>>[i] \in S} = {}
    BY <1>1, <1>3
  <2> QED BY <1>3, <2>1, FS_EmptySet DEF CountIn
<1> QED BY <1>2, <1>3

\* What is appended counts.
LEMMA CountAppend ==
    ASSUME NEW A, NEW s \in Seq(A), NEW x \in A, NEW S
    PROVE  CountIn(Append(s, x), S) = CountIn(s, S) + (IF x \in S THEN 1 ELSE 0)
<1> DEFINE t == Append(s, x)
           n == Len(s) + 1
           g == [j \in DOMAIN s |-> j]
<1>1. /\ t \in Seq(A) /\ Len(t) = n /\ t[n] = x /\ Len(s) \in Nat
      /\ \A j \in 1..Len(s) : t[j] = s[j]
  BY AppendProperties
<1>2. DOMAIN t = 1..n /\ DOMAIN s = 1..Len(s) /\ n \in DOMAIN t
  BY <1>1
<1>3. DOMAIN t \ {n} = DOMAIN s
  BY <1>1, <1>2
<1>4. g \in Bijection(DOMAIN s, DOMAIN t \ {n})
  BY <1>3 DEF Bijection, Injection, Surjection, IsInjective
<1>5. \A j \in DOMAIN s : s[j] = t[g[j]]
  BY <1>1, <1>2
<1> HIDE DEF t, n, g
<1>6. CountIn(t, S) = CountIn(s, S) + (IF t[n] \in S THEN 1 ELSE 0)
  BY <1>1, <1>2, <1>4, <1>5, CountWithout
<1> QED BY <1>1, <1>6 DEF t

\* The head counts, and then the tail.
LEMMA CountTail ==
    ASSUME NEW A, NEW s \in Seq(A), s # <<>>, NEW S
    PROVE  CountIn(s, S) = CountIn(Tail(s), S) + (IF Head(s) \in S THEN 1 ELSE 0)
<1> DEFINE t == Tail(s)
           g == [j \in DOMAIN t |-> j + 1]
<1>1. /\ t \in Seq(A) /\ Len(t) = Len(s) - 1 /\ Len(s) \in Nat /\ Len(s) >= 1
      /\ \A j \in 1..Len(t) : t[j] = s[j + 1]
  BY HeadTailProperties, EmptySeq
<1>2. DOMAIN s = 1..Len(s) /\ DOMAIN t = 1..Len(s) - 1 /\ 1 \in DOMAIN s /\ Head(s) = s[1]
  BY <1>1
<1>3. \A j \in DOMAIN t : g[j] \in DOMAIN s \ {1}
  BY <1>1, <1>2
<1>4. \A l \in DOMAIN s \ {1} : l - 1 \in DOMAIN t /\ g[l - 1] = l
  BY <1>1, <1>2
<1>5. \A j, l \in DOMAIN t : g[j] = g[l] => j = l
  BY <1>1, <1>2
<1>6. g \in Bijection(DOMAIN t, DOMAIN s \ {1})
  <2>1. g \in [DOMAIN t -> DOMAIN s \ {1}]
    BY <1>3
  <2> HIDE DEF g
  <2> QED BY <1>4, <1>5, <2>1 DEF Bijection, Injection, Surjection, IsInjective
<1>7. \A j \in DOMAIN t : t[j] = s[g[j]]
  BY <1>1, <1>2
<1> HIDE DEF t, g
<1>8. CountIn(s, S) = CountIn(t, S) + (IF s[1] \in S THEN 1 ELSE 0)
  BY <1>1, <1>2, <1>6, <1>7, CountWithout
<1> QED BY <1>2, <1>8 DEF t

\* An element that is removed no longer counts.
LEMMA CountRemoveAt ==
    ASSUME NEW A, NEW s \in Seq(A), NEW i \in DOMAIN s, NEW S
    PROVE  /\ RemoveAt(s, i) \in Seq(A)
           /\ CountIn(s, S) = CountIn(RemoveAt(s, i), S) + (IF s[i] \in S THEN 1 ELSE 0)
<1> DEFINE t == RemoveAt(s, i)
           g == [j \in DOMAIN t |-> IF j < i THEN j ELSE j + 1]
           f == [j \in 1..Len(s) - 1 |-> IF j < i THEN s[j] ELSE s[j + 1]]
<1>1. Len(s) \in Nat /\ DOMAIN s = 1..Len(s) /\ i \in 1..Len(s)
  OBVIOUS
<1>2. t = f
  <2> DEFINE u == SubSeq(s, 1, i - 1)
             v == SubSeq(s, i + 1, Len(s))
  <2>1. /\ \A m \in 1..Len(s) + 1 : \A n \in 0..Len(s) : n >= m - 1 =>
            /\ SubSeq(s, m, n) \in Seq(A) /\ Len(SubSeq(s, m, n)) = n - m + 1
            /\ \A j \in 1..n - m + 1 : SubSeq(s, m, n)[j] = s[m + j - 1]
    BY <1>1
  <2>2. u \in Seq(A) /\ Len(u) = i - 1 /\ \A j \in 1..i - 1 : u[j] = s[j]
    BY <1>1, <2>1
  <2>3. v \in Seq(A) /\ Len(v) = Len(s) - i /\ \A j \in 1..Len(s) - i : v[j] = s[j + i]
    BY <1>1, <2>1
  <2> HIDE DEF u, v
  <2>4. /\ u \o v \in Seq(A) /\ Len(u \o v) = Len(u) + Len(v)
        /\ \A j \in 1..Len(u) + Len(v) : (u \o v)[j] = IF j <= Len(u) THEN u[j] ELSE v[j - Len(u)]
    BY <2>2, <2>3, ConcatProperties
  <2>5. f \in Seq(A) /\ Len(f) = Len(s) - 1
    BY <1>1
  <2>6. ASSUME NEW j \in 1..Len(f) PROVE (u \o v)[j] = f[j]
    <3>1. j \in 1..Len(s) - 1 /\ j \in 1..Len(u) + Len(v)
      BY <1>1, <2>2, <2>3, <2>5
    <3>2. CASE j < i
      <4>1. (u \o v)[j] = u[j] /\ u[j] = s[j]
        BY <1>1, <2>2, <2>4, <3>1, <3>2
      <4> QED BY <3>1, <3>2, <4>1
    <3>3. CASE ~(j < i)
      <4>1. (u \o v)[j] = v[j - Len(u)] /\ j - Len(u) \in 1..Len(s) - i /\ j - Len(u) + i = j + 1
        BY <1>1, <2>2, <2>4, <3>1, <3>3
      <4>2. v[j - Len(u)] = s[j + 1]
        BY <2>3, <4>1
      <4> QED BY <3>1, <3>3, <4>1, <4>2
    <3> QED BY <3>2, <3>3
  <2>7. Len(u \o v) = Len(f)
    BY <1>1, <2>2, <2>3, <2>4, <2>5
  <2> HIDE DEF f
  <2>8. u \o v = f
    BY <2>4, <2>5, <2>6, <2>7, SeqEqual
  <2> QED BY <2>8 DEF RemoveAt, u, v
<1>3. t \in Seq(A) /\ DOMAIN t = 1..Len(s) - 1
  BY <1>1, <1>2
<1>4. \A j \in DOMAIN t : t[j] = s[g[j]]
  BY <1>1, <1>2, <1>3
<1>5. \A j \in DOMAIN t : g[j] \in DOMAIN s \ {i}
  BY <1>1, <1>3
<1>6. \A j, l \in DOMAIN t : g[j] = g[l] => j = l
  BY <1>1, <1>3
<1>7. ASSUME NEW l \in DOMAIN s \ {i} PROVE \E j \in DOMAIN t : g[j] = l
  <2>1. CASE l < i
    <3>1. l \in DOMAIN t /\ g[l] = l
      BY <1>1, <1>3, <2>1
    <3> QED BY <3>1
  <2>2. CASE l > i
    <3>1. l - 1 \in DOMAIN t /\ g[l - 1] = l
      BY <1>1, <1>3, <2>2
    <3> QED BY <3>1
  <2> QED BY <1>1, <2>1, <2>2
<1>8. g \in Bijection(DOMAIN t, DOMAIN s \ {i})
  <2>1. g \in [DOMAIN t -> DOMAIN s \ {i}]
    BY <1>5
  <2> HIDE DEF g
  <2> QED BY <1>6, <1>7, <2>1 DEF Bijection, Injection, Surjection, IsInjective
<1> HIDE DEF t, g, f
<1>9. CountIn(s, S) = CountIn(t, S) + (IF s[i] \in S THEN 1 ELSE 0)
  BY <1>1, <1>3, <1>4, <1>8, CountWithout
<1> QED BY <1>3, <1>9 DEF t

\* Where an element that counts is replaced by one that does not, one less is there.
LEMMA CountExcept ==
    ASSUME NEW A, NEW s \in Seq(A), NEW i \in DOMAIN s, NEW x \in A, NEW S, s[i] \in S, x \notin S
    PROVE  /\ [s EXCEPT ![i] = x] \in Seq(A)
           /\ CountIn(s, S) = CountIn([s EXCEPT ![i] = x], S) + 1
<1> DEFINE t == [s EXCEPT ![i] = x]
           I == {j \in DOMAIN s : s[j] \in S}
           J == {j \in DOMAIN t : t[j] \in S}
<1>1. t \in Seq(A) /\ DOMAIN t = DOMAIN s
  OBVIOUS
<1>2. J = I \ {i} /\ i \in I
  BY <1>1
<1>3. IsFiniteSet(I)
  BY CountIsNat
<1>4. Cardinality(J) = Cardinality(I) - 1 /\ Cardinality(I) \in Nat
  BY <1>2, <1>3, FS_RemoveElement, FS_CardinalityType
<1> QED BY <1>1, <1>4 DEF CountIn

-----------------------------------------------------------------------------
(* EngineBridge.  The inductive invariant.                                 *)

Answers == {"completed", "stopped", "failed", "fetchCompleted", "fetchStopped", "fetchFailed"}
Sent    == Runs \cup {Fetch, Stop}

\* The editors and what they send, and whether an answer was cut.
EditorOK ==
    /\ config \in [Clients -> Configs] /\ configHash \in [Clients -> Configs \cup {NoConfig}]
    /\ running \in [Clients -> BOOLEAN] /\ stopRequestedRef \in [Clients -> BOOLEAN]
    /\ building \in [Clients -> BOOLEAN] /\ needsReload \in [Clients -> BOOLEAN]
    /\ builds \in [Clients -> SUBSET ((0..MaxCommands - 1) \X Configs)]
    /\ up \in [Clients -> Seq(Sent)] /\ commands \in 0..MaxCommands /\ cut \in BOOLEAN

\* The engine executes what it has taken, in the phases of that command.
CoreOK ==
    /\ pipe \in Seq(Sent) /\ slot \in Commands \cup {None} /\ busy \in Commands \cup {None}
    /\ phase \in {"idle", "taken", "preparing", "adding", "running", "ending", "fetching"}
    /\ phase = "idle" <=> busy = None
    /\ phase \in {"preparing", "adding", "running", "ending"} => busy \in Runs
    /\ phase = "fetching" => busy = Fetch
    /\ stop \in BOOLEAN /\ ~exiting /\ bars \in Configs \cup {NoConfig} /\ out \in Seq(Answers)

\* An engine that is not ready has no command, and one that was never ready has done nothing.
ServerOK ==
    /\ engine \in {"starting", "ready", "none"}
    /\ requesters \in Seq(Clients) /\ successes \in Seq(Clients \cup {"listing"})
    /\ engine # "ready" => pipe = <<>> /\ slot = None /\ busy = None
    /\ engine = "starting" => out = <<>> /\ requesters = <<>> /\ successes = <<>> /\ bars = NoConfig

BridgeOK == EditorOK /\ CoreOK /\ ServerOK

-----------------------------------------------------------------------------
(* The steps keep the types.                                               *)

\* At first nothing was asked for.
LEMMA BridgeInitOK == BridgeInit => BridgeOK
<1> SUFFICES ASSUME BridgeInit PROVE BridgeOK
  OBVIOUS
<1>1. /\ pipe = <<>> /\ slot = None /\ busy = None /\ phase = "idle" /\ stop = FALSE
      /\ exiting = FALSE /\ bars = NoConfig /\ out = <<>>
  BY DEF BridgeInit, Core!Init
<1>2. CoreOK
  <2>1. stop \in BOOLEAN /\ ~exiting
    BY <1>1, Zenon
  <2>2. pipe \in Seq(Sent) /\ out \in Seq(Answers)
    BY <1>1
  <2> QED BY <1>1, <2>1, <2>2 DEF CoreOK
<1>3. ServerOK
  BY <1>1 DEF BridgeInit, ServerOK
<1>4. EditorOK
  <2>1. MaxCommands \in Nat
    BY BridgeAssumption
  <2>2. config \in [Clients -> Configs] /\ commands \in 0..MaxCommands
    BY <2>1 DEF BridgeInit
  <2>3. configHash \in [Clients -> Configs \cup {NoConfig}] /\ up \in [Clients -> Seq(Sent)]
        /\ builds \in [Clients -> SUBSET ((0..MaxCommands - 1) \X Configs)]
    BY DEF BridgeInit
  <2>4. /\ running \in [Clients -> BOOLEAN] /\ stopRequestedRef \in [Clients -> BOOLEAN]
        /\ building \in [Clients -> BOOLEAN] /\ needsReload \in [Clients -> BOOLEAN]
    BY Zenon DEF BridgeInit
  <2>5. cut \in BOOLEAN
    BY Zenon DEF BridgeInit
  <2> QED BY <2>2, <2>3, <2>4, <2>5 DEF EditorOK
<1> QED BY <1>2, <1>3, <1>4 DEF BridgeOK

\* What a client clicks, hears or has built touches neither the server nor the engine.
LEMMA EditorApart ==
    ASSUME CoreOK, ServerOK, UNCHANGED <<server, core>>
    PROVE  CoreOK' /\ ServerOK'
BY DEF CoreOK, ServerOK, server, core

\* A client that is released, or that begins.
LEMMA ReleaseOK ==
    ASSUME EditorOK, NEW k \in Clients, Release(k)
    PROVE  running' \in [Clients -> BOOLEAN] /\ stopRequestedRef' \in [Clients -> BOOLEAN]
BY DEF EditorOK, Release

\* A click counts as a command only below the bound.
LEMMA BeginOK ==
    ASSUME EditorOK, NEW k \in Clients, Begin(k)
    PROVE  /\ running' \in [Clients -> BOOLEAN] /\ stopRequestedRef' \in [Clients -> BOOLEAN]
           /\ commands' \in 0..MaxCommands /\ commands \in 0..MaxCommands - 1
<1>1. running' \in [Clients -> BOOLEAN] /\ stopRequestedRef' \in [Clients -> BOOLEAN]
  BY DEF EditorOK, Begin
<1>2. commands' \in 0..MaxCommands /\ commands \in 0..MaxCommands - 1
  BY BridgeAssumption DEF EditorOK, Begin
<1> QED BY <1>1, <1>2

\* A message that is sent is the last of those on their way.
LEMMA BridgeSendOK ==
    ASSUME EditorOK, NEW k \in Clients, NEW m \in Sent, Send(k, m)
    PROVE  /\ up' \in [Clients -> Seq(Sent)] /\ up'[k] = Append(up[k], m)
           /\ \A j \in Clients \ {k} : up'[j] = up[j]
<1>1. up \in [Clients -> Seq(Sent)] /\ Append(up[k], m) \in Seq(Sent)
  BY DEF EditorOK
<1> QED BY <1>1 DEF Send

\* A backtest that is asked for waits until its strategy is built.
LEMMA HandleRunOK ==
    ASSUME BridgeOK, NEW k \in Clients, HandleRunSingleBacktesting(k)
    PROVE  BridgeOK'
<1>1. CoreOK' /\ ServerOK'
  BY EditorApart DEF BridgeOK, HandleRunSingleBacktesting
<1>2. EditorOK /\ Begin(k)
  BY DEF BridgeOK, HandleRunSingleBacktesting
<1>3. building' \in [Clients -> BOOLEAN]
  BY DEF BridgeOK, EditorOK, HandleRunSingleBacktesting
<1>4. builds' \in [Clients -> SUBSET ((0..MaxCommands - 1) \X Configs)]
  <2>1. config[k] \in Configs /\ commands \in 0..MaxCommands - 1
    BY <1>2, BeginOK DEF EditorOK
  <2>2. builds' = [builds EXCEPT ![k] = builds[k] \cup {<<commands, config[k]>>}]
    BY DEF HandleRunSingleBacktesting
  <2>3. builds[k] \cup {<<commands, config[k]>>} \in SUBSET ((0..MaxCommands - 1) \X Configs)
    BY <1>2, <2>1 DEF EditorOK
  <2> QED BY <1>2, <2>2, <2>3 DEF EditorOK
<1>5. EditorOK'
  BY <1>2, <1>3, <1>4, BeginOK DEF EditorOK, HandleRunSingleBacktesting
<1> QED BY <1>1, <1>5 DEF BridgeOK

\* What is built is one of the runs that waited.
LEMMA BuildTaken ==
    ASSUME EditorOK, NEW k \in Clients, NEW b \in builds[k],
           builds' = [builds EXCEPT ![k] = @ \ {b}], building' = [building EXCEPT ![k] = FALSE]
    PROVE  /\ builds' \in [Clients -> SUBSET ((0..MaxCommands - 1) \X Configs)]
           /\ building' \in [Clients -> BOOLEAN] /\ b[2] \in Configs
<1>1. b \in (0..MaxCommands - 1) \X Configs
  BY DEF EditorOK
<1>2. b[2] \in Configs
  BY <1>1
<1>3. builds' \in [Clients -> SUBSET ((0..MaxCommands - 1) \X Configs)]
  BY DEF EditorOK
<1>4. building' \in [Clients -> BOOLEAN]
  BY DEF EditorOK
<1> QED BY <1>2, <1>3, <1>4

\* Whether the bar data are to be dropped is a Boolean, and the run one of the runs.
LEMMA NeedsOK ==
    ASSUME EditorOK, NEW k \in Clients, NEW c \in Configs
    PROVE  Run(c, NeedsClearAndAdd(k, c)) \in Runs
<1>1. NeedsClearAndAdd(k, c) \in BOOLEAN
  BY Zenon DEF NeedsClearAndAdd
<1> QED BY <1>1 DEF Runs

\* A run that was built is sent, unless it was stopped.
LEMMA BuiltOK ==
    ASSUME BridgeOK, NEW k \in Clients, NEW b \in builds[k], Built(k, b)
    PROVE  BridgeOK'
<1>1. CoreOK' /\ ServerOK'
  BY EditorApart DEF BridgeOK, Built
<1>2. EditorOK
  BY DEF BridgeOK
<1>3. /\ builds' \in [Clients -> SUBSET ((0..MaxCommands - 1) \X Configs)]
      /\ building' \in [Clients -> BOOLEAN] /\ b[2] \in Configs
  BY <1>2, BuildTaken DEF Built
<1>4. UNCHANGED <<config, commands, cut>>
  BY DEF Built
<1>5. CASE stopRequestedRef[k]
  <2>1. Release(k) /\ UNCHANGED <<configHash, needsReload, up>>
    BY <1>5 DEF Built
  <2>2. EditorOK'
    BY <1>2, <1>3, <1>4, <2>1, ReleaseOK DEF EditorOK
  <2> QED BY <1>1, <2>2 DEF BridgeOK
<1>6. CASE ~stopRequestedRef[k]
  <2>1. /\ Send(k, Run(b[2], NeedsClearAndAdd(k, b[2])))
        /\ configHash' = [configHash EXCEPT ![k] = b[2]]
        /\ needsReload' = [needsReload EXCEPT ![k] = FALSE]
        /\ UNCHANGED <<running, stopRequestedRef>>
    BY <1>6 DEF Built
  <2>2. Run(b[2], NeedsClearAndAdd(k, b[2])) \in Sent
    BY <1>2, <1>3, NeedsOK DEF Sent
  <2>3. up' \in [Clients -> Seq(Sent)]
    BY <1>2, <2>1, <2>2, BridgeSendOK
  <2>4. configHash' \in [Clients -> Configs \cup {NoConfig}]
    BY <1>2, <1>3, <2>1 DEF EditorOK
  <2>5. needsReload' \in [Clients -> BOOLEAN]
    BY <1>2, <2>1 DEF EditorOK
  <2>6. EditorOK'
    BY <1>2, <1>3, <1>4, <2>1, <2>3, <2>4, <2>5 DEF EditorOK
  <2> QED BY <1>1, <2>6 DEF BridgeOK
<1> QED BY <1>5, <1>6

\* A build that failed releases the client.
LEMMA BuildFailedOK ==
    ASSUME BridgeOK, NEW k \in Clients, NEW b \in builds[k], BuildFailed(k, b)
    PROVE  BridgeOK'
<1>1. CoreOK' /\ ServerOK'
  BY EditorApart DEF BridgeOK, BuildFailed
<1>2. EditorOK
  BY DEF BridgeOK
<1>3. /\ builds' \in [Clients -> SUBSET ((0..MaxCommands - 1) \X Configs)]
      /\ building' \in [Clients -> BOOLEAN]
  BY <1>2, BuildTaken DEF BuildFailed
<1>4. EditorOK'
  BY <1>2, <1>3, ReleaseOK DEF EditorOK, BuildFailed
<1> QED BY <1>1, <1>4 DEF BridgeOK

\* A stop is sent unless a build takes note of it.
LEMMA HandleStopOK ==
    ASSUME BridgeOK, NEW k \in Clients, HandleStopBacktesting(k)
    PROVE  BridgeOK'
<1>1. CoreOK' /\ ServerOK'
  BY EditorApart DEF BridgeOK, HandleStopBacktesting
<1>2. EditorOK
  BY DEF BridgeOK
<1>3. stopRequestedRef' \in [Clients -> BOOLEAN]
  BY <1>2 DEF EditorOK, HandleStopBacktesting
<1>4. up' \in [Clients -> Seq(Sent)]
  <2>1. Stop \in Sent
    BY DEF Sent
  <2>2. UNCHANGED up \/ Send(k, Stop)
    BY DEF HandleStopBacktesting
  <2> QED BY <1>2, <2>1, <2>2, BridgeSendOK DEF EditorOK
<1>5. EditorOK'
  BY <1>2, <1>3, <1>4 DEF EditorOK, HandleStopBacktesting
<1> QED BY <1>1, <1>5 DEF BridgeOK

\* A fetch is sent at once.
LEMMA HandleFetchOK ==
    ASSUME BridgeOK, NEW k \in Clients, HandleFetchOrUpdateBarData(k)
    PROVE  BridgeOK'
<1>1. CoreOK' /\ ServerOK'
  BY EditorApart DEF BridgeOK, HandleFetchOrUpdateBarData
<1>2. EditorOK /\ Begin(k) /\ Send(k, Fetch)
  BY DEF BridgeOK, HandleFetchOrUpdateBarData
<1>3. up' \in [Clients -> Seq(Sent)]
  BY <1>2, BridgeSendOK DEF Sent
<1>4. EditorOK'
  BY <1>2, <1>3, BeginOK DEF EditorOK, HandleFetchOrUpdateBarData
<1> QED BY <1>1, <1>4 DEF BridgeOK

\* The client shows another configuration.
LEMMA ChangeConfigOK ==
    ASSUME BridgeOK, NEW k \in Clients, ChangeConfig(k)
    PROVE  BridgeOK'
<1>1. CoreOK' /\ ServerOK'
  BY EditorApart DEF BridgeOK, ChangeConfig
<1>2. config' \in [Clients -> Configs]
  BY DEF BridgeOK, EditorOK, ChangeConfig
<1>3. EditorOK'
  BY <1>2 DEF BridgeOK, EditorOK, ChangeConfig
<1> QED BY <1>1, <1>3 DEF BridgeOK

\* An end that is heard of releases the client.
LEMMA HandleMessageOK ==
    ASSUME BridgeOK, NEW k \in Clients, HandleMessage(k)
    PROVE  BridgeOK'
<1>1. CoreOK' /\ ServerOK'
  BY EditorApart DEF BridgeOK, HandleMessage
<1>2. EditorOK
  BY DEF BridgeOK
<1>3. needsReload' \in [Clients -> BOOLEAN]
  <2>1. (needsReload[k] \/ Head(down[k]) = "fetchSuccess") \in BOOLEAN
    BY Zenon
  <2>2. needsReload' = [needsReload EXCEPT ![k] = needsReload[k] \/ Head(down[k]) = "fetchSuccess"]
    BY DEF HandleMessage
  <2>3. needsReload \in [Clients -> BOOLEAN]
    BY <1>2 DEF EditorOK
  <2> QED BY <2>1, <2>2, <2>3, Zenon
<1>4. EditorOK'
  BY <1>2, <1>3, ReleaseOK DEF EditorOK, HandleMessage
<1> QED BY <1>1, <1>4 DEF BridgeOK

\* A command that is passed on is written for the engine, or forgotten.
LEMMA PassOnOK ==
    ASSUME BridgeOK, NEW k \in Clients, PassOn(k)
    PROVE  BridgeOK'
<1>1. EditorOK /\ CoreOK /\ ServerOK
  BY DEF BridgeOK
<1>2. Head(up[k]) \in Sent /\ Tail(up[k]) \in Seq(Sent)
  <2>1. up[k] \in Seq(Sent) /\ up[k] # <<>>
    BY <1>1 DEF EditorOK, PassOn
  <2> QED BY <2>1
<1>3. EditorOK'
  BY <1>1, <1>2 DEF EditorOK, PassOn, editor
<1>4. CASE engine = "ready"
  <2>1. Core!Write(Head(up[k])) /\ requesters' \in {requesters, Append(requesters, k)}
        /\ UNCHANGED <<engine, successes>>
    BY <1>4 DEF PassOn
  <2>2. pipe' \in Seq(Sent)
    BY <1>1, <1>2, <2>1 DEF CoreOK, Core!Write
  <2>3. CoreOK'
    BY <1>1, <2>1, <2>2 DEF CoreOK, Core!Write
  <2>4. requesters' \in Seq(Clients)
    BY <1>1, <2>1 DEF ServerOK
  <2>5. ServerOK'
    BY <1>1, <1>4, <2>1, <2>4 DEF ServerOK
  <2> QED BY <1>3, <2>3, <2>5 DEF BridgeOK
<1>5. CASE engine # "ready"
  <2>1. UNCHANGED <<core, server>>
    BY <1>5 DEF PassOn, server
  <2> QED BY <1>1, <1>3, <2>1, EditorApart DEF BridgeOK
<1> QED BY <1>4, <1>5

\* An engine that gets ready has done nothing yet.
LEMMA EngineReadyOK ==
    ASSUME BridgeOK, EngineReady
    PROVE  BridgeOK'
<1>1. EditorOK'
  BY DEF BridgeOK, EditorOK, EngineReady, editor
<1>2. CoreOK'
  BY DEF BridgeOK, CoreOK, EngineReady, core
<1>3. ServerOK'
  BY DEF BridgeOK, ServerOK, EngineReady, core
<1> QED BY <1>1, <1>2, <1>3 DEF BridgeOK

-----------------------------------------------------------------------------
(* The steps of the engine.                                                *)

\* Every step of the engine keeps to its phases, and only answers are added to its output.
LEMMA CoreStepOK ==
    ASSUME CoreOK, Core!Step
    PROVE  CoreOK'
<1>1. CASE Core!Read
  <2>1. pipe \in Seq(Sent) /\ pipe # <<>>
    BY <1>1 DEF CoreOK, Core!Read
  <2>2. pipe' \in Seq(Sent) /\ Head(pipe) \in Sent
    BY <1>1, <2>1 DEF Core!Read
  <2>3. slot' \in Commands \cup {None}
    BY <1>1, <2>2 DEF CoreOK, Core!Read, Commands
  <2>4. stop' \in BOOLEAN
    BY <1>1, Zenon DEF Core!Read
  <2>5. ~exiting'
    BY <1>1, <2>2, Distinct DEF Core!Read, Sent
  <2>6. UNCHANGED <<busy, phase, bars, out>>
    BY <1>1 DEF Core!Read
  <2> QED BY <2>2, <2>3, <2>4, <2>5, <2>6 DEF CoreOK
<1>2. CASE Core!Take
  BY <1>2, Distinct DEF CoreOK, Core!Take, Commands
<1>3. CASE Core!Start
  <2>1. busy \in Commands
    BY <1>3 DEF CoreOK, Core!Start
  <2>2. stop' \in BOOLEAN
    BY <1>3, Zenon DEF Core!Start
  <2> QED BY <1>3, <2>1, <2>2, Distinct DEF CoreOK, Core!Start, Commands
<1>4. CASE Core!Prepare
  BY <1>4 DEF CoreOK, Core!Prepare, Core!Goto
<1>5. CASE Core!Added
  <2>1. busy.config \in Configs
    BY <1>5, Distinct DEF CoreOK, Core!Added
  <2> QED BY <1>5, <2>1 DEF CoreOK, Core!Added, Core!Goto
<1>6. ASSUME NEW a \in Answers, Core!Answer(a), Core!Done, UNCHANGED bars PROVE CoreOK'
  <2>1. out' \in Seq(Answers)
    BY <1>6 DEF CoreOK, Core!Answer
  <2> QED BY <1>6, <2>1 DEF CoreOK, Core!Answer, Core!Done
<1>7. CASE Core!Stopped
  BY <1>6, <1>7 DEF Core!Stopped, Answers
<1>8. CASE Core!Fails
  BY <1>6, <1>8 DEF Core!Fails, Answers
<1>9. CASE Core!Complete
  <2>1. UNCHANGED <<pipe, slot, stop, exiting>> /\ out' \in Seq(Answers)
    BY <1>9 DEF CoreOK, Core!Complete, Core!Answer, Answers
  <2> QED BY <1>9, <2>1 DEF CoreOK, Core!Complete
<1>10. CASE Core!End
  <2>1. CASE stop
    BY <1>6, <1>10, <2>1 DEF Core!End, Answers
  <2>2. CASE ~stop
    BY <1>10, <2>2 DEF CoreOK, Core!End, Core!Done
  <2> QED BY <2>1, <2>2
<1>11. CASE Core!Fetched
  <2>1. \E a \in Answers : Core!Answer(a)
    BY <1>11 DEF Core!Fetched, Answers
  <2> QED BY <1>6, <1>11, <2>1 DEF Core!Fetched
<1> QED BY <1>1, <1>2, <1>3, <1>4, <1>5, <1>7, <1>8, <1>9, <1>10, <1>11 DEF Core!Step

\* A step of the engine touches neither the editors nor the queue of the server.
LEMMA EngineStepOK ==
    ASSUME BridgeOK, EngineStep
    PROVE  BridgeOK'
<1>1. CoreOK'
  BY CoreStepOK DEF BridgeOK, EngineStep
<1>2. EditorOK'
  BY DEF BridgeOK, EditorOK, EngineStep, editor
<1>3. ServerOK'
  BY DEF BridgeOK, ServerOK, EngineStep, server
<1> QED BY <1>1, <1>2, <1>3 DEF BridgeOK

-----------------------------------------------------------------------------
(* What the engine says, and its end.                                      *)

\* The queue of the requesters, less its head.
LEMMA ShiftedOK ==
    ASSUME ServerOK
    PROVE  /\ Shifted \in Seq(Clients)
           /\ Len(Shifted) = IF requesters = <<>> THEN 0 ELSE Len(requesters) - 1
<1>1. requesters \in Seq(Clients)
  BY DEF ServerOK
<1>2. CASE requesters = <<>>
  BY <1>2 DEF Shifted
<1>3. CASE requesters # <<>>
  BY <1>1, <1>3 DEF Shifted
<1> QED BY <1>2, <1>3

\* An answer that is read is passed on, or waits for the list of the results.
LEMMA ReadOutputOK ==
    ASSUME BridgeOK, ReadOutput
    PROVE  BridgeOK'
<1>1. EditorOK /\ CoreOK /\ ServerOK /\ Core!ReadAnswer
  BY DEF BridgeOK, ReadOutput
<1>2. EditorOK'
  BY <1>1 DEF EditorOK, ReadOutput, editor
<1>3. CoreOK'
  BY <1>1 DEF CoreOK, Core!ReadAnswer
<1>4. requesters' \in {requesters, Shifted} /\ successes' \in {successes, Append(successes, "listing")}
  BY DEF ReadOutput, NotifyAllClientsBacktestingFailed
<1>5. requesters' \in Seq(Clients) /\ successes' \in Seq(Clients \cup {"listing"})
  BY <1>1, <1>4, ShiftedOK DEF ServerOK
<1>6. ServerOK'
  BY <1>1, <1>5 DEF ServerOK, ReadOutput, Core!ReadAnswer
<1> QED BY <1>2, <1>3, <1>6 DEF BridgeOK

\* An answer that is cut is lost, and nothing else.
LEMMA CutLineOK ==
    ASSUME BridgeOK, CutLine
    PROVE  BridgeOK'
<1>1. UNCHANGED <<editor, up, server, commands>> /\ cut' = TRUE /\ Core!ReadAnswer
  BY DEF CutLine
<1>2. cut' \in BOOLEAN
  BY <1>1, Zenon
<1>3. EditorOK'
  BY <1>1, <1>2 DEF BridgeOK, EditorOK, editor
<1>4. CoreOK'
  BY <1>1 DEF BridgeOK, CoreOK, Core!ReadAnswer
<1>5. ServerOK'
  BY <1>1 DEF BridgeOK, ServerOK, server, Core!ReadAnswer
<1> QED BY <1>3, <1>4, <1>5 DEF BridgeOK

\* A success that was listed takes a requester.
LEMMA ListedOK ==
    ASSUME BridgeOK, NEW i \in DOMAIN successes, Listed(i)
    PROVE  BridgeOK'
<1>1. ServerOK /\ successes \in Seq(Clients \cup {"listing"})
  BY DEF BridgeOK, ServerOK
<1>2. EditorOK' /\ CoreOK'
  BY DEF BridgeOK, EditorOK, CoreOK, Listed, editor, core
<1>3. successes' \in Seq(Clients \cup {"listing"})
  <2>1. CASE requesters = <<>>
    BY <1>1, <2>1, CountRemoveAt DEF Listed
  <2>2. CASE requesters # <<>>
    <3>1. Head(requesters) \in Clients
      BY <1>1, <2>2 DEF ServerOK
    <3> QED BY <1>1, <2>2, <3>1 DEF Listed
  <2> QED BY <2>1, <2>2
<1>4. requesters' \in Seq(Clients)
  BY <1>1, ShiftedOK DEF Listed
<1>5. successes # <<>>
  OBVIOUS
<1>6. ServerOK'
  BY <1>1, <1>3, <1>4, <1>5 DEF ServerOK, Listed, core
<1> QED BY <1>2, <1>6 DEF BridgeOK

\* A success that is told is gone.
LEMMA NotifySuccessOK ==
    ASSUME BridgeOK, NEW i \in DOMAIN successes, NotifySuccess(i)
    PROVE  BridgeOK'
<1>1. ServerOK /\ successes \in Seq(Clients \cup {"listing"}) /\ successes # <<>>
  BY DEF BridgeOK, ServerOK
<1>2. EditorOK' /\ CoreOK'
  BY DEF BridgeOK, EditorOK, CoreOK, NotifySuccess, editor, core
<1>3. successes' \in Seq(Clients \cup {"listing"})
  BY <1>1, CountRemoveAt DEF NotifySuccess
<1>4. ServerOK'
  BY <1>1, <1>3 DEF ServerOK, NotifySuccess, core
<1> QED BY <1>2, <1>4 DEF BridgeOK

\* An engine that ends leaves no command.
LEMMA EngineEndsOK ==
    ASSUME BridgeOK, EngineEnds
    PROVE  BridgeOK'
<1>1. EditorOK'
  BY DEF BridgeOK, EditorOK, EngineEnds, editor
<1>2. CoreOK'
  <2>1. pipe' = <<>> /\ slot' = None /\ busy' = None /\ phase' = "idle"
        /\ UNCHANGED <<stop, exiting, bars, out>>
    BY DEF EngineEnds
  <2>2. pipe' \in Seq(Sent)
    BY <2>1
  <2> QED BY <2>1, <2>2 DEF BridgeOK, CoreOK
<1>3. ServerOK'
  <2>1. requesters' = Shifted
    BY DEF EngineEnds, NotifyAllClientsBacktestingFailed
  <2> QED BY <2>1, ShiftedOK DEF BridgeOK, ServerOK, EngineEnds
<1> QED BY <1>1, <1>2, <1>3 DEF BridgeOK

\* Every step keeps the types.
LEMMA BridgeNextOK ==
    ASSUME BridgeOK, [BridgeNext]_bridgeVars
    PROVE  BridgeOK'
<1>1. ASSUME NEW k \in Clients, Click(k) PROVE BridgeOK'
  BY <1>1, HandleRunOK, HandleStopOK, HandleFetchOK, ChangeConfigOK DEF Click
<1>2. ASSUME NEW k \in Clients, BuildEnds(k) PROVE BridgeOK'
  BY <1>2, BuiltOK, BuildFailedOK DEF BuildEnds
<1>3. CASE Notifies
  BY <1>3, ListedOK, NotifySuccessOK DEF Notifies
<1>4. CASE UNCHANGED bridgeVars
  <2>1. UNCHANGED <<editor, up, down, server, core, commands, unapplied, cut>>
    BY <1>4 DEF bridgeVars
  <2> QED BY <2>1 DEF BridgeOK, EditorOK, CoreOK, ServerOK, editor, server, core
<1> QED
  BY <1>1, <1>2, <1>3, <1>4, HandleMessageOK, PassOnOK, EngineReadyOK, EngineStepOK, ReadOutputOK,
     CutLineOK, EngineEndsOK DEF BridgeNext

\* The editors, the server and the engine keep to their types and phases.
THEOREM BridgeInductive == BridgeSpec => []BridgeOK
<1>1. BridgeInit => BridgeOK
  BY BridgeInitOK
<1>2. BridgeOK /\ [BridgeNext]_bridgeVars => BridgeOK'
  BY BridgeNextOK
<1> QED BY <1>1, <1>2, PTL DEF BridgeSpec

\* Every variable of the bridge stays in its domain.
THEOREM BridgeTypeCorrect == BridgeSpec => []BridgeTypeOK
<1>1. BridgeOK => BridgeTypeOK
  <2> SUFFICES ASSUME BridgeOK PROVE BridgeTypeOK
    OBVIOUS
  <2>1. \A k \in Clients :
          /\ builds[k] \subseteq (0..MaxCommands - 1) \X Configs
          /\ up[k] \in Seq(Runs \cup {Fetch, Stop})
    BY DEF BridgeOK, EditorOK, Sent
  <2> QED BY <2>1 DEF BridgeOK, EditorOK, CoreOK, ServerOK, BridgeTypeOK, Sent, Commands
<1> QED BY <1>1, BridgeInductive, PTL

-----------------------------------------------------------------------------
(* Someone is told.                                                        *)

\* Backtests the engine is still to answer, or whose answer is not read.
Owed == RunsIn(pipe) + RunsIn(<<slot>>) + (IF IsRun(busy) /\ ~Answered THEN 1 ELSE 0) + EndsIn(out)

\* These are so many.
LEMMA OwedIsNat ==
    ASSUME CoreOK
    PROVE  /\ RunsIn(pipe) \in Nat /\ EndsIn(out) \in Nat /\ Owed \in Nat
           /\ RunsIn(<<slot>>) = IF IsRun(slot) THEN 1 ELSE 0
<1>1. RunsIn(pipe) \in Nat /\ EndsIn(out) \in Nat
  BY CountIsNat DEF CoreOK, RunsIn, EndsIn
<1>2. RunsIn(<<slot>>) = IF IsRun(slot) THEN 1 ELSE 0
  BY CountOne DEF RunsIn, IsRun
<1> QED BY <1>1, <1>2 DEF Owed

\* An answer is added, and counts if it is a success or a failure.
LEMMA AnswerOwes ==
    ASSUME CoreOK, NEW a \in Answers, Core!Answer(a)
    PROVE  EndsIn(out') = EndsIn(out) + (IF a \in {"completed", "failed"} THEN 1 ELSE 0)
BY CountAppend DEF CoreOK, Core!Answer, EndsIn

\* The engine never owes more than it was given: a run it overwrites is answered by
\* nothing, one that it answers is over.
LEMMA CoreOwes ==
    ASSUME CoreOK, Core!Step
    PROVE  Owed' <= Owed /\ Owed' \in Nat
<1>1. CoreOK'
  BY CoreStepOK
<1>2. /\ RunsIn(pipe) \in Nat /\ EndsIn(out) \in Nat
      /\ RunsIn(<<slot>>) = IF IsRun(slot) THEN 1 ELSE 0
      /\ RunsIn(pipe') \in Nat /\ EndsIn(out') \in Nat
      /\ RunsIn(<<slot'>>) = IF IsRun(slot') THEN 1 ELSE 0
  <2>1. pipe' \in Seq(Sent) /\ out' \in Seq(Answers)
    BY <1>1 DEF CoreOK
  <2>2. RunsIn(pipe') \in Nat /\ EndsIn(out') \in Nat
    BY <2>1, CountIsNat DEF RunsIn, EndsIn
  <2>3. RunsIn(<<slot'>>) = IF IsRun(slot') THEN 1 ELSE 0
    BY CountOne DEF RunsIn, IsRun
  <2> QED BY <2>2, <2>3, OwedIsNat
<1>3. ~IsRun(None) /\ ~IsRun(Fetch)
  BY Distinct DEF IsRun
<1>4. CASE Core!Read
  <2>1. RunsIn(pipe) = RunsIn(pipe') + (IF IsRun(Head(pipe)) THEN 1 ELSE 0)
    BY <1>4, CountTail DEF CoreOK, Core!Read, RunsIn, IsRun
  <2>2. IsRun(Head(pipe)) => slot' = Head(pipe)
    BY <1>4 DEF Core!Read, IsRun
  <2>3. slot' \in {Head(pipe), slot} /\ UNCHANGED <<busy, phase, out>>
    BY <1>4 DEF Core!Read
  <2> QED BY <1>2, <2>1, <2>2, <2>3 DEF Owed, Answered, IsRun, RunsIn, EndsIn
<1>5. CASE Core!Take
  <2>1. ~IsRun(busy) /\ ~IsRun(slot') /\ busy' = slot /\ UNCHANGED <<pipe, out>>
    BY <1>3, <1>5 DEF CoreOK, Core!Take
  <2> QED BY <1>2, <2>1 DEF Owed, Answered, IsRun, RunsIn, EndsIn
<1>6. CASE Core!Start \/ Core!Prepare \/ Core!Added
  <2>1. UNCHANGED <<pipe, slot, busy, out>> /\ phase # "ending" /\ phase' # "ending"
    BY <1>6 DEF Core!Start, Core!Prepare, Core!Added, Core!Goto
  <2> QED BY <1>2, <2>1 DEF Owed, Answered, IsRun, RunsIn, EndsIn
<1>7. CASE Core!Stopped \/ Core!Fails
  <2>1. IsRun(busy) /\ phase # "ending" /\ ~IsRun(busy') /\ UNCHANGED <<pipe, slot>>
    BY <1>3, <1>7 DEF CoreOK, Core!Stopped, Core!Fails, Core!Answer, Core!Done, IsRun
  <2>2. EndsIn(out') <= EndsIn(out) + 1
    <3>1. \E a \in Answers : Core!Answer(a)
      BY <1>7 DEF Core!Stopped, Core!Fails, Answers
    <3> QED BY <1>2, <3>1, AnswerOwes
  <2> QED BY <1>2, <2>1, <2>2 DEF Owed, Answered, IsRun, EndsIn
<1>8. CASE Core!Complete
  <2>1. IsRun(busy) /\ phase # "ending" /\ phase' = "ending" /\ UNCHANGED <<pipe, slot>>
    BY <1>8 DEF CoreOK, Core!Complete, Core!Answer, IsRun
  <2>2. EndsIn(out') <= EndsIn(out) + 1
    <3>1. UNCHANGED out \/ Core!Answer("completed")
      BY <1>8 DEF Core!Complete
    <3> QED BY <1>2, <3>1, AnswerOwes DEF Answers
  <2> QED BY <1>2, <2>1, <2>2 DEF Owed, Answered, IsRun, EndsIn
<1>9. CASE Core!End
  <2>1. phase = "ending" /\ ~IsRun(busy') /\ UNCHANGED <<pipe, slot>>
    BY <1>3, <1>9 DEF Core!End, Core!Answer, Core!Done
  <2>2. EndsIn(out') = EndsIn(out)
    <3>1. UNCHANGED out \/ Core!Answer("stopped")
      BY <1>9 DEF Core!End
    <3> QED BY <1>2, <3>1, AnswerOwes DEF Answers
  <2> QED BY <1>2, <2>1, <2>2 DEF Owed, Answered, IsRun, EndsIn
<1>10. CASE Core!Fetched
  <2>1. ~IsRun(busy) /\ ~IsRun(busy') /\ UNCHANGED <<pipe, slot>>
    BY <1>3, <1>10 DEF CoreOK, Core!Fetched, Core!Answer, Core!Done
  <2>2. EndsIn(out') = EndsIn(out)
    <3>1. \E a \in {"fetchStopped", "fetchCompleted", "fetchFailed"} : Core!Answer(a)
      BY <1>10 DEF Core!Fetched
    <3> QED BY <1>2, <3>1, AnswerOwes DEF Answers
  <2> QED BY <1>2, <2>1, <2>2 DEF Owed, Answered, IsRun, EndsIn
<1> QED BY <1>4, <1>5, <1>6, <1>7, <1>8, <1>9, <1>10 DEF Core!Step

\* The successes that wait for the list of the results are so many.
LEMMA ListingIsNat ==
    ASSUME ServerOK
    PROVE  ListingIn(successes) \in Nat
BY CountIsNat DEF ServerOK, ListingIn

\* A run that is passed on has its requester remembered.
LEMMA PassOnTells ==
    ASSUME BridgeOK, SomeoneIsTold, NEW k \in Clients, PassOn(k)
    PROVE  SomeoneIsTold'
<1> SUFFICES ASSUME engine = "ready" PROVE Outstanding' <= Len(requesters')
  BY DEF PassOn, SomeoneIsTold
<1> DEFINE x == Head(up[k])
<1>1. CoreOK /\ ServerOK /\ Outstanding <= Len(requesters)
  BY DEF BridgeOK, SomeoneIsTold
<1>2. x \in Sent
  <2>1. up[k] \in Seq(Sent) /\ up[k] # <<>>
    BY DEF BridgeOK, EditorOK, PassOn
  <2> QED BY <2>1
<1>3. /\ Core!Write(x) /\ UNCHANGED successes
      /\ requesters' = IF IsRun(x) THEN Append(requesters, k) ELSE requesters
  BY DEF PassOn
<1>4. RunsIn(pipe') = RunsIn(pipe) + (IF IsRun(x) THEN 1 ELSE 0)
  BY <1>1, <1>2, <1>3, CountAppend DEF CoreOK, Core!Write, RunsIn, IsRun
<1>5. UNCHANGED <<slot, busy, phase, out>>
  BY <1>3 DEF Core!Write
<1>6. /\ RunsIn(pipe) \in Nat /\ EndsIn(out) \in Nat /\ ListingIn(successes) \in Nat
      /\ RunsIn(<<slot>>) = IF IsRun(slot) THEN 1 ELSE 0
  BY <1>1, OwedIsNat, ListingIsNat
<1>7. Outstanding' = Outstanding + (IF IsRun(x) THEN 1 ELSE 0)
  BY <1>3, <1>4, <1>5, <1>6 DEF Outstanding, Answered, IsRun, RunsIn, EndsIn, ListingIn
<1>8. Len(requesters') = Len(requesters) + (IF IsRun(x) THEN 1 ELSE 0)
  BY <1>1, <1>3 DEF ServerOK
<1>9. Outstanding \in Nat /\ Len(requesters) \in Nat
  BY <1>1, <1>6 DEF Outstanding, ServerOK
<1> QED BY <1>1, <1>7, <1>8, <1>9

\* An engine that gets ready owes nothing.
LEMMA EngineReadyTells ==
    ASSUME BridgeOK, EngineReady
    PROVE  SomeoneIsTold'
<1>1. pipe' = <<>> /\ slot' = None /\ busy' = None /\ out' = <<>> /\ successes' = <<>>
      /\ requesters' = <<>>
  BY DEF BridgeOK, ServerOK, EngineReady, core
<1>2. RunsIn(<<None>>) = 0 /\ ~IsRun(None)
  BY CountOne, Distinct DEF RunsIn, IsRun
<1>3. RunsIn(<<>>) = 0 /\ EndsIn(<<>>) = 0 /\ ListingIn(<<>>) = 0
  BY CountEmpty DEF RunsIn, EndsIn, ListingIn
<1>4. Outstanding' = 0
  BY <1>1, <1>2, <1>3 DEF Outstanding, Answered, IsRun, RunsIn, EndsIn, ListingIn
<1> QED BY <1>1, <1>4 DEF SomeoneIsTold

\* A step of the engine owes no more.
LEMMA EngineStepTells ==
    ASSUME BridgeOK, SomeoneIsTold, EngineStep
    PROVE  SomeoneIsTold'
<1>1. CoreOK /\ CoreOK' /\ ServerOK /\ Owed' <= Owed /\ UNCHANGED <<engine, requesters, successes>>
  BY CoreStepOK, CoreOwes DEF BridgeOK, EngineStep, server
<1>2. Owed \in Nat /\ ListingIn(successes) \in Nat /\ Len(requesters) \in Nat
  BY <1>1, OwedIsNat, ListingIsNat DEF ServerOK
<1>3. Outstanding = Owed + ListingIn(successes)
  BY DEF Outstanding, Owed
<1>4. Owed' \in Nat
  BY CoreOwes DEF BridgeOK, EngineStep
<1>5. Outstanding' = Owed' + ListingIn(successes')
  BY DEF Outstanding, Owed
<1> QED BY <1>1, <1>2, <1>3, <1>4, <1>5 DEF SomeoneIsTold, EngineStep

\* A failure that is read takes a requester; a success that is read still waits for one.
LEMMA ReadOutputTells ==
    ASSUME BridgeOK, SomeoneIsTold, ReadOutput
    PROVE  SomeoneIsTold'
<1> SUFFICES ASSUME engine = "ready" PROVE Outstanding' <= Len(requesters')
  BY DEF ReadOutput, SomeoneIsTold
<1> DEFINE a == Head(out)
<1>1. CoreOK /\ ServerOK /\ Outstanding <= Len(requesters) /\ Core!ReadAnswer
  BY DEF BridgeOK, SomeoneIsTold, ReadOutput
<1>2. UNCHANGED <<pipe, slot, busy, phase>>
  BY <1>1 DEF Core!ReadAnswer
<1>3. EndsIn(out) = EndsIn(out') + (IF a \in {"completed", "failed"} THEN 1 ELSE 0)
  BY <1>1, CountTail DEF CoreOK, Core!ReadAnswer, EndsIn
<1>4. /\ RunsIn(pipe) \in Nat /\ EndsIn(out) \in Nat /\ ListingIn(successes) \in Nat
      /\ RunsIn(<<slot>>) = IF IsRun(slot) THEN 1 ELSE 0
  BY <1>1, OwedIsNat, ListingIsNat
<1>5. EndsIn(out') \in Nat
  <2>1. CoreOK'
    BY <1>1 DEF CoreOK, Core!ReadAnswer
  <2> QED BY <2>1, CountIsNat DEF CoreOK, EndsIn
<1>6. Outstanding \in Nat /\ Len(requesters) \in Nat
  BY <1>1, <1>4 DEF Outstanding, ServerOK
<1>7. CASE a = "completed"
  <2>1. successes' = Append(successes, "listing") /\ UNCHANGED requesters
    BY <1>7 DEF ReadOutput
  <2>2. ListingIn(successes') = ListingIn(successes) + 1
    BY <1>1, <2>1, CountAppend DEF ServerOK, ListingIn
  <2>3. Outstanding' = Outstanding
    BY <1>2, <1>3, <1>4, <1>5, <1>7, <2>2 DEF Outstanding, Answered, IsRun, RunsIn, EndsIn, ListingIn
  <2> QED BY <1>1, <2>1, <2>3
<1>8. CASE a = "failed"
  <2>1. requesters' = Shifted /\ UNCHANGED successes
    BY <1>8 DEF ReadOutput, NotifyAllClientsBacktestingFailed
  <2>2. Outstanding' = Outstanding - 1
    BY <1>2, <1>3, <1>4, <1>5, <1>8, <2>1 DEF Outstanding, Answered, IsRun, RunsIn, EndsIn, ListingIn
  <2>3. Outstanding >= 1
    BY <1>3, <1>4, <1>5, <1>8 DEF Outstanding
  <2>4. Len(requesters') = IF requesters = <<>> THEN 0 ELSE Len(requesters) - 1
    BY <1>1, <2>1, ShiftedOK
  <2>5. requesters # <<>>
    BY <1>1, <1>6, <2>3
  <2> QED BY <1>1, <1>6, <2>2, <2>4, <2>5
<1>9. CASE a \notin {"completed", "failed"}
  <2>1. UNCHANGED <<requesters, successes>>
    BY <1>9 DEF ReadOutput
  <2>2. Outstanding' = Outstanding
    BY <1>2, <1>3, <1>4, <1>5, <1>9, <2>1 DEF Outstanding, Answered, IsRun, RunsIn, EndsIn, ListingIn
  <2> QED BY <1>1, <2>1, <2>2
<1> QED BY <1>7, <1>8, <1>9

\* An answer that is cut is not owed any more, and takes no requester.
LEMMA CutLineTells ==
    ASSUME BridgeOK, SomeoneIsTold, CutLine
    PROVE  SomeoneIsTold'
<1> SUFFICES ASSUME engine = "ready" PROVE Outstanding' <= Len(requesters')
  BY DEF CutLine, server, SomeoneIsTold
<1>1. CoreOK /\ ServerOK /\ Outstanding <= Len(requesters) /\ Core!ReadAnswer
  BY DEF BridgeOK, SomeoneIsTold, CutLine
<1>2. UNCHANGED <<pipe, slot, busy, phase, requesters, successes>>
  BY <1>1 DEF CutLine, server, Core!ReadAnswer
<1>3. EndsIn(out) = EndsIn(out') + (IF Head(out) \in {"completed", "failed"} THEN 1 ELSE 0)
  BY <1>1, CountTail DEF CoreOK, Core!ReadAnswer, EndsIn
<1>4. EndsIn(out') \in Nat
  <2>1. CoreOK'
    BY <1>1 DEF CoreOK, Core!ReadAnswer
  <2> QED BY <2>1, CountIsNat DEF CoreOK, EndsIn
<1>5. /\ RunsIn(pipe) \in Nat /\ EndsIn(out) \in Nat /\ ListingIn(successes) \in Nat
      /\ RunsIn(<<slot>>) = IF IsRun(slot) THEN 1 ELSE 0
  BY <1>1, OwedIsNat, ListingIsNat
<1>6. Outstanding' <= Outstanding /\ Outstanding' \in Nat /\ Outstanding \in Nat
  BY <1>2, <1>3, <1>4, <1>5 DEF Outstanding, Answered, IsRun, RunsIn, EndsIn, ListingIn
<1>7. Len(requesters) \in Nat
  BY <1>1 DEF ServerOK
<1> QED BY <1>1, <1>2, <1>6, <1>7

\* A success that was listed has taken its requester.
LEMMA ListedTells ==
    ASSUME BridgeOK, SomeoneIsTold, NEW i \in DOMAIN successes, Listed(i)
    PROVE  SomeoneIsTold'
<1> SUFFICES ASSUME engine = "ready" PROVE Outstanding' <= Len(requesters')
  BY DEF Listed, SomeoneIsTold
<1>1. CoreOK /\ ServerOK /\ Outstanding <= Len(requesters) /\ UNCHANGED core
  BY DEF BridgeOK, SomeoneIsTold, Listed
<1>2. successes \in Seq(Clients \cup {"listing"}) /\ requesters \in Seq(Clients)
  BY <1>1 DEF ServerOK
<1>3. ListingIn(successes) = ListingIn(successes') + 1
  <2>1. CASE requesters = <<>>
    BY <1>2, <2>1, CountRemoveAt DEF Listed, ListingIn
  <2>2. CASE requesters # <<>>
    <3>1. Head(requesters) \in Clients /\ Head(requesters) # "listing"
      BY <1>2, <2>2, BridgeAssumption
    <3>2. /\ successes[i] \in {"listing"} /\ Head(requesters) \notin {"listing"}
          /\ successes' = [successes EXCEPT ![i] = Head(requesters)]
      BY <2>2, <3>1 DEF Listed
    <3>3. Head(requesters) \in Clients \cup {"listing"}
      BY <3>1
    <3> DEFINE A == Clients \cup {"listing"}
               S == {"listing"}
               x == Head(requesters)
    <3>4. successes \in Seq(A) /\ x \in A /\ successes[i] \in S /\ x \notin S
      BY <1>2, <3>2, <3>3
    <3> HIDE DEF A, S, x
    <3>5. CountIn(successes, S) = CountIn([successes EXCEPT ![i] = x], S) + 1
      BY <3>4, CountExcept
    <3> QED BY <3>2, <3>5 DEF ListingIn, S, x
  <2> QED BY <2>1, <2>2
<1>4. /\ RunsIn(pipe) \in Nat /\ EndsIn(out) \in Nat /\ ListingIn(successes) \in Nat
      /\ RunsIn(<<slot>>) = IF IsRun(slot) THEN 1 ELSE 0
  BY <1>1, OwedIsNat, ListingIsNat
<1>5. ListingIn(successes') \in Nat
  BY ListedOK, CountIsNat DEF BridgeOK, ServerOK, ListingIn
<1>6. Outstanding' = Outstanding - 1 /\ Outstanding >= 1
  BY <1>1, <1>3, <1>4, <1>5 DEF Outstanding, Answered, IsRun, RunsIn, EndsIn, ListingIn, core
<1>7. Len(requesters') = IF requesters = <<>> THEN 0 ELSE Len(requesters) - 1
  BY <1>1, ShiftedOK DEF Listed
<1>8. Outstanding \in Nat /\ Len(requesters) \in Nat
  BY <1>2, <1>4 DEF Outstanding
<1>9. requesters # <<>>
  BY <1>1, <1>6, <1>8
<1> QED BY <1>1, <1>6, <1>7, <1>8, <1>9

\* A success that is told does not wait for a requester.
LEMMA NotifySuccessTells ==
    ASSUME BridgeOK, SomeoneIsTold, NEW i \in DOMAIN successes, NotifySuccess(i)
    PROVE  SomeoneIsTold'
<1>1. CoreOK /\ ServerOK /\ UNCHANGED <<core, engine, requesters>>
  BY DEF BridgeOK, NotifySuccess
<1>2. ListingIn(successes) = ListingIn(successes')
  <2>1. successes[i] \notin {"listing"}
    BY BridgeAssumption DEF NotifySuccess
  <2>2. ListingIn(successes) = ListingIn(successes') + 0 /\ ListingIn(successes') \in Nat
    BY <1>1, <2>1, CountRemoveAt, CountIsNat DEF ServerOK, NotifySuccess, ListingIn
  <2> QED BY <2>2
<1> QED BY <1>1, <1>2 DEF SomeoneIsTold, Outstanding, Answered, IsRun, RunsIn, EndsIn, ListingIn, core

\* Whatever was stopped, overwritten or answered twice, no success and no failure of
\* a backtest ever finds the queue of requesters empty.
THEOREM SomeoneIsToldHolds == BridgeSpec => []SomeoneIsTold
<1>1. BridgeInit => SomeoneIsTold
  BY DEF BridgeInit, SomeoneIsTold
<1>2. BridgeOK /\ SomeoneIsTold /\ [BridgeNext]_bridgeVars => SomeoneIsTold'
  <2> SUFFICES ASSUME BridgeOK, SomeoneIsTold, [BridgeNext]_bridgeVars PROVE SomeoneIsTold'
    OBVIOUS
  <2>1. ASSUME UNCHANGED <<server, core>> PROVE SomeoneIsTold'
    BY <2>1 DEF SomeoneIsTold, Outstanding, Answered, IsRun, RunsIn, EndsIn, ListingIn, core, server
  <2>2. ASSUME NEW k \in Clients, Click(k) PROVE UNCHANGED <<server, core>>
    BY <2>2 DEF Click, HandleRunSingleBacktesting, HandleStopBacktesting, HandleFetchOrUpdateBarData,
                ChangeConfig
  <2>3. ASSUME NEW k \in Clients, BuildEnds(k) PROVE UNCHANGED <<server, core>>
    BY <2>3 DEF BuildEnds, Built, BuildFailed
  <2>4. ASSUME NEW k \in Clients, HandleMessage(k) PROVE UNCHANGED <<server, core>>
    BY <2>4 DEF HandleMessage
  <2>5. CASE Notifies
    BY <2>5, ListedTells, NotifySuccessTells DEF Notifies
  <2>6. CASE EngineEnds
    BY <2>6 DEF EngineEnds, SomeoneIsTold
  <2>7. CASE UNCHANGED bridgeVars
    BY <2>1, <2>7 DEF bridgeVars
  <2> QED
    BY <2>1, <2>2, <2>3, <2>4, <2>5, <2>6, <2>7, PassOnTells, EngineReadyTells, EngineStepTells,
       ReadOutputTells, CutLineTells DEF BridgeNext
<1> QED BY <1>1, <1>2, BridgeInductive, PTL DEF BridgeSpec

-----------------------------------------------------------------------------
(* The bar data match.                                                     *)

\* One window: what BarsMatch needs, since each window remembers only what it sent.
OneWindow == \E k : Clients = {k}

\* The bar data there will be when the run that executes is over, and when the one in
\* the slot is over too; or none, when one of them is stopped.
Loaded  == IF IsRun(busy) THEN busy.config ELSE bars
Waiting == IF IsRun(slot) THEN slot.config ELSE Loaded

\* The runs before and after place j of L, with no other between them.
Adjacent(L, i, j) == i < j /\ IsRun(L[i]) /\ IsRun(L[j]) /\ \A m \in i + 1..j - 1 : ~IsRun(L[m])
FirstRun(L, j)    == IsRun(L[j]) /\ \A m \in 1..j - 1 : ~IsRun(L[m])
LastRun(L, i)     == IsRun(L[i]) /\ \A m \in i + 1..Len(L) : ~IsRun(L[m])

\* On their way to bar data b, each run of L that keeps the bar data is of the
\* configuration of the one before it, and the last is of the configuration h.
Chained(L, b, h) ==
    /\ \A i, j \in DOMAIN L : Adjacent(L, i, j) /\ ~L[j].clear => L[i].config = L[j].config
    /\ \A j \in DOMAIN L : FirstRun(L, j) /\ ~L[j].clear => b \in {NoConfig, L[j].config}
    /\ \A i \in DOMAIN L : LastRun(L, i) => L[i].config = h
    /\ (\A m \in DOMAIN L : ~IsRun(L[m])) => b \in {NoConfig, h}

\* What executes and what waits.
BarsOfRun ==
    /\ phase \in {"taken", "preparing"} /\ IsRun(busy) /\ ~busy.clear => bars \in {NoConfig, busy.config}
    /\ phase = "adding" => bars = NoConfig
    /\ phase \in {"running", "ending"} => bars = busy.config
    /\ IsRun(slot) /\ ~slot.clear => Loaded \in {NoConfig, slot.config}

\* What is on its way, from the window to the engine.
BarsOnTheWay == \A k \in Clients : Chained(pipe \o up[k], Waiting, configHash[k])

BarsInv == ~unapplied /\ engine # "none" => BarsOfRun /\ BarsOnTheWay

-----------------------------------------------------------------------------
(* Chains of runs.                                                         *)

\* With nothing on its way there is nothing to match.
LEMMA ChainEmpty == Chained(<<>>, NoConfig, NoConfig)
BY DEF Chained

\* A chain begins as well with no bar data.
LEMMA ChainForgets ==
    ASSUME NEW L, NEW b, NEW h, Chained(L, b, h), NEW c \in {NoConfig, b}
    PROVE  Chained(L, c, h)
BY DEF Chained

\* What is adjacent or last in the tail of a sequence is so in the sequence.
LEMMA TailPlaces ==
    ASSUME NEW L \in Seq(Sent), L # <<>>
    PROVE  /\ DOMAIN L = 1..Len(L) /\ DOMAIN Tail(L) = 1..Len(L) - 1 /\ Len(L) \in Nat \ {0}
           /\ \A m \in DOMAIN Tail(L) : Tail(L)[m] = L[m + 1] /\ m + 1 \in DOMAIN L
           /\ \A i, j \in DOMAIN Tail(L) : Adjacent(Tail(L), i, j) => Adjacent(L, i + 1, j + 1)
           /\ \A i \in DOMAIN Tail(L) : LastRun(Tail(L), i) => LastRun(L, i + 1)
<1> DEFINE T == Tail(L)
<1>1. /\ DOMAIN L = 1..Len(L) /\ DOMAIN T = 1..Len(L) - 1 /\ Len(L) \in Nat \ {0}
      /\ Len(T) = Len(L) - 1 /\ \A m \in 1..Len(L) - 1 : T[m] = L[m + 1]
  BY HeadTailProperties, EmptySeq
<1> HIDE DEF T
<1>2. \A m \in DOMAIN T : T[m] = L[m + 1] /\ m + 1 \in DOMAIN L
  BY <1>1
<1>3. ASSUME NEW i \in DOMAIN T, NEW j \in DOMAIN T, Adjacent(T, i, j)
      PROVE  Adjacent(L, i + 1, j + 1)
  <2>1. i + 1 < j + 1 /\ IsRun(L[i + 1]) /\ IsRun(L[j + 1])
    BY <1>1, <1>3 DEF Adjacent
  <2>2. ASSUME NEW m \in i + 1 + 1..j + 1 - 1 PROVE ~IsRun(L[m])
    <3>1. m - 1 \in i + 1..j - 1 /\ T[m - 1] = L[m]
      BY <1>1
    <3> QED BY <1>3, <3>1 DEF Adjacent
  <2> QED BY <2>1, <2>2 DEF Adjacent
<1>4. ASSUME NEW i \in DOMAIN T, LastRun(T, i)
      PROVE  LastRun(L, i + 1)
  <2>1. IsRun(L[i + 1])
    BY <1>1, <1>4 DEF LastRun
  <2>2. ASSUME NEW m \in i + 1 + 1..Len(L) PROVE ~IsRun(L[m])
    <3>1. m - 1 \in i + 1..Len(T) /\ T[m - 1] = L[m]
      BY <1>1
    <3> QED BY <1>4, <3>1 DEF LastRun
  <2> QED BY <2>1, <2>2 DEF LastRun
<1> QED BY <1>1, <1>2, <1>3, <1>4 DEF T

\* A first element that is no run can be left out.
LEMMA ChainSkips ==
    ASSUME NEW L \in Seq(Sent), L # <<>>, ~IsRun(L[1]), NEW b, NEW h, Chained(L, b, h)
    PROVE  Chained(Tail(L), b, h)
<1> DEFINE T == Tail(L)
<1>1. /\ DOMAIN L = 1..Len(L) /\ DOMAIN T = 1..Len(L) - 1 /\ Len(L) \in Nat
      /\ \A m \in DOMAIN T : T[m] = L[m + 1] /\ m + 1 \in DOMAIN L
      /\ \A i, j \in DOMAIN T : Adjacent(T, i, j) => Adjacent(L, i + 1, j + 1)
      /\ \A i \in DOMAIN T : LastRun(T, i) => LastRun(L, i + 1)
  BY TailPlaces
<1> HIDE DEF T
<1>2. ASSUME NEW i \in DOMAIN T, NEW j \in DOMAIN T, Adjacent(T, i, j), ~T[j].clear
      PROVE  T[i].config = T[j].config
  BY <1>1, <1>2 DEF Chained
<1>3. ASSUME NEW j \in DOMAIN T, FirstRun(T, j), ~T[j].clear
      PROVE  b \in {NoConfig, T[j].config}
  <2>1. ASSUME NEW m \in 1..j + 1 - 1 PROVE ~IsRun(L[m])
    <3>1. CASE m = 1
      BY <3>1
    <3>2. CASE m # 1
      <4>1. m - 1 \in 1..j - 1 /\ T[m - 1] = L[m]
        BY <1>1, <3>2
      <4> QED BY <1>3, <4>1 DEF FirstRun
    <3> QED BY <3>1, <3>2
  <2>2. FirstRun(L, j + 1)
    BY <1>1, <1>3, <2>1 DEF FirstRun
  <2> QED BY <1>1, <1>3, <2>2 DEF Chained
<1>4. ASSUME NEW i \in DOMAIN T, LastRun(T, i)
      PROVE  T[i].config = h
  BY <1>1, <1>4 DEF Chained
<1>5. ASSUME \A m \in DOMAIN T : ~IsRun(T[m])
      PROVE  b \in {NoConfig, h}
  <2>1. ASSUME NEW m \in DOMAIN L PROVE ~IsRun(L[m])
    <3>1. m = 1 \/ (m - 1 \in DOMAIN T /\ T[m - 1] = L[m])
      BY <1>1
    <3> QED BY <1>5, <3>1
  <2> QED BY <2>1 DEF Chained
<1>6. Chained(T, b, h)
  BY <1>2, <1>3, <1>4, <1>5 DEF Chained
<1> QED BY <1>6 DEF T

\* A first element that is a run begins the rest, with its configuration.
LEMMA ChainTakes ==
    ASSUME NEW L \in Seq(Sent), L # <<>>, IsRun(L[1]), NEW b, NEW h, Chained(L, b, h)
    PROVE  Chained(Tail(L), L[1].config, h) /\ (~L[1].clear => b \in {NoConfig, L[1].config})
<1> DEFINE T == Tail(L)
<1>1. /\ DOMAIN L = 1..Len(L) /\ DOMAIN T = 1..Len(L) - 1 /\ Len(L) \in Nat /\ 1 \in DOMAIN L
      /\ \A m \in DOMAIN T : T[m] = L[m + 1] /\ m + 1 \in DOMAIN L
      /\ \A i, j \in DOMAIN T : Adjacent(T, i, j) => Adjacent(L, i + 1, j + 1)
      /\ \A i \in DOMAIN T : LastRun(T, i) => LastRun(L, i + 1)
  BY TailPlaces
<1> HIDE DEF T
<1>2. ASSUME NEW i \in DOMAIN T, NEW j \in DOMAIN T, Adjacent(T, i, j), ~T[j].clear
      PROVE  T[i].config = T[j].config
  BY <1>1, <1>2 DEF Chained
<1>3. ASSUME NEW j \in DOMAIN T, FirstRun(T, j), ~T[j].clear
      PROVE  L[1].config = T[j].config
  <2>1. j + 1 \in DOMAIN L /\ T[j] = L[j + 1] /\ 1 < j + 1 /\ IsRun(L[j + 1])
    BY <1>1, <1>3 DEF FirstRun
  <2>2. ASSUME NEW m \in 1 + 1..j + 1 - 1 PROVE ~IsRun(L[m])
    <3>1. m - 1 \in 1..j - 1 /\ T[m - 1] = L[m]
      BY <1>1
    <3> QED BY <1>3, <3>1 DEF FirstRun
  <2>3. Adjacent(L, 1, j + 1)
    BY <2>1, <2>2 DEF Adjacent
  <2> QED BY <1>1, <1>3, <2>1, <2>3 DEF Chained
<1>4. ASSUME NEW i \in DOMAIN T, LastRun(T, i)
      PROVE  T[i].config = h
  BY <1>1, <1>4 DEF Chained
<1>5. ASSUME \A m \in DOMAIN T : ~IsRun(T[m])
      PROVE  L[1].config = h
  <2>1. ASSUME NEW m \in 1 + 1..Len(L) PROVE ~IsRun(L[m])
    <3>1. m - 1 \in DOMAIN T /\ T[m - 1] = L[m]
      BY <1>1
    <3> QED BY <1>5, <3>1
  <2>2. LastRun(L, 1)
    BY <2>1 DEF LastRun
  <2> QED BY <1>1, <2>2 DEF Chained
<1>6. Chained(T, L[1].config, h)
  BY <1>2, <1>3, <1>4, <1>5 DEF Chained
<1>7. FirstRun(L, 1)
  BY DEF FirstRun
<1>8. ~L[1].clear => b \in {NoConfig, L[1].config}
  BY <1>1, <1>7 DEF Chained
<1> QED BY <1>6, <1>8 DEF T

\* What is appended and is no run changes nothing.
LEMMA ChainIgnores ==
    ASSUME NEW L \in Seq(Sent), NEW x \in Sent, ~IsRun(x), NEW b, NEW h, Chained(L, b, h)
    PROVE  Chained(Append(L, x), b, h)
<1> DEFINE T == Append(L, x)
<1>1. /\ DOMAIN L = 1..Len(L) /\ DOMAIN T = 1..Len(L) + 1 /\ Len(L) \in Nat /\ Len(T) = Len(L) + 1
      /\ (\A m \in 1..Len(L) : T[m] = L[m]) /\ T[Len(L) + 1] = x
  BY AppendProperties
<1> HIDE DEF T
<1>2. \A m \in DOMAIN T : IsRun(T[m]) => m \in DOMAIN L
  BY <1>1
<1>3. ASSUME NEW i \in DOMAIN T, NEW j \in DOMAIN T, Adjacent(T, i, j), ~T[j].clear
      PROVE  T[i].config = T[j].config
  <2>1. i \in DOMAIN L /\ j \in DOMAIN L /\ T[i] = L[i] /\ T[j] = L[j]
    BY <1>1, <1>2, <1>3 DEF Adjacent
  <2>2. \A m \in i + 1..j - 1 : T[m] = L[m]
    BY <1>1, <2>1
  <2>3. Adjacent(L, i, j)
    BY <1>3, <2>1, <2>2 DEF Adjacent
  <2> QED BY <1>3, <2>1, <2>3 DEF Chained
<1>4. ASSUME NEW j \in DOMAIN T, FirstRun(T, j), ~T[j].clear
      PROVE  b \in {NoConfig, T[j].config}
  <2>1. j \in DOMAIN L /\ T[j] = L[j]
    BY <1>1, <1>2, <1>4 DEF FirstRun
  <2>2. \A m \in 1..j - 1 : T[m] = L[m]
    BY <1>1, <2>1
  <2>3. FirstRun(L, j)
    BY <1>4, <2>1, <2>2 DEF FirstRun
  <2> QED BY <1>4, <2>1, <2>3 DEF Chained
<1>5. ASSUME NEW i \in DOMAIN T, LastRun(T, i)
      PROVE  T[i].config = h
  <2>1. i \in DOMAIN L /\ T[i] = L[i]
    BY <1>1, <1>2, <1>5 DEF LastRun
  <2>2. \A m \in i + 1..Len(L) : T[m] = L[m] /\ m \in i + 1..Len(T)
    BY <1>1, <2>1
  <2>3. LastRun(L, i)
    BY <1>5, <2>1, <2>2 DEF LastRun
  <2> QED BY <2>1, <2>3 DEF Chained
<1>6. ASSUME \A m \in DOMAIN T : ~IsRun(T[m])
      PROVE  b \in {NoConfig, h}
  <2>1. \A m \in DOMAIN L : ~IsRun(L[m])
    BY <1>1, <1>6
  <2> QED BY <2>1 DEF Chained
<1>7. Chained(T, b, h)
  BY <1>3, <1>4, <1>5, <1>6 DEF Chained
<1> QED BY <1>7 DEF T

\* A run that is appended ends the chain: it drops the bar data or is of the last configuration.
LEMMA ChainExtends ==
    ASSUME NEW L \in Seq(Sent), NEW x \in Runs, NEW b, NEW h, Chained(L, b, h),
           x.clear \/ x.config = h
    PROVE  Chained(Append(L, x), b, x.config)
<1> DEFINE T == Append(L, x)
<1>1. /\ DOMAIN L = 1..Len(L) /\ DOMAIN T = 1..Len(L) + 1 /\ Len(L) \in Nat /\ Len(T) = Len(L) + 1
      /\ (\A m \in 1..Len(L) : T[m] = L[m]) /\ T[Len(L) + 1] = x
  <2>1. x \in Sent
    BY DEF Sent
  <2> QED BY <2>1, AppendProperties
<1> HIDE DEF T
<1>2. ASSUME NEW i \in DOMAIN T, NEW j \in DOMAIN T, Adjacent(T, i, j), ~T[j].clear
      PROVE  T[i].config = T[j].config
  <2>1. i \in DOMAIN L /\ T[i] = L[i]
    BY <1>1, <1>2 DEF Adjacent
  <2>2. \A m \in i + 1..j - 1 : m \in DOMAIN L /\ T[m] = L[m]
    BY <1>1, <2>1
  <2>3. CASE j \in DOMAIN L
    <3>1. T[j] = L[j]
      BY <1>1, <2>3
    <3>2. Adjacent(L, i, j)
      BY <1>2, <2>1, <2>2, <3>1 DEF Adjacent
    <3> QED BY <1>2, <2>1, <2>3, <3>1, <3>2 DEF Chained
  <2>4. CASE j = Len(L) + 1
    <3>1. T[j] = x /\ x.config = h
      BY <1>1, <1>2, <2>4
    <3>2. LastRun(L, i)
      BY <1>2, <2>1, <2>2, <2>4 DEF Adjacent, LastRun
    <3> QED BY <2>1, <3>1, <3>2 DEF Chained
  <2> QED BY <1>1, <2>3, <2>4
<1>3. ASSUME NEW j \in DOMAIN T, FirstRun(T, j), ~T[j].clear
      PROVE  b \in {NoConfig, T[j].config}
  <2>1. \A m \in 1..j - 1 : m \in DOMAIN L /\ T[m] = L[m]
    BY <1>1
  <2>2. CASE j \in DOMAIN L
    <3>1. T[j] = L[j]
      BY <1>1, <2>2
    <3>2. FirstRun(L, j)
      BY <1>3, <2>1, <3>1 DEF FirstRun
    <3> QED BY <1>3, <2>2, <3>1, <3>2 DEF Chained
  <2>3. CASE j = Len(L) + 1
    <3>1. T[j] = x /\ x.config = h
      BY <1>1, <1>3, <2>3
    <3>2. \A m \in DOMAIN L : ~IsRun(L[m])
      BY <1>1, <1>3, <2>1, <2>3 DEF FirstRun
    <3> QED BY <3>1, <3>2 DEF Chained
  <2> QED BY <1>1, <2>2, <2>3
<1>4. IsRun(T[Len(L) + 1]) /\ Len(L) + 1 \in DOMAIN T
  BY <1>1 DEF IsRun
<1>5. ASSUME NEW i \in DOMAIN T, LastRun(T, i)
      PROVE  T[i].config = x.config
  <2>1. i = Len(L) + 1
    BY <1>1, <1>4, <1>5 DEF LastRun
  <2> QED BY <1>1, <2>1
<1>6. Chained(T, b, x.config)
  BY <1>2, <1>3, <1>4, <1>5 DEF Chained
<1> QED BY <1>6 DEF T

-----------------------------------------------------------------------------
(* The steps keep the chain.                                               *)

\* A run is of a configuration, which is not the absence of one.
LEMMA LoadedOK ==
    ASSUME CoreOK
    PROVE  /\ Loaded \in Configs \cup {NoConfig} /\ Waiting \in Configs \cup {NoConfig}
           /\ \A c \in Runs : IsRun(c) /\ c.config \in Configs /\ c.config # NoConfig
           /\ ~IsRun(None) /\ ~IsRun(Fetch) /\ ~IsRun(Stop)
BY Distinct, BridgeAssumption DEF CoreOK, Loaded, Waiting, IsRun

\* A step that leaves the pipe alone: what will be loaded stays as it was, or is nothing.
LEMMA ExecuteBars ==
    ASSUME CoreOK, BarsOfRun, Core!Step, ~Core!Read,
           ~(phase = "preparing" /\ phase' = "idle" /\ Loses(busy))
    PROVE  BarsOfRun' /\ Waiting' \in {NoConfig, Waiting} /\ pipe' = pipe
<1>1. ~IsRun(None) /\ ~IsRun(Fetch)
  BY LoadedOK
<1>2. CASE Core!Take
  <2>1. /\ busy = None /\ busy' = slot /\ slot' = None /\ phase' = "taken"
        /\ UNCHANGED <<pipe, bars>>
    BY <1>2 DEF CoreOK, Core!Take
  <2>2. Loaded = bars /\ Loaded' = Waiting /\ Waiting' = Waiting
    BY <1>1, <2>1 DEF Loaded, Waiting
  <2> QED BY <1>1, <2>1, <2>2 DEF BarsOfRun
<1>3. CASE Core!Start
  <2>1. phase = "taken" /\ phase' \in {"preparing", "fetching"} /\ UNCHANGED <<pipe, slot, busy, bars>>
    BY <1>3 DEF Core!Start
  <2> QED BY <2>1 DEF BarsOfRun, Loaded, Waiting
<1>4. CASE Core!Prepare
  <2>1. IsRun(busy) /\ UNCHANGED <<pipe, slot, busy>>
    BY <1>4 DEF CoreOK, Core!Prepare, Core!Goto, IsRun
  <2>2. \/ phase' = "adding" /\ bars' = NoConfig
        \/ phase' = "running" /\ bars' = busy.config
    BY <1>4, <2>1 DEF BarsOfRun, Core!Prepare, Core!Goto, Core!NeedsAdding
  <2> QED BY <2>1, <2>2 DEF BarsOfRun, Loaded, Waiting
<1>5. CASE Core!Added
  <2>1. IsRun(busy) /\ phase' = "running" /\ bars' = busy.config /\ UNCHANGED <<pipe, slot, busy>>
    BY <1>5 DEF CoreOK, Core!Added, Core!Goto, IsRun
  <2> QED BY <2>1 DEF BarsOfRun, Loaded, Waiting
<1>6. CASE Core!Complete
  <2>1. /\ phase = "running" /\ phase' = "ending" /\ UNCHANGED <<pipe, slot, busy, bars>>
    BY <1>6 DEF Core!Complete, Core!Answer
  <2> QED BY <2>1 DEF BarsOfRun, Loaded, Waiting
<1>7. ASSUME Loaded' \in {NoConfig, Loaded}, phase' = "idle", UNCHANGED <<pipe, slot>>
      PROVE  BarsOfRun' /\ Waiting' \in {NoConfig, Waiting} /\ pipe' = pipe
  <2>1. Waiting' \in {NoConfig, Waiting}
    BY <1>7 DEF Waiting
  <2> QED BY <1>7, <2>1 DEF BarsOfRun
<1>8. CASE Core!Stopped \/ Core!Fails
  <2>1. /\ phase \in {"preparing", "adding", "running"} /\ phase' = "idle" /\ busy' = None
        /\ UNCHANGED <<pipe, slot, bars>>
    BY <1>8 DEF Core!Stopped, Core!Fails, Core!Answer, Core!Done
  <2>2. IsRun(busy) /\ Loaded = busy.config /\ Loaded' = bars
    BY <1>1, <2>1 DEF CoreOK, Loaded, IsRun
  <2>3. phase = "preparing" => ~busy.clear
    BY <2>1, <2>2 DEF Loses
  <2>4. bars \in {NoConfig, busy.config}
    BY <2>1, <2>2, <2>3 DEF BarsOfRun
  <2> QED BY <1>7, <2>1, <2>2, <2>4
<1>9. CASE Core!End
  <2>1. phase = "ending" /\ phase' = "idle" /\ busy' = None /\ UNCHANGED <<pipe, slot, bars>>
    BY <1>9 DEF Core!End, Core!Answer, Core!Done
  <2>2. Loaded = bars /\ Loaded' = bars
    BY <1>1, <2>1 DEF BarsOfRun, Loaded
  <2> QED BY <1>7, <2>1, <2>2
<1>10. CASE Core!Fetched
  <2>1. busy = Fetch /\ phase' = "idle" /\ busy' = None /\ UNCHANGED <<pipe, slot, bars>>
    BY <1>10 DEF CoreOK, Core!Fetched, Core!Answer, Core!Done
  <2>2. Loaded = bars /\ Loaded' = bars
    BY <1>1, <2>1 DEF Loaded
  <2> QED BY <1>7, <2>1, <2>2
<1> QED BY <1>2, <1>3, <1>4, <1>5, <1>6, <1>8, <1>9, <1>10 DEF Core!Step

\* A command that is read begins the chain, unless a run is lost that was to drop the bar data.
LEMMA ReadBars ==
    ASSUME CoreOK, BarsOfRun, Core!Read, ~(slot' \notin {slot, None} /\ Loses(slot)),
           NEW u \in Seq(Sent), NEW h, Chained(pipe \o u, Waiting, h)
    PROVE  BarsOfRun' /\ Chained(pipe' \o u, Waiting', h)
<1> DEFINE x == Head(pipe)
           L == pipe \o u
<1>1. /\ pipe \in Seq(Sent) /\ pipe # <<>> /\ x \in Sent /\ L \in Seq(Sent) /\ L # <<>> /\ L[1] = x
      /\ pipe' \o u = Tail(L)
  <2>1. pipe \in Seq(Sent) /\ pipe # <<>> /\ pipe' = Tail(pipe)
    BY DEF CoreOK, Core!Read
  <2>2. x \in Sent
    BY <2>1
  <2>3. /\ L \in Seq(Sent) /\ Len(L) = Len(pipe) + Len(u) /\ Len(pipe) \in Nat /\ Len(pipe) >= 1
        /\ Len(u) \in Nat
        /\ \A i \in 1..Len(pipe) + Len(u) : L[i] = IF i <= Len(pipe) THEN pipe[i] ELSE u[i - Len(pipe)]
    BY <2>1, ConcatProperties, EmptySeq
  <2>4. /\ Tail(pipe) \in Seq(Sent) /\ Len(Tail(pipe)) = Len(pipe) - 1
        /\ \A i \in 1..Len(pipe) - 1 : Tail(pipe)[i] = pipe[i + 1]
    BY <2>1, HeadTailProperties
  <2> DEFINE R == Tail(pipe) \o u
  <2>5. /\ R \in Seq(Sent) /\ Len(R) = Len(pipe) - 1 + Len(u)
        /\ \A i \in 1..Len(pipe) - 1 + Len(u) :
              R[i] = IF i <= Len(pipe) - 1 THEN Tail(pipe)[i] ELSE u[i - (Len(pipe) - 1)]
    BY <2>4, ConcatProperties
  <2> HIDE DEF L, R
  <2>6. L # <<>> /\ L[1] = pipe[1]
    BY <2>3
  <2>7. /\ Tail(L) \in Seq(Sent) /\ Len(Tail(L)) = Len(L) - 1
        /\ \A i \in 1..Len(L) - 1 : Tail(L)[i] = L[i + 1]
    BY <2>3, <2>6, HeadTailProperties
  <2>8. ASSUME NEW i \in 1..Len(R) PROVE R[i] = Tail(L)[i]
    <3>1. i \in 1..Len(L) - 1 /\ i + 1 \in 1..Len(pipe) + Len(u)
      BY <2>3, <2>5
    <3>2. Tail(L)[i] = L[i + 1]
      BY <2>7, <3>1
    <3>3. CASE i <= Len(pipe) - 1
      BY <2>3, <2>4, <2>5, <3>1, <3>2, <3>3
    <3>4. CASE ~(i <= Len(pipe) - 1)
      <4>1. L[i + 1] = u[i + 1 - Len(pipe)] /\ R[i] = u[i - (Len(pipe) - 1)]
        BY <2>3, <2>5, <3>1, <3>4
      <4>2. i + 1 - Len(pipe) = i - (Len(pipe) - 1)
        BY <2>3
      <4> QED BY <3>2, <4>1, <4>2
    <3> QED BY <3>3, <3>4
  <2>9. R = Tail(L)
    BY <2>3, <2>5, <2>7, <2>8, SeqEqual
  <2> QED BY <2>1, <2>2, <2>3, <2>6, <2>9 DEF R
<1>2. /\ slot' = IF IsRun(x) \/ x = Fetch THEN x ELSE slot
      /\ UNCHANGED <<busy, phase, bars>>
  BY DEF Core!Read, IsRun
<1>3. Loaded' = Loaded
  BY <1>2 DEF Loaded
<1>4. Chained(L, Waiting, h)
  OBVIOUS
<1> HIDE DEF L, x
<1>5. /\ ~IsRun(None) /\ ~IsRun(Fetch) /\ None \notin Commands
      /\ \A c \in Runs : c.config # NoConfig /\ c # None
  BY LoadedOK, Distinct DEF Commands
<1>6. CASE IsRun(x)
  <2>1. Chained(Tail(L), x.config, h) /\ (~x.clear => Waiting \in {NoConfig, x.config})
    BY <1>1, <1>4, <1>6, ChainTakes
  <2>2. slot' = x /\ Waiting' = x.config
    BY <1>2, <1>6 DEF Waiting
  <2>3. ~x.clear => Loaded \in {NoConfig, x.config}
    <3> SUFFICES ASSUME ~x.clear PROVE Loaded \in {NoConfig, x.config}
      OBVIOUS
    <3>1. CASE IsRun(slot)
      <4>1. ~slot.clear
        BY <1>5, <1>6, <2>2, <3>1 DEF Loses, IsRun
      <4>2. slot.config = x.config
        BY <1>5, <2>1, <3>1 DEF Waiting, IsRun
      <4> QED BY <3>1, <4>1, <4>2 DEF BarsOfRun
    <3>2. CASE ~IsRun(slot)
      BY <2>1, <3>2 DEF Waiting
    <3> QED BY <3>1, <3>2
  <2>4. BarsOfRun'
    BY <1>2, <1>3, <2>2, <2>3 DEF BarsOfRun
  <2> QED BY <1>1, <2>1, <2>2, <2>4
<1>7. CASE ~IsRun(x)
  <2>1. Chained(Tail(L), Waiting, h)
    BY <1>1, <1>4, <1>7, ChainSkips
  <2>2. slot' \in {slot, Fetch}
    BY <1>2, <1>7
  <2>3. BarsOfRun'
    BY <1>2, <1>3, <1>5, <2>2 DEF BarsOfRun
  <2>4. Waiting' \in {NoConfig, Waiting}
    <3>1. CASE slot' = slot
      BY <1>3, <3>1 DEF Waiting
    <3>2. CASE slot' # slot
      <4>1. slot' = Fetch /\ Waiting' = Loaded
        BY <1>3, <1>5, <2>2, <3>2 DEF Waiting
      <4>2. IsRun(slot) => ~slot.clear
        BY <1>5, <3>2, <4>1, Distinct DEF Loses, IsRun
      <4> QED BY <4>1, <4>2 DEF BarsOfRun, Waiting
    <3> QED BY <3>1, <3>2
  <2>5. Chained(Tail(L), Waiting', h)
    BY <2>1, <2>4, ChainForgets
  <2> QED BY <1>1, <2>3, <2>5
<1> QED BY <1>6, <1>7

\* A step of the engine keeps the chain.
LEMMA EngineStepBars ==
    ASSUME OneWindow, BridgeOK, BarsInv, EngineStep
    PROVE  BarsInv'
<1> SUFFICES ASSUME ~unapplied' PROVE BarsOfRun' /\ BarsOnTheWay'
  BY DEF BarsInv
<1>1. /\ CoreOK /\ EditorOK /\ engine = "ready" /\ Core!Step /\ UNCHANGED <<up, configHash>>
      /\ ~unapplied /\ ~(phase = "preparing" /\ phase' = "idle" /\ Loses(busy))
      /\ ~(slot' \notin {slot, None} /\ Loses(slot))
  BY DEF BridgeOK, EngineStep, editor
<1>2. BarsOfRun /\ BarsOnTheWay
  BY <1>1 DEF BarsInv
<1>3. PICK k : Clients = {k}
  BY DEF OneWindow
<1>4. up[k] \in Seq(Sent) /\ Chained(pipe \o up[k], Waiting, configHash[k])
  BY <1>1, <1>2, <1>3 DEF EditorOK, BarsOnTheWay
<1>5. BarsOfRun' /\ Chained(pipe' \o up[k], Waiting', configHash[k])
  <2>1. CASE Core!Read
    BY <1>1, <1>2, <1>4, <2>1, ReadBars
  <2>2. CASE ~Core!Read
    <3>1. BarsOfRun' /\ Waiting' \in {NoConfig, Waiting} /\ pipe' = pipe
      BY <1>1, <1>2, <2>2, ExecuteBars
    <3>2. Chained(pipe \o up[k], Waiting', configHash[k])
      BY <1>4, <3>1, ChainForgets
    <3> QED BY <3>1, <3>2
  <2> QED BY <2>1, <2>2
<1> QED BY <1>1, <1>3, <1>5 DEF BarsOnTheWay

\* A window that sends nothing changes nothing of it, nor does the server for its own part.
LEMMA ApartBars ==
    ASSUME BarsInv, UNCHANGED <<up, configHash, engine, unapplied, pipe, slot, busy, phase, bars>>
    PROVE  BarsInv'
BY DEF BarsInv, BarsOfRun, BarsOnTheWay, Loaded, Waiting

\* What is sent is the last of what is on its way.
LEMMA SentLast ==
    ASSUME BridgeOK, NEW k \in Clients, NEW m \in Sent, Send(k, m), UNCHANGED core
    PROVE  /\ pipe \o up[k] \in Seq(Sent) /\ pipe' \o up'[k] = Append(pipe \o up[k], m)
           /\ Waiting' = Waiting /\ (BarsOfRun => BarsOfRun')
<1>1. up'[k] = Append(up[k], m) /\ pipe \in Seq(Sent) /\ up[k] \in Seq(Sent)
  BY BridgeSendOK DEF BridgeOK, CoreOK, EditorOK
<1>2. UNCHANGED <<pipe, slot, busy, phase, bars>>
  BY DEF core
<1>3. pipe \o up[k] \in Seq(Sent) /\ pipe \o Append(up[k], m) = Append(pipe \o up[k], m)
  <2>1. Append(up[k], m) = up[k] \o <<m>> /\ <<m>> \in Seq(Sent)
    BY <1>1, AppendIsConcat
  <2>2. pipe \o up[k] \in Seq(Sent)
    BY <1>1, ConcatProperties
  <2>3. Append(pipe \o up[k], m) = (pipe \o up[k]) \o <<m>>
    BY <2>2, AppendIsConcat
  <2>4. (pipe \o up[k]) \o <<m>> = pipe \o (up[k] \o <<m>>)
    <3>1. \A p, q, r \in Seq(Sent) : (p \o q) \o r = p \o (q \o r)
      BY ConcatAssociative
    <3> QED BY <1>1, <2>1, <3>1, Zenon
  <2> QED BY <2>1, <2>2, <2>3, <2>4
<1>4. Waiting' = Waiting /\ (BarsOfRun => BarsOfRun')
  BY <1>2 DEF Waiting, Loaded, BarsOfRun
<1> QED BY <1>1, <1>2, <1>3, <1>4

\* A stop or a fetch that is sent is no run.
LEMMA OtherSentBars ==
    ASSUME OneWindow, BridgeOK, BarsInv, NEW k \in Clients, NEW m \in {Stop, Fetch}, Send(k, m),
           UNCHANGED <<core, engine, unapplied, configHash>>
    PROVE  BarsInv'
<1> SUFFICES ASSUME BarsOfRun, BarsOnTheWay PROVE BarsOfRun' /\ BarsOnTheWay'
  BY DEF BarsInv
<1>1. m \in Sent /\ ~IsRun(m)
  BY Distinct DEF Sent, IsRun
<1>2. /\ pipe \o up[k] \in Seq(Sent) /\ pipe' \o up'[k] = Append(pipe \o up[k], m)
      /\ Waiting' = Waiting /\ BarsOfRun'
  BY <1>1, SentLast
<1>3. Chained(pipe \o up[k], Waiting, configHash[k])
  BY DEF BarsOnTheWay
<1>4. Chained(Append(pipe \o up[k], m), Waiting, configHash[k])
  BY <1>1, <1>2, <1>3, ChainIgnores
<1>5. Clients = {k}
  BY DEF OneWindow
<1> QED BY <1>2, <1>4, <1>5 DEF BarsOnTheWay

\* A run that is built drops the bar data unless it is of the configuration of the last one.
LEMMA BuiltBars ==
    ASSUME OneWindow, BridgeOK, BarsInv, NEW k \in Clients, NEW b \in builds[k], Built(k, b)
    PROVE  BarsInv'
<1>1. UNCHANGED <<core, engine, unapplied>> /\ EditorOK
  BY DEF BridgeOK, Built, server
<1>2. CASE stopRequestedRef[k]
  <2>1. UNCHANGED <<configHash, up>>
    BY <1>2 DEF Built
  <2> QED BY <1>1, <2>1, ApartBars DEF core
<1>3. CASE ~stopRequestedRef[k]
  <2> SUFFICES ASSUME BarsOfRun, BarsOnTheWay PROVE BarsOfRun' /\ BarsOnTheWay'
    BY <1>1 DEF BarsInv
  <2> DEFINE x == Run(b[2], NeedsClearAndAdd(k, b[2]))
  <2>1. b[2] \in Configs
    <3>1. b \in (0..MaxCommands - 1) \X Configs
      BY <1>1 DEF EditorOK
    <3> QED BY <3>1
  <2>2. x \in Runs /\ x \in Sent
    BY <1>1, <2>1, NeedsOK DEF Sent
  <2>3. x.config = b[2] /\ (x.clear \/ x.config = configHash[k])
    BY DEF Run, NeedsClearAndAdd
  <2>4. Send(k, x) /\ configHash' = [configHash EXCEPT ![k] = b[2]]
    BY <1>3 DEF Built
  <2>5. configHash'[k] = b[2]
    BY <1>1, <2>4 DEF EditorOK
  <2> HIDE DEF x
  <2>6. /\ pipe \o up[k] \in Seq(Sent) /\ pipe' \o up'[k] = Append(pipe \o up[k], x)
        /\ Waiting' = Waiting /\ BarsOfRun'
    BY <1>1, <2>2, <2>4, SentLast
  <2>7. Chained(pipe \o up[k], Waiting, configHash[k])
    BY DEF BarsOnTheWay
  <2>8. Chained(Append(pipe \o up[k], x), Waiting, x.config)
    BY <2>2, <2>3, <2>6, <2>7, ChainExtends
  <2>9. Clients = {k}
    BY DEF OneWindow
  <2> QED BY <2>3, <2>5, <2>6, <2>8, <2>9 DEF BarsOnTheWay
<1> QED BY <1>2, <1>3

\* What is passed on stays on its way; what is dropped while the engine starts was to
\* drop the bar data, or there are none.
LEMMA PassOnBars ==
    ASSUME OneWindow, BridgeOK, BarsInv, NEW k \in Clients, PassOn(k)
    PROVE  BarsInv'
<1> DEFINE x == Head(up[k])
           t == Tail(up[k])
<1>1. CoreOK /\ EditorOK /\ ServerOK /\ UNCHANGED <<configHash, engine>> /\ Clients = {k}
  BY DEF BridgeOK, PassOn, editor, OneWindow
<1>2. /\ pipe \in Seq(Sent) /\ up[k] \in Seq(Sent) /\ up[k] # <<>> /\ up'[k] = t
      /\ x \in Sent /\ t \in Seq(Sent) /\ up[k] = <<x>> \o t
  <2>1. pipe \in Seq(Sent) /\ up[k] \in Seq(Sent) /\ up[k] # <<>> /\ up'[k] = t
    BY <1>1 DEF CoreOK, EditorOK, PassOn
  <2> QED BY <2>1
<1> HIDE DEF x, t
<1>3. CASE engine = "ready"
  <2>1. pipe' = Append(pipe, x) /\ UNCHANGED <<slot, busy, phase, bars, unapplied>>
    BY <1>3 DEF PassOn, Core!Write, x
  <2>2. pipe' \o up'[k] = pipe \o up[k]
    <3>1. pipe' = pipe \o <<x>> /\ <<x>> \in Seq(Sent)
      BY <1>2, <2>1, AppendIsConcat
    <3>2. (pipe \o <<x>>) \o t = pipe \o (<<x>> \o t)
      BY <1>2, <3>1, ConcatAssociative
    <3> QED BY <1>2, <3>1, <3>2
  <2> QED BY <1>1, <2>1, <2>2 DEF BarsInv, BarsOfRun, BarsOnTheWay, Loaded, Waiting
<1>4. CASE engine # "ready"
  <2>1. UNCHANGED core /\ unapplied' = (unapplied \/ Loses(x))
    BY <1>4 DEF PassOn, x
  <2> SUFFICES ASSUME ~unapplied, ~Loses(x), engine = "starting" PROVE BarsOfRun' /\ BarsOnTheWay'
    BY <1>1, <1>4, <2>1 DEF BarsInv, ServerOK
  <2>2. BarsOfRun /\ Chained(pipe \o up[k], Waiting, configHash[k])
    BY <1>1 DEF BarsInv, BarsOnTheWay
  <2>3. pipe = <<>> /\ slot = None /\ busy = None /\ bars = NoConfig
    BY <1>1, <1>4 DEF ServerOK
  <2>4. Waiting = NoConfig
    BY <2>3, Distinct DEF Waiting, Loaded, IsRun
  <2>5. pipe \o up[k] = up[k] /\ pipe \o t = t
    BY <1>2, <2>3
  <2>6. up[k][1] = x /\ Tail(up[k]) = t
    BY <1>2 DEF x, t
  <2>7. Chained(t, NoConfig, configHash[k])
    <3>1. CASE IsRun(x)
      BY <1>2, <2>2, <2>4, <2>5, <2>6, <3>1, ChainTakes, ChainForgets
    <3>2. CASE ~IsRun(x)
      BY <1>2, <2>2, <2>4, <2>5, <2>6, <3>2, ChainSkips
    <3> QED BY <3>1, <3>2
  <2>8. UNCHANGED <<pipe, slot, busy, phase, bars>>
    BY <2>1 DEF core
  <2>9. BarsOfRun' /\ Waiting' = Waiting
    BY <2>2, <2>8 DEF BarsOfRun, Waiting, Loaded
  <2> QED BY <1>1, <1>2, <2>4, <2>5, <2>7, <2>8, <2>9 DEF BarsOnTheWay
<1> QED BY <1>3, <1>4

\* With one window the bar data match, unless a run that was to drop them was lost.
THEOREM BarsInductive == ASSUME OneWindow PROVE BridgeSpec => []BarsInv
<1>1. BridgeInit => BarsInv
  <2> SUFFICES ASSUME BridgeInit PROVE BarsOfRun /\ BarsOnTheWay
    BY DEF BarsInv
  <2>1. pipe = <<>> /\ slot = None /\ busy = None /\ phase = "idle" /\ bars = NoConfig
    BY DEF BridgeInit, Core!Init
  <2>2. Waiting = NoConfig /\ Loaded = NoConfig
    BY <2>1, Distinct DEF Waiting, Loaded, IsRun
  <2>3. ~IsRun(busy) /\ ~IsRun(slot)
    BY <2>1, Distinct DEF IsRun
  <2>4. BarsOfRun
    BY <2>1, <2>3 DEF BarsOfRun
  <2>5. ASSUME NEW k \in Clients PROVE Chained(pipe \o up[k], Waiting, configHash[k])
    <3>1. pipe \o up[k] = <<>> /\ configHash[k] = NoConfig
      BY <2>1 DEF BridgeInit
    <3> QED BY <2>2, <3>1, ChainEmpty
  <2> QED BY <2>4, <2>5 DEF BarsOnTheWay
<1>2. BridgeOK /\ BarsInv /\ [BridgeNext]_bridgeVars => BarsInv'
  <2> SUFFICES ASSUME BridgeOK, BarsInv, [BridgeNext]_bridgeVars PROVE BarsInv'
    OBVIOUS
  <2>1. ASSUME NEW k \in Clients, Click(k) PROVE BarsInv'
    <3>1. CASE HandleRunSingleBacktesting(k) \/ ChangeConfig(k)
      BY <3>1, ApartBars DEF HandleRunSingleBacktesting, ChangeConfig, core, server
    <3>2. CASE HandleStopBacktesting(k)
      <4>1. UNCHANGED <<core, engine, unapplied, configHash>> /\ (UNCHANGED up \/ Send(k, Stop))
        BY <3>2 DEF HandleStopBacktesting, server
      <4> QED BY <4>1, ApartBars, OtherSentBars DEF core
    <3>3. CASE HandleFetchOrUpdateBarData(k)
      <4>1. UNCHANGED <<core, engine, unapplied, configHash>> /\ Send(k, Fetch)
        BY <3>3 DEF HandleFetchOrUpdateBarData, server
      <4> QED BY <4>1, OtherSentBars
    <3> QED BY <2>1, <3>1, <3>2, <3>3 DEF Click
  <2>2. ASSUME NEW k \in Clients, BuildEnds(k) PROVE BarsInv'
    <3>1. ASSUME NEW b \in builds[k], BuildFailed(k, b) PROVE BarsInv'
      BY <3>1, ApartBars DEF BuildFailed, core, server
    <3> QED BY <2>2, <3>1, BuiltBars DEF BuildEnds
  <2>3. ASSUME NEW k \in Clients, HandleMessage(k) PROVE BarsInv'
    BY <2>3, ApartBars DEF HandleMessage, core, server
  <2>4. CASE EngineReady
    <3>1. UNCHANGED <<up, configHash, unapplied, pipe, slot, busy, phase, bars>> /\ engine # "none"
      BY <2>4 DEF EngineReady, core, editor
    <3> QED BY <3>1 DEF BarsInv, BarsOfRun, BarsOnTheWay, Loaded, Waiting
  <2>5. CASE ReadOutput
    BY <2>5, ApartBars DEF ReadOutput, Core!ReadAnswer, editor
  <2>6. CASE CutLine
    BY <2>6, ApartBars DEF CutLine, Core!ReadAnswer, editor, server
  <2>7. CASE Notifies
    <3>1. ASSUME NEW i \in DOMAIN successes, Listed(i) \/ NotifySuccess(i) PROVE BarsInv'
      BY <3>1, ApartBars DEF Listed, NotifySuccess, core, editor
    <3> QED BY <2>7, <3>1 DEF Notifies
  <2>8. CASE EngineEnds
    BY <2>8 DEF EngineEnds, BarsInv
  <2>9. CASE UNCHANGED bridgeVars
    BY <2>9, ApartBars DEF bridgeVars, core, editor, server
  <2> QED
    BY <2>1, <2>2, <2>3, <2>4, <2>5, <2>6, <2>7, <2>8, <2>9, PassOnBars, EngineStepBars
    DEF BridgeNext
<1> QED BY <1>1, <1>2, BridgeInductive, PTL DEF BridgeSpec

\* With one window a backtest executes on the bar data its window shows, unless a run
\* that was to replace them was lost before.
THEOREM BarsMatchHolds == ASSUME OneWindow PROVE BridgeSpec => []BarsMatch
<1>1. BridgeOK /\ BarsInv => BarsMatch
  BY Distinct DEF BridgeOK, ServerOK, BarsInv, BarsOfRun, BarsMatch, IsRun
<1> QED BY <1>1, BridgeInductive, BarsInductive, PTL
=============================================================================
