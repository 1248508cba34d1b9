-------------------------- MODULE ScanSchedule_proofs --------------------------
(***************************************************************************)
(* Proofs about ScanSchedule, for any number of commands, scans, locations *)
(* and faults.                                                             *)
(***************************************************************************)
EXTENDS ScanSchedule, FiniteSetTheorems, WellFoundedInduction, TLAPS

CmdPc == {"idle", "ended", "preflight", "load", "unregister", "remove", "write",
          "register", "store", "undo", "undofiles", "enroll", "clear"}

Command == [pc : CmdPc, op : {"plain", "archive", "manual", "off"}, loaded : States,
            todo : SUBSET File, res : {"none", "ok", "failed", "refused"}, solo : BOOLEAN]

Scan == [pc : {"idle", "scan", "health", "record", "ended"},
         ours : BOOLEAN, stamp : 0..MaxTime, good : BOOLEAN]

Receipt == [capture : 0..MaxTime, full : 0..MaxTime, at : [Location -> 0..MaxTime]]

\* What a command has read was a state file, and passed the validation.
Loaded == \A c \in Cmd : Validated(cmd[c].loaded)

\* A success, wherever it is kept or about to be, had its receipt; and who
\* brings a receipt or a result has read a clock.
Backed ==
    /\ state.suc # 0 => health.full # 0
    /\ \A c \in Cmd : cmd[c].loaded.suc # 0 => health.full # 0
    /\ \A r \in Run : /\ run[r].pc = "record" /\ run[r].good => health.full # 0
                      /\ run[r].pc \in {"health", "record"} => run[r].stamp # 0

\* A timer is only ever in the timer's place, so no job is made of one.
Placed == \A f \in File : files[f] = "timer" => f = "timer"

Inv == TypeOK /\ Loaded /\ Backed /\ Placed

LEMMA StateFacts ==
    /\ NoState \in States /\ Validated(NoState) /\ NoState.suc = 0
    /\ \A s \in States : /\ s.att \in 0..MaxTime /\ s.suc \in 0..MaxTime
                         /\ s.archive \in BOOLEAN
    /\ \A s \in States : Validated(s) => s.suc <= s.att
<1>1. NoState \in States
  <2>. 0 \in 0..MaxTime
    BY TimeAssumption
  <2>. QED BY DEF NoState, States
<1>2. Validated(NoState) /\ NoState.suc = 0
  BY DEF NoState, Validated
<1>3. \A s \in States : s.att \in 0..MaxTime /\ s.suc \in 0..MaxTime /\ s.archive \in BOOLEAN
  BY DEF States
<1>4. \A s \in States : Validated(s) => s.suc <= s.att
  BY DEF Validated
<1>. QED BY <1>1, <1>2, <1>3, <1>4

LEMMA IdleFacts == Idle \in Command /\ Idle.loaded = NoState /\ Waiting \in Scan /\ Done \in Scan
BY StateFacts, TimeAssumption DEF Idle, Command, CmdPc, Waiting, Done, Scan

LEMMA TypeFacts ==
    TypeOK <=> /\ host \in Backend /\ bus \in BOOLEAN
               /\ job \in {"off", "plain", "archive", "foreign"}
               /\ files \in [File -> {"none", "foreign", "plain", "archive", "timer"}]
               /\ state \in States /\ Validated(state)
               /\ cmd \in [Cmd -> Command] /\ run \in [Run -> Scan] /\ health \in Receipt
               /\ now \in 1..MaxTime
BY DEF TypeOK, Command, CmdPc, Scan, Receipt

LEMMA InitInv == Init => Inv
<1> SUFFICES ASSUME Init PROVE Inv
  OBVIOUS
<1>1. host \in Backend /\ now \in 1..MaxTime /\ 1 \in 0..MaxTime
  BY TimeAssumption DEF Init
<1>2. CASE state = NoState /\ files = [f \in File |-> "none"]
  <2>1. TypeOK
    BY <1>1, <1>2, StateFacts, IdleFacts, TypeFacts, TimeAssumption DEF Init, Receipt, NoState
  <2>2. Loaded /\ Backed /\ Placed
    BY <1>2, StateFacts, IdleFacts DEF Init, Loaded, Backed, Placed, Waiting
  <2>. QED BY <2>1, <2>2 DEF Inv
<1>3. ASSUME NEW b \in Backend \ {host},
             state = [backend |-> b, archive |-> TRUE, att |-> 1, suc |-> 1, result |-> "success"],
             files = [f \in File |-> IF f \in FilesOf(b) THEN Rendered(f, TRUE) ELSE "none"]
      PROVE  Inv
  <2>1. state \in States /\ Validated(state) /\ state.suc = 1
    BY <1>1, <1>3, TimeAssumption DEF States, Validated, Backend
  <2>2. files \in [File -> {"none", "foreign", "plain", "archive", "timer"}]
    BY <1>3 DEF Rendered, Flag
  <2>3. health \in Receipt /\ health.full = 1
    <3>1. health = [capture |-> 1, full |-> 1, at |-> [l \in Location |-> 0]]
      BY <2>1 DEF Init
    <3>2. [l \in Location |-> 0] \in [Location -> 0..MaxTime]
      BY TimeAssumption
    <3>. QED BY <1>1, <3>1, <3>2 DEF Receipt
  <2>4. TypeOK
    BY <1>1, <2>1, <2>2, <2>3, IdleFacts, TypeFacts DEF Init
  <2>5. Loaded /\ Backed
    BY <2>1, <2>3, StateFacts, IdleFacts DEF Init, Loaded, Backed, Waiting
  <2>6. Placed
    BY <1>3 DEF Placed, Rendered, Flag
  <2>. QED BY <2>4, <2>5, <2>6 DEF Inv
<1>. QED BY <1>2, <1>3 DEF Init

\* The types, once, as the steps below use them.
LEMMA InvFacts ==
    ASSUME Inv
    PROVE  /\ host \in Backend /\ bus \in BOOLEAN /\ state \in States /\ Validated(state)
           /\ job \in {"off", "plain", "archive", "foreign"}
           /\ files \in [File -> {"none", "foreign", "plain", "archive", "timer"}]
           /\ cmd \in [Cmd -> Command] /\ run \in [Run -> Scan] /\ health \in Receipt
           /\ now \in 1..MaxTime
           /\ \A c \in Cmd : /\ cmd[c].loaded \in States /\ Validated(cmd[c].loaded)
                             /\ cmd[c].loaded.suc # 0 => health.full # 0
BY TypeFacts DEF Inv, Loaded, Backed, Command

\* A step of commands, which leaves the receipt and the scans alone.
LEMMA CommandStep ==
    ASSUME Inv, UNCHANGED <<host, run, health>>, bus' \in BOOLEAN, now' \in 1..MaxTime,
           cmd' \in [Cmd -> Command],
           \A d \in Cmd : cmd'[d].loaded \in {NoState, state, cmd[d].loaded},
           job' \in {"off", "plain", "archive", "foreign"},
           files' \in [File -> {"none", "foreign", "plain", "archive", "timer"}], Placed',
           state' \in States, Validated(state'), state'.suc # 0 => health.full # 0
    PROVE  Inv'
<1>1. TypeOK'
  BY InvFacts, TypeFacts DEF TypeOK, Command, CmdPc, Scan, Receipt
<1>2. Loaded'
  BY InvFacts, StateFacts DEF Loaded
<1>3. Backed'
  BY StateFacts DEF Inv, Backed
<1>. QED BY <1>1, <1>2, <1>3 DEF Inv

\* What a step of c writes is its own record.
LEMMA OwnRecord ==
    ASSUME Inv, NEW c \in Cmd, NEW new \in Command, cmd' = [cmd EXCEPT ![c] = new],
           new.loaded \in {NoState, state, cmd[c].loaded}
    PROVE  /\ cmd' \in [Cmd -> Command]
           /\ \A d \in Cmd : cmd'[d].loaded \in {NoState, state, cmd[d].loaded}
BY InvFacts

LEMMA EndedFacts ==
    ASSUME Inv, NEW c \in Cmd, NEW r \in {"ok", "failed", "refused"}
    PROVE  /\ End(c, r) => cmd' \in [Cmd -> Command]
           /\ End(c, r) => \A d \in Cmd : cmd'[d].loaded \in {NoState, state, cmd[d].loaded}
<1>1. cmd[c] \in Command
  BY InvFacts
<1>2. Outcome(c, r) \in {"none", "ok", "failed", "refused"}
  BY DEF Outcome
<1>3. Ended(c, r) \in Command /\ Ended(c, r).loaded \in {NoState, cmd[c].loaded}
  <2>1. CASE cmd[c].solo
    <3>1. Ended(c, r) = [cmd[c] EXCEPT !.pc = "ended", !.todo = {}, !.res = Outcome(c, r)]
      BY <2>1 DEF Ended
    <3>. QED BY <1>1, <1>2, <3>1 DEF Command, CmdPc
  <2>2. CASE ~cmd[c].solo
    BY <2>2, IdleFacts DEF Ended
  <2>. QED BY <2>1, <2>2
<1>4. ASSUME End(c, r)
      PROVE  cmd' \in [Cmd -> Command]
             /\ \A d \in Cmd : cmd'[d].loaded \in {NoState, state, cmd[d].loaded}
  BY <1>3, <1>4, InvFacts DEF End
<1>. QED BY <1>4

LEMMA GotoFacts ==
    ASSUME Inv, NEW c \in Cmd, NEW l \in CmdPc
    PROVE  /\ Goto(c, l) => cmd' \in [Cmd -> Command]
           /\ Goto(c, l) => \A d \in Cmd : cmd'[d].loaded \in {NoState, state, cmd[d].loaded}
BY InvFacts DEF Goto, Command

LEMMA AdvanceFacts ==
    ASSUME Inv, NEW c \in Cmd, NEW l \in CmdPc
    PROVE  /\ Advance(c, l) => cmd' \in [Cmd -> Command]
           /\ Advance(c, l) => \A d \in Cmd : cmd'[d].loaded \in {NoState, state, cmd[d].loaded}
<1>1. \A b : FilesOf(b) \in SUBSET File
  BY DEF FilesOf, File
<1>2. CASE Advance(c, l) /\ cmd' = [cmd EXCEPT ![c].todo = cmd[c].todo \ {NextFile(c)}]
  BY <1>2, InvFacts DEF Command
<1>3. CASE Advance(c, l) /\ End(c, "failed")
  BY <1>3, EndedFacts
<1>4. CASE Advance(c, l) /\ cmd' = [cmd EXCEPT ![c].pc = l, ![c].todo = FilesOf(host)]
  <2> DEFINE new == [cmd[c] EXCEPT !.pc = l, !.todo = FilesOf(host)]
  <2>1. cmd[c] \in Command /\ FilesOf(host) \in SUBSET File
    BY <1>1, InvFacts
  <2>2. new \in Command /\ new.loaded = cmd[c].loaded
    BY <2>1 DEF Command
  <2>3. cmd' = [cmd EXCEPT ![c] = new]
    BY <1>4, InvFacts
  <2> HIDE DEF new
  <2>. QED BY <2>2, <2>3, OwnRecord
<1> DEFINE Case == \/ cmd' = [cmd EXCEPT ![c].todo = cmd[c].todo \ {NextFile(c)}]
                   \/ End(c, "failed")
                   \/ cmd' = [cmd EXCEPT ![c].pc = l, ![c].todo = FilesOf(host)]
<1>5. Advance(c, l) => Case
  BY Zenon DEF Advance
<1>. QED BY <1>2, <1>3, <1>4, <1>5

LEMMA SameFiles == Inv /\ UNCHANGED files => Placed'
BY DEF Inv, Placed

\* The steps that read and decide.
LEMMA QuietSteps ==
    ASSUME Inv, NEW c \in Cmd, Preflight(c) \/ Load(c) \/ WriteFails(c) \/ Enroll(c)
    PROVE  Inv'
<1>1. UNCHANGED <<host, bus, job, files, state, run, health, now>>
  BY DEF Preflight, Load, WriteFails, Enroll, sysVars
<1>2. cmd' \in [Cmd -> Command]
      /\ \A d \in Cmd : cmd'[d].loaded \in {NoState, state, cmd[d].loaded}
  <2>1. CASE \E l \in CmdPc : Goto(c, l)
    BY <2>1, GotoFacts
  <2>2. CASE \E r \in {"ok", "failed", "refused"} : End(c, r)
    BY <2>2, EndedFacts
  <2>3. CASE Load(c) /\ ~End(c, "refused")
    <3>. DEFINE l == IF TearsDown(c) THEN "unregister" ELSE AfterTeardown(c)
                t == FilesOf(IF TearsDown(c) THEN state.backend ELSE host)
    <3>1. cmd' = [cmd EXCEPT ![c].loaded = state, ![c].pc = l, ![c].todo = t]
      BY <2>3 DEF Load
    <3>2. l \in CmdPc /\ t \in SUBSET File
      BY DEF AfterTeardown, CmdPc, FilesOf, File
    <3>. DEFINE new == [cmd[c] EXCEPT !.loaded = state, !.pc = l, !.todo = t]
    <3>. HIDE DEF l, t
    <3>3. new \in Command /\ new.loaded = state
      BY <3>2, InvFacts DEF Command
    <3>4. cmd' = [cmd EXCEPT ![c] = new]
      BY <3>1, InvFacts
    <3>. HIDE DEF new
    <3>. QED BY <3>3, <3>4, OwnRecord
  <2>4. CASE cmd' = [cmd EXCEPT ![c].pc = "load", ![c].op = "off", ![c].res = "failed"]
    <3>. DEFINE new == [cmd[c] EXCEPT !.pc = "load", !.op = "off", !.res = "failed"]
    <3>1. new \in Command /\ new.loaded = cmd[c].loaded
      <4>1. cmd[c] \in Command /\ "load" \in CmdPc
        BY InvFacts DEF CmdPc
      <4>. QED BY <4>1 DEF Command
    <3>2. cmd' = [cmd EXCEPT ![c] = new]
      BY <2>4, InvFacts
    <3>. HIDE DEF new
    <3>. QED BY <3>1, <3>2, OwnRecord
  <2>. QED BY <2>1, <2>2, <2>3, <2>4 DEF Preflight, Load, WriteFails, Enroll, CmdPc
<1>. QED BY <1>1, <1>2, InvFacts, SameFiles, CommandStep DEF Inv, Backed

\* The steps that call the manager.
LEMMA ManagerSteps ==
    ASSUME Inv, NEW c \in Cmd, Unregister(c) \/ Register(c) \/ RegisterFails(c) \/ Undo(c)
    PROVE  Inv'
<1>1. UNCHANGED <<host, bus, files, state, run, health, now>>
  BY DEF Unregister, Register, RegisterFails, Undo
<1>2. cmd' \in [Cmd -> Command]
      /\ \A d \in Cmd : cmd'[d].loaded \in {NoState, state, cmd[d].loaded}
  <2>1. CASE \E l \in CmdPc : Goto(c, l)
    BY <2>1, GotoFacts
  <2>2. CASE Undo(c)
    <3>. DEFINE new == [cmd[c] EXCEPT !.pc = "undofiles", !.todo = FilesOf(host),
                                      !.res = "failed"]
    <3>1. FilesOf(host) \in SUBSET File
      BY DEF FilesOf, File
    <3>2. new \in Command /\ new.loaded = cmd[c].loaded
      <4>1. cmd[c] \in Command /\ "undofiles" \in CmdPc
        BY InvFacts DEF CmdPc
      <4>. QED BY <3>1, <4>1 DEF Command
    <3>3. cmd' = [cmd EXCEPT ![c] = new]
      BY <2>2, InvFacts DEF Undo
    <3>. HIDE DEF new
    <3>. QED BY <3>2, <3>3, OwnRecord
  <2>. QED BY <2>1, <2>2 DEF Unregister, Register, RegisterFails, CmdPc
<1>3. job' \in {"off", "plain", "archive", "foreign"}
  <2>1. CASE Register(c)
    <3>1. JobFile(host) \in {"service", "plist"} /\ JobFile(host) \in FilesOf(host)
          /\ JobFile(host) \in File
      BY InvFacts DEF JobFile, FilesOf, Backend, File
    <3>2. files[JobFile(host)] \notin {"none", "timer"}
      BY <2>1, <3>1 DEF Register, Inv, Placed
    <3>. QED BY <2>1, <3>1, <3>2, InvFacts DEF Register
  <2>2. CASE RegisterFails(c)
    <3>1. "service" \in File /\ files["service"] # "timer"
      BY DEF Inv, Placed, File
    <3>. QED BY <2>2, <3>1, InvFacts DEF RegisterFails
  <2>3. CASE Unregister(c) \/ Undo(c)
    BY <2>3, InvFacts DEF Unregister, Undo, Unregistered
  <2>. QED BY <2>1, <2>2, <2>3
<1>. QED BY <1>1, <1>2, <1>3, InvFacts, SameFiles, CommandStep DEF Inv, Backed

\* The steps that write and remove the job's files.
LEMMA FileSteps ==
    ASSUME Inv, NEW c \in Cmd, RemoveFile(c) \/ WriteFile(c) \/ UndoFile(c)
    PROVE  Inv'
<1>1. UNCHANGED <<host, bus, job, state, run, health, now>>
  BY DEF RemoveFile, WriteFile, UndoFile
<1>2. NextFile(c) \in File
  BY DEF NextFile, File
<1>3. files' \in [File -> {"none", "foreign", "plain", "archive", "timer"}] /\ Placed'
  <2>1. CASE UNCHANGED files
    BY <2>1, InvFacts, SameFiles
  <2>2. CASE files' = [files EXCEPT ![NextFile(c)] = "none"]
    BY <1>2, <2>2, InvFacts DEF Inv, Placed
  <2>3. CASE files' = [files EXCEPT ![NextFile(c)] = Rendered(NextFile(c), cmd[c].op = "archive")]
    BY <1>2, <2>3, InvFacts DEF Inv, Placed, Rendered, Flag
  <2>. QED BY <2>1, <2>2, <2>3 DEF RemoveFile, WriteFile, UndoFile
<1>4. cmd' \in [Cmd -> Command]
      /\ \A d \in Cmd : cmd'[d].loaded \in {NoState, state, cmd[d].loaded}
  <2>1. CASE \E l \in CmdPc : Goto(c, l)
    BY <2>1, GotoFacts
  <2>2. CASE \E r \in {"ok", "failed", "refused"} : End(c, r)
    BY <2>2, EndedFacts
  <2>3. CASE \E l \in CmdPc : Advance(c, l)
    BY <2>3, AdvanceFacts
  <2>. QED BY <2>1, <2>2, <2>3 DEF RemoveFile, WriteFile, UndoFile, AfterTeardown, CmdPc
<1>. QED BY <1>1, <1>3, <1>4, InvFacts, CommandStep DEF Inv, Backed

\* What enable stores is what it read, under the backend it chose.
LEMMA KeptFacts ==
    ASSUME NEW s \in States, Validated(s), NEW b \in Backend \cup {"manual"},
           NEW a \in BOOLEAN, b = "manual" => ~a
    PROVE  /\ [s EXCEPT !.backend = b, !.archive = a] \in States
           /\ Validated([s EXCEPT !.backend = b, !.archive = a])
           /\ [s EXCEPT !.backend = b, !.archive = a].att = s.att
           /\ [s EXCEPT !.backend = b, !.archive = a].suc = s.suc
<1>. DEFINE n == [s EXCEPT !.backend = b, !.archive = a]
<1>1. n.backend = b /\ n.archive = a /\ n.att = s.att /\ n.suc = s.suc /\ n.result = s.result
      /\ n \in States
  BY DEF States
<1>2. b = "none" => FALSE
  BY DEF Backend
<1>. HIDE DEF n
<1>3. Validated(n)
  BY <1>1, <1>2 DEF Validated, Backend
<1>. QED BY <1>1, <1>3 DEF n

\* The steps that replace the state file.
LEMMA StoreSteps ==
    ASSUME Inv, NEW c \in Cmd, Store(c) \/ ClearState(c)
    PROVE  /\ Inv'
           /\ state'.att < state.att \/ state'.suc < state.suc =>
                \/ state' = NoState
                \/ /\ At(c, "store") /\ cmd'[c].pc = "enroll"
                   /\ cmd[c].loaded.att < state.att \/ cmd[c].loaded.suc < state.suc
<1>1. UNCHANGED <<host, bus, job, files, run, health, now>>
  BY DEF Store, ClearState, sysVars
<1>2. CASE Store(c)
  <2>1. /\ state' \in States /\ Validated(state')
        /\ state'.att = cmd[c].loaded.att /\ state'.suc = cmd[c].loaded.suc
    <3>. DEFINE s == cmd[c].loaded
    <3>1. s \in States /\ Validated(s) /\ host \in Backend \cup {"manual"} /\ host # "manual"
      BY InvFacts DEF Backend
    <3>2. state' = [s EXCEPT !.backend = host, !.archive = (cmd[c].op = "archive")]
          \/ state' = [s EXCEPT !.backend = "manual", !.archive = FALSE]
      BY <1>2 DEF Store, Kept
    <3>. HIDE DEF s
    <3>3. (cmd[c].op = "archive") \in BOOLEAN
      OBVIOUS
    <3>4. CASE state' = [s EXCEPT !.backend = host, !.archive = (cmd[c].op = "archive")]
      BY <3>1, <3>3, <3>4, KeptFacts DEF s
    <3>5. CASE state' = [s EXCEPT !.backend = "manual", !.archive = FALSE]
      BY <3>1, <3>5, KeptFacts DEF s
    <3>. QED BY <3>2, <3>4, <3>5
  <2>2. cmd' \in [Cmd -> Command]
        /\ \A d \in Cmd : cmd'[d].loaded \in {NoState, state, cmd[d].loaded}
    BY <1>2, GotoFacts DEF Store, CmdPc
  <2>3. Inv'
    BY <1>1, <2>1, <2>2, InvFacts, SameFiles, CommandStep
  <2>4. At(c, "store") /\ cmd'[c].pc = "enroll"
    BY <1>2, InvFacts DEF Store, Goto, Command
  <2>. QED BY <2>1, <2>3, <2>4
<1>3. CASE ClearState(c)
  <2>1. cmd' \in [Cmd -> Command]
        /\ \A d \in Cmd : cmd'[d].loaded \in {NoState, state, cmd[d].loaded}
    BY <1>3, EndedFacts DEF ClearState
  <2>2. Inv'
    BY <1>1, <1>3, <2>1, InvFacts, SameFiles, StateFacts, CommandStep DEF ClearState
  <2>. QED BY <1>3, <2>2 DEF ClearState
<1>. QED BY <1>2, <1>3

LEMMA NotSoloFacts ==
    ASSUME Inv, NEW d \in Cmd
    PROVE  NotSolo(d) \in Command /\ NotSolo(d).loaded \in {NoState, cmd[d].loaded}
BY InvFacts, IdleFacts DEF NotSolo, Command

\* A command begins or is killed; the manager goes and comes back; the user
\* puts a file of their own in place of the job's; time passes.
LEMMA OutsideSteps ==
    ASSUME Inv, \/ \E c \in Cmd : Begin(c) \/ Kill(c)
                \/ Tick \/ Outage \/ BusReturns \/ \E f \in File : UserReplaces(f)
    PROVE  Inv'
<1>1. UNCHANGED <<host, job, state, run, health>>
  BY DEF Begin, Kill, Tick, Outage, BusReturns, UserReplaces, sysVars
<1>2. bus' \in BOOLEAN /\ now' \in 1..MaxTime
  <2>1. bus' \in {bus, TRUE, FALSE} /\ (now' = now \/ (now < MaxTime /\ now' = now + 1))
    BY DEF Begin, Kill, Tick, Outage, BusReturns, UserReplaces, sysVars
  <2>2. bus' \in BOOLEAN
    BY <2>1, InvFacts
  <2>3. now' \in 1..MaxTime
    BY <2>1, InvFacts, TimeAssumption
  <2>. QED BY <2>2, <2>3
<1>3. files' \in [File -> {"none", "foreign", "plain", "archive", "timer"}] /\ Placed'
  <2>1. CASE UNCHANGED files
    BY <2>1, InvFacts, SameFiles
  <2>2. CASE \E f \in File : files' = [files EXCEPT ![f] = "foreign"]
    BY <2>2, InvFacts DEF Inv, Placed
  <2>. QED BY <2>1, <2>2 DEF Begin, Kill, Tick, Outage, BusReturns, UserReplaces, sysVars
<1>4. cmd' \in [Cmd -> Command]
      /\ \A d \in Cmd : cmd'[d].loaded \in {NoState, state, cmd[d].loaded}
  <2>1. ASSUME NEW c \in Cmd, Begin(c)
        PROVE  cmd' \in [Cmd -> Command]
               /\ \A d \in Cmd : cmd'[d].loaded \in {NoState, state, cmd[d].loaded}
    <3>1. PICK o \in {"plain", "archive", "manual", "off"} :
              cmd' = [d \in Cmd |->
                        IF d # c THEN NotSolo(d)
                        ELSE [Idle EXCEPT !.pc = IF o = "off" THEN "preflight" ELSE "load",
                                          !.op = o, !.solo = Alone(c)]]
      BY <2>1 DEF Begin
    <3>. DEFINE new == [Idle EXCEPT !.pc = IF o = "off" THEN "preflight" ELSE "load",
                                    !.op = o, !.solo = Alone(c)]
    <3>2. new \in Command /\ new.loaded = NoState
      <4>1. Alone(c) \in BOOLEAN
        BY DEF Alone
      <4>. QED BY <4>1, IdleFacts DEF Command, CmdPc
    <3>. HIDE DEF new
    <3>3. cmd' = [d \in Cmd |-> IF d # c THEN NotSolo(d) ELSE new]
      BY <3>1 DEF new
    <3>. QED BY <3>2, <3>3, NotSoloFacts
  <2>2. ASSUME NEW c \in Cmd, Kill(c)
        PROVE  cmd' \in [Cmd -> Command]
               /\ \A d \in Cmd : cmd'[d].loaded \in {NoState, state, cmd[d].loaded}
    BY <2>2, IdleFacts, OwnRecord DEF Kill
  <2>3. CASE Disturbed
    BY <2>3, NotSoloFacts DEF Disturbed
  <2>4. CASE UNCHANGED cmd
    BY <2>4, InvFacts
  <2>. QED BY <2>1, <2>2, <2>3, <2>4 DEF Tick, Outage, BusReturns, UserReplaces
<1>. QED BY <1>1, <1>2, <1>3, <1>4, InvFacts, CommandStep DEF Inv, Backed

----------------------------------------------------------------------------
\* A step of a scan, which leaves the commands and the job alone.  A receipt
\* stays, and a result is only about to be recorded behind one.
LEMMA ScanStep ==
    ASSUME Inv, UNCHANGED <<sysVars, cmd, now>>, NEW r \in Run, NEW new \in Scan,
           run' = [run EXCEPT ![r] = new],
           health' \in Receipt, health.full # 0 => health'.full # 0,
           state' \in States, Validated(state'), state'.suc # 0 => health'.full # 0,
           new.pc = "record" /\ new.good => health'.full # 0,
           new.pc \in {"health", "record"} => new.stamp # 0
    PROVE  Inv'
<1>1. UNCHANGED <<host, bus, job, files, cmd, now>>
  BY DEF sysVars
<1>2. run' \in [Run -> Scan] /\ \A q \in Run : run'[q] = IF q = r THEN new ELSE run[q]
  BY InvFacts
<1>3. TypeOK'
  BY <1>1, <1>2, InvFacts, TypeFacts DEF TypeOK, Command, CmdPc, Scan, Receipt
<1>4. Loaded' /\ Placed'
  BY <1>1 DEF Inv, Loaded, Placed
<1>5. Backed'
  BY <1>1, <1>2 DEF Inv, Backed
<1>. QED BY <1>3, <1>4, <1>5 DEF Inv

LEMMA StampFacts ==
    ASSUME Inv
    PROVE  now \in 0..MaxTime /\ now # 0
BY InvFacts, TimeAssumption

LEMMA AtResultFacts ==
    ASSUME Inv, NEW r \in Run, NEW g \in BOOLEAN
    PROVE  /\ AtResult(r, g) \in Scan
           /\ AtResult(r, g).pc = "record" => AtResult(r, g).stamp # 0 /\ AtResult(r, g).good = g
           /\ AtResult(r, g).pc # "health"
<1>1. CASE run[r].ours
  <2>1. AtResult(r, g) = [run[r] EXCEPT !.pc = "record", !.stamp = now, !.good = g]
    BY <1>1 DEF AtResult
  <2>2. run[r] \in Scan /\ now \in 0..MaxTime /\ now # 0
    BY InvFacts, StampFacts
  <2>. DEFINE n == [run[r] EXCEPT !.pc = "record", !.stamp = now, !.good = g]
  <2>3. n \in Scan /\ n.pc = "record" /\ n.stamp = now
    BY <2>2 DEF Scan
  <2>4. n.good = g
    BY <2>2 DEF Scan
  <2>. HIDE DEF n
  <2>5. AtResult(r, g) = n
    BY <2>1 DEF n
  <2>. QED BY <2>2, <2>3, <2>4, <2>5
<1>2. CASE ~run[r].ours
  <2>1. AtResult(r, g) = Done /\ Done.pc = "ended"
    BY <1>2, IdleFacts DEF AtResult, Done, Waiting
  <2>. QED BY <2>1, IdleFacts
<1>. QED BY <1>1, <1>2

LEMMA ScanMoves ==
    ASSUME Inv, NEW r \in Run, StartScan(r) \/ ScanEnds(r) \/ KillScan(r)
    PROVE  Inv'
<1>1. UNCHANGED <<sysVars, state, cmd, health, now>>
  BY DEF StartScan, ScanEnds, KillScan
<1>2. PICK new \in Scan : /\ run' = [run EXCEPT ![r] = new]
                          /\ ~(new.pc = "record" /\ new.good)
                          /\ new.pc \in {"health", "record"} => new.stamp # 0
  <2>1. ASSUME NEW s \in BOOLEAN, run' = [run EXCEPT ![r].pc = "scan", ![r].ours = s]
        PROVE  \E n \in Scan : /\ run' = [run EXCEPT ![r] = n]
                               /\ ~(n.pc = "record" /\ n.good)
                               /\ n.pc \in {"health", "record"} => n.stamp # 0
    <3>. DEFINE n == [run[r] EXCEPT !.pc = "scan", !.ours = s]
    <3>1. n \in Scan /\ n.pc = "scan" /\ run' = [run EXCEPT ![r] = n]
      BY <2>1, InvFacts DEF Scan
    <3>. HIDE DEF n
    <3>. QED BY <3>1
  <2>2. ASSUME run' = [run EXCEPT ![r].pc = "health", ![r].stamp = now]
        PROVE  \E n \in Scan : /\ run' = [run EXCEPT ![r] = n]
                               /\ ~(n.pc = "record" /\ n.good)
                               /\ n.pc \in {"health", "record"} => n.stamp # 0
    <3>. DEFINE n == [run[r] EXCEPT !.pc = "health", !.stamp = now]
    <3>1. n \in Scan /\ n.pc = "health" /\ n.stamp = now /\ run' = [run EXCEPT ![r] = n]
      BY <2>2, InvFacts, StampFacts DEF Scan
    <3>. HIDE DEF n
    <3>. QED BY <3>1, StampFacts
  <2>3. CASE run' = [run EXCEPT ![r] = AtResult(r, FALSE)]
    BY <2>3, AtResultFacts
  <2>4. CASE run' = [run EXCEPT ![r] = Done]
    BY <2>4, IdleFacts DEF Done, Waiting
  <2>. QED BY <2>1, <2>2, <2>3, <2>4 DEF StartScan, ScanEnds, KillScan
<1>3. health \in Receipt /\ state \in States /\ Validated(state)
      /\ (state.suc # 0 => health.full # 0)
  BY InvFacts DEF Inv, Backed
<1>. QED BY <1>1, <1>2, <1>3, ScanStep

\* The receipt is only ever replaced by a later one.
LEMMA ReceiptSteps ==
    ASSUME Inv, NEW r \in Run, RecordHealth(r)
    PROVE  Inv'
<1>. DEFINE t == run[r].stamp
<1>1. t \in 0..MaxTime /\ t # 0
  BY InvFacts DEF RecordHealth, InScan, Inv, Backed, Scan
<1>2. PICK w \in SUBSET Location :
          health' = [capture |-> IF w = {} THEN health.capture ELSE Later(health.capture, t),
                     full |-> Later(health.full, t),
                     at |-> Trim([l \in Location |-> IF l \in w THEN Later(health.at[l], t)
                                                     ELSE health.at[l]])]
  BY DEF RecordHealth
<1>. DEFINE at == [l \in Location |-> IF l \in w THEN Later(health.at[l], t)
                                      ELSE health.at[l]]
<1>. HIDE DEF t
<1>3. \A a \in 0..MaxTime : Later(a, t) \in 0..MaxTime /\ Later(a, t) # 0
  BY <1>1, TimeAssumption DEF Later
<1>4. health.capture \in 0..MaxTime /\ health.full \in 0..MaxTime
      /\ health.at \in [Location -> 0..MaxTime]
  BY InvFacts DEF Receipt
<1>5. at \in [Location -> 0..MaxTime]
  BY <1>3, <1>4
<1>. HIDE DEF at
<1>6. Trim(at) \in [Location -> 0..MaxTime]
  BY <1>5, TimeAssumption DEF Trim
<1>7. health' = [capture |-> IF w = {} THEN health.capture ELSE Later(health.capture, t),
                 full |-> Later(health.full, t), at |-> Trim(at)]
  BY <1>2 DEF at
<1>8. health' \in Receipt /\ health'.full # 0
  BY <1>3, <1>4, <1>6, <1>7 DEF Receipt
<1>9. run' = [run EXCEPT ![r] = AtResult(r, TRUE)] /\ UNCHANGED <<sysVars, state, cmd, now>>
  BY DEF RecordHealth
<1>. QED BY <1>8, <1>9, AtResultFacts, InvFacts, ScanStep

LEMMA NewResult ==
    ASSUME NEW s \in States, NEW t \in 0..MaxTime, t # 0, NEW g \in BOOLEAN, Validated(s),
           Supersedes(t, g), s = state, state.backend \in Backend,
           state' = [state EXCEPT !.att = t, !.suc = IF g THEN t ELSE @,
                                  !.result = IF g THEN "success" ELSE "failed"]
    PROVE  /\ state' \in States /\ Validated(state')
           /\ state'.att >= state.att /\ state'.suc >= state.suc
           /\ state'.suc # 0 => g \/ state.suc # 0
<1>1. /\ state'.backend = s.backend /\ state'.archive = s.archive /\ state'.att = t
      /\ state'.suc = (IF g THEN t ELSE s.suc)
      /\ state'.result = (IF g THEN "success" ELSE "failed")
      /\ state' \in States
  BY DEF States
<1>2. s.att \in 0..MaxTime /\ s.suc \in 0..MaxTime /\ s.suc <= s.att /\ t >= s.att
      /\ MaxTime \in Nat
  BY StateFacts, TimeAssumption DEF Supersedes, Validated
<1>3. Validated(state')
  <2>. DEFINE n == state'
  <2>1. n.backend \in Backend /\ "manual" \notin Backend /\ "none" \notin Backend
    BY <1>1 DEF Backend
  <2>2. n.suc <= n.att
    BY <1>1, <1>2
  <2>3. CASE g
    BY <1>1, <2>1, <2>2, <2>3 DEF Validated
  <2>4. CASE ~g
    BY <1>1, <2>1, <2>2, <2>4 DEF Validated
  <2>. QED BY <2>3, <2>4
<1>. QED BY <1>1, <1>2, <1>3

\* A result is recorded behind its receipt, and never takes a later one's place.
LEMMA ResultSteps ==
    ASSUME Inv, NEW r \in Run, RecordRun(r)
    PROVE  Inv' /\ state'.att >= state.att /\ state'.suc >= state.suc
<1>. DEFINE t == run[r].stamp g == run[r].good
<1>1. t \in 0..MaxTime /\ t # 0 /\ g \in BOOLEAN /\ (g => health.full # 0)
  BY InvFacts DEF RecordRun, InScan, Inv, Backed, Scan
<1>2. UNCHANGED <<sysVars, cmd, health, now>> /\ run' = [run EXCEPT ![r] = Done]
  BY DEF RecordRun
<1>3. state \in States /\ Validated(state) /\ (state.suc # 0 => health.full # 0)
      /\ health \in Receipt
  BY InvFacts DEF Inv, Backed
<1>4. /\ state' \in States /\ Validated(state')
      /\ state'.att >= state.att /\ state'.suc >= state.suc
      /\ state'.suc # 0 => health.full # 0
  <2>1. CASE state' = state
    BY <1>3, <2>1, StateFacts, TimeAssumption
  <2>2. CASE state' # state
    <3>1. /\ state.backend \in Backend /\ Supersedes(t, g)
          /\ state' = [state EXCEPT !.att = t, !.suc = IF g THEN t ELSE @,
                                    !.result = IF g THEN "success" ELSE "failed"]
      BY <2>2 DEF RecordRun
    <3>. HIDE DEF t, g
    <3>. QED BY <1>1, <1>3, <3>1, NewResult
  <2>. QED BY <2>1, <2>2
<1>5. Done \in Scan /\ Done.pc = "ended"
  BY IdleFacts DEF Done, Waiting
<1>6. Inv'
  BY <1>2, <1>3, <1>4, <1>5, ScanStep
<1>. QED BY <1>4, <1>6

----------------------------------------------------------------------------
LEMMA NextInv == Inv /\ [Next]_vars => Inv'
<1> SUFFICES ASSUME Inv, [Next]_vars PROVE Inv'
  OBVIOUS
<1>1. CASE UNCHANGED vars
  BY <1>1 DEF vars, sysVars, Inv, TypeOK, Validated, Loaded, Backed, Placed
<1>2. ASSUME NEW c \in Cmd, CmdStep(c) PROVE Inv'
  BY <1>2, QuietSteps, ManagerSteps, FileSteps, StoreSteps DEF CmdStep
<1>3. ASSUME NEW r \in Run,
             StartScan(r) \/ ScanEnds(r) \/ RecordHealth(r) \/ RecordRun(r) \/ KillScan(r)
      PROVE  Inv'
  BY <1>3, ScanMoves, ReceiptSteps, ResultSteps
<1>4. CASE \/ \E c \in Cmd : Begin(c) \/ Kill(c)
           \/ Tick \/ Outage \/ BusReturns \/ \E f \in File : UserReplaces(f)
  BY <1>4, OutsideSteps
<1>. QED BY <1>1, <1>2, <1>3, <1>4 DEF Next

THEOREM InvAlways == Spec => []Inv
BY InitInv, NextInv, PTL DEF Spec

\* Types, and: whatever commands and scans did and wherever they were killed,
\* the state file passes the validation of the next one that loads it.
THEOREM AlwaysLoads == Spec => []TypeOK
BY InvAlways, PTL DEF Inv

\* A success in the state file had its full-scan receipt first, also when an
\* enable that raced with the scan wrote an older state over it.
THEOREM ReceiptFirst == Spec => []SuccessHasReceipt
<1>1. Inv => SuccessHasReceipt
  BY DEF Inv, Backed, SuccessHasReceipt
<1>. QED BY <1>1, InvAlways, PTL

\* A recorded run is only lost to a disable, or to an enable that had read the
\* state before the run was recorded.
THEOREM LostOnlyByRace == Spec => RunsForgottenOnlyByRace
<1>. DEFINE Lost == state'.att < state.att \/ state'.suc < state.suc
            Race == \E c \in Cmd : /\ At(c, "store") /\ cmd'[c].pc = "enroll"
                                   /\ \/ cmd[c].loaded.att < state.att
                                      \/ cmd[c].loaded.suc < state.suc
<1>1. ASSUME Inv, Next PROVE Lost => state' = NoState \/ Race
  <2>1. ASSUME NEW c \in Cmd, Store(c) \/ ClearState(c)
        PROVE  Lost => state' = NoState \/ Race
    BY <1>1, <2>1, StoreSteps
  <2>2. ASSUME NEW r \in Run, RecordRun(r) PROVE ~Lost
    <3>1. state'.att >= state.att /\ state'.suc >= state.suc
      BY <1>1, <2>2, ResultSteps
    <3>2. state \in States /\ state' \in States
      BY <1>1, <2>2, InvFacts, ResultSteps DEF Inv, TypeOK
    <3>3. state.att \in Int /\ state'.att \in Int /\ state.suc \in Int /\ state'.suc \in Int
      BY <3>2, StateFacts, TimeAssumption
    <3>. QED BY <3>1, <3>3
  <2>3. CASE UNCHANGED state
    <3>1. state.att \in Int /\ state.suc \in Int
      BY <1>1, InvFacts, StateFacts, TimeAssumption
    <3>. QED BY <2>3, <3>1
  <2>4. UNCHANGED state \/ (\E c \in Cmd : Store(c) \/ ClearState(c))
        \/ \E r \in Run : RecordRun(r)
    BY <1>1 DEF Next, CmdStep, Begin, Kill, Preflight, Load, Unregister, RemoveFile, WriteFile,
                Register, RegisterFails, WriteFails, Undo, UndoFile, Enroll, StartScan,
                ScanEnds, RecordHealth, KillScan, Tick, Outage, BusReturns, UserReplaces
  <2>. QED BY <2>1, <2>2, <2>3, <2>4
<1>2. Inv /\ [Next]_vars => [Lost => state' = NoState \/ Race]_vars
  BY <1>1
<1>. QED BY <1>2, InvAlways, PTL DEF Spec, RunsForgottenOnlyByRace
----------------------------------------------------------------------------
(* What a command that runs alone may rely on, and what it leaves.         *)

WantedIn(x) == x.op \in {"plain", "archive"}
Has(x, F) == \A f \in F : files[f] = Rendered(f, x.op = "archive")
Cleared(F) == \A f \in F : files[f] = "none"

\* Where a command can be, by what it was asked for, and what it still has to do.
Shape(x) ==
    /\ x.op = "off" =>
          x.pc \in {"idle", "ended", "preflight", "load", "unregister", "remove", "clear"}
    /\ x.op = "manual" =>
          /\ x.pc \in {"ended", "load", "unregister", "remove", "store", "enroll"}
          /\ x.pc # "ended" => x.res = "none"
    /\ WantedIn(x) =>
          /\ x.pc \notin {"idle", "preflight", "clear"}
          /\ x.pc \notin {"undofiles", "ended"} => x.res = "none"
          /\ x.pc = "undofiles" => x.res = "failed"
    /\ x.pc = "preflight" => x.res = "none"
    /\ x.pc \in {"write", "undofiles"} => x.todo # {} /\ x.todo \subseteq FilesOf(host)
    /\ x.pc \in {"unregister", "remove"} =>
          x.todo # {} /\ x.todo \subseteq FilesOf(x.loaded.backend)
    /\ x.pc = "unregister" => x.todo = FilesOf(x.loaded.backend)

\* The files of the other backend, once removed, stay away, and who goes on to
\* install or to clear has removed them.
OthersGone == Cleared(File \ FilesOf(host))
Removing(x) ==
    /\ x.pc \in {"write", "register", "store", "undo", "undofiles", "enroll", "clear"} =>
          OthersGone
    /\ x.pc \in {"unregister", "remove"} =>
          \/ OthersGone
          \/ x.loaded.backend # host /\ Cleared(FilesOf(x.loaded.backend) \ x.todo)

Enabling(x) == WantedIn(x) =>
    /\ x.pc \in {"unregister", "remove", "write", "register", "store", "undo",
                 "undofiles", "enroll"} => bus /\ Owned(host)
    /\ x.pc = "write" => Has(x, FilesOf(host) \ x.todo)
    /\ x.pc \in {"register", "store", "enroll"} => Has(x, FilesOf(host))
    /\ x.pc \in {"store", "enroll"} => job = x.op
    /\ x.pc = "undofiles" => job = "off" /\ Cleared(FilesOf(host) \ x.todo)

Stored(x) == IF WantedIn(x) THEN state.backend = host /\ state.archive = (x.op = "archive")
             ELSE state.backend = "manual"

\* An enable that could not enroll disables what it has just enabled.
Retreating(x) == x.op = "off" /\ x.res = "failed" =>
    /\ x.pc = "load" => \/ state.backend = "manual"
                        \/ state.backend = host /\ bus /\ Owned(host)
    /\ x.loaded.backend = host =>
          /\ x.pc \in {"unregister", "remove"} => bus /\ Owned(host)
          /\ x.pc = "remove" => job = "off" /\ Cleared(FilesOf(host) \ x.todo)
          /\ x.pc = "clear" => job = "off" /\ Cleared(FilesOf(host))

Settled(x) == x.pc = "ended" =>
    /\ WantedIn(x) /\ x.res = "ok" =>
          bus /\ Has(x, FilesOf(host)) /\ job = x.op /\ Stored(x)
    /\ WantedIn(x) /\ x.res = "failed" =>
          job = "off" /\ ~(state.backend \in Backend /\ FilesValid(state))
    /\ x.op = "off" /\ x.res = "failed" /\ x.loaded.backend = host =>
          job = "off" /\ state.backend = "none" /\ Cleared(File)

Sound(x) == /\ Enabling(x) /\ Retreating(x) /\ Settled(x)
            /\ x.pc = "enroll" => Stored(x)

AloneInv ==
    /\ state.backend \in Backend \ {host} \/ OthersGone
    /\ \A c \in Cmd : /\ Shape(cmd[c]) /\ Removing(cmd[c])
                      /\ cmd[c].solo => Alone(c) /\ Sound(cmd[c])

LEMMA FileFacts ==
    ASSUME host \in Backend
    PROVE  /\ \A b : FilesOf(b) \subseteq File /\ (FilesOf(b) # {} => b \in Backend)
           /\ \A b \in Backend : FilesOf(b) # {} /\ JobFile(b) \in FilesOf(b)
           /\ \A b \in Backend \ {host} : FilesOf(b) = File \ FilesOf(host)
BY DEF Backend, FilesOf, File, JobFile

LEMMA NextFileFacts ==
    ASSUME NEW c \in Cmd, cmd[c].todo # {}, cmd[c].todo \subseteq File
    PROVE  NextFile(c) \in cmd[c].todo
BY DEF NextFile, File

LEMMA InitAlone == Init => AloneInv
<1> SUFFICES ASSUME Init PROVE AloneInv
  OBVIOUS
<1>1. \A c \in Cmd : cmd[c] = Idle
  BY DEF Init
<1>2. Shape(Idle) /\ Removing(Idle) /\ ~Idle.solo
  BY DEF Idle, Shape, Removing, WantedIn
<1>3. state.backend \in Backend \ {host} \/ OthersGone
  <2>1. CASE state = NoState /\ files = [f \in File |-> "none"]
    BY <2>1 DEF OthersGone, Cleared
  <2>2. CASE state # NoState \/ files # [f \in File |-> "none"]
    <3>1. PICK b \in Backend \ {host} :
              state = [backend |-> b, archive |-> TRUE, att |-> 1, suc |-> 1,
                       result |-> "success"]
      BY <2>2 DEF Init
    <3>. QED BY <3>1
  <2>. QED BY <2>1, <2>2
<1>. QED BY <1>1, <1>2, <1>3 DEF AloneInv

\* What others' steps leave of a command's conditions.
LEMMA KeepsShape ==
    ASSUME NEW x, host' = host, Shape(x) PROVE Shape(x)'
BY DEF Shape, WantedIn

LEMMA KeepsRemoving ==
    ASSUME NEW x, host \in Backend, host' = host, Shape(x), Removing(x),
           \A f \in File \ FilesOf(host) : files[f] = "none" => files'[f] = "none"
    PROVE  Removing(x)'
<1>1. OthersGone => OthersGone'
  BY DEF OthersGone, Cleared
<1>2. CASE x.pc \in {"unregister", "remove"} /\ x.loaded.backend # host
                  /\ Cleared(FilesOf(x.loaded.backend) \ x.todo)
  <2>1. FilesOf(x.loaded.backend) = File \ FilesOf(host)
    BY <1>2, FileFacts DEF Shape
  <2>2. Cleared(FilesOf(x.loaded.backend) \ x.todo)'
    BY <1>2, <2>1 DEF Cleared
  <2>. QED BY <1>2, <2>2 DEF Removing
<1>3. CASE x.pc \notin {"unregister", "remove"} \/ OthersGone
  BY <1>1, <1>3 DEF Removing
<1>. QED BY <1>2, <1>3 DEF Removing

\* A step of a command, whose record becomes new.
LEMMA OwnAlone ==
    ASSUME Inv, AloneInv, NEW c \in Cmd, Busy(c), host' = host,
           NEW new, cmd' = [cmd EXCEPT ![c] = new],
           Shape(new), Removing(new)', new.solo => cmd[c].solo /\ Sound(new)',
           \A f \in File \ FilesOf(host) : files[f] = "none" => files'[f] = "none",
           (state.backend \in Backend \ {host} \/ OthersGone)'
    PROVE  AloneInv'
<1> SUFFICES ASSUME NEW d \in Cmd
             PROVE  (/\ Shape(cmd[d]) /\ Removing(cmd[d])
                     /\ cmd[d].solo => Alone(d) /\ Sound(cmd[d]))'
  BY DEF AloneInv
<1>0. \A e \in Cmd : cmd'[e] = IF e = c THEN new ELSE cmd[e]
  BY InvFacts
<1>1. CASE d = c
  <2>1. cmd'[d] = new
    BY <1>0, <1>1
  <2>2. Shape(new)'
    BY KeepsShape
  <2>3. Alone(c) => Alone(c)'
    BY <1>0 DEF Alone, Busy
  <2>4. cmd[c].solo => Alone(c)
    BY DEF AloneInv
  <2>. QED BY <1>1, <2>1, <2>2, <2>3, <2>4
<1>2. CASE d # c
  <2>1. PICK x : x = cmd[d]
    OBVIOUS
  <2>2. x = cmd'[d] /\ Shape(x) /\ Removing(x)
    BY <1>0, <1>2, <2>1 DEF AloneInv
  <2>3. Shape(x)' /\ Removing(x)'
    BY <2>2, KeepsShape, KeepsRemoving, InvFacts
  <2>4. ~x.solo
    BY <1>2, <2>1 DEF AloneInv, Alone
  <2>. QED BY <2>2, <2>3, <2>4
<1>. QED BY <1>1, <1>2
\* A command ends.
LEMMA EndAlone ==
    ASSUME Inv, AloneInv, NEW c \in Cmd, Busy(c), host' = host,
           NEW r \in {"ok", "failed", "refused"}, End(c, r),
           NEW x, x = cmd[c], NEW n,
           n = [x EXCEPT !.pc = "ended", !.todo = {},
                         !.res = IF x.res = "failed" THEN "failed" ELSE r],
           x.solo => Settled(n)',
           \A f \in File \ FilesOf(host) : files[f] = "none" => files'[f] = "none",
           (state.backend \in Backend \ {host} \/ OthersGone)'
    PROVE  AloneInv'
<1>1. x \in Command /\ Shape(x)
  BY InvFacts DEF AloneInv
<1>2. /\ n.pc = "ended" /\ n.op = x.op /\ n.todo = {} /\ n.solo = x.solo
  BY <1>1 DEF Command
<1>3. Shape(n) /\ Removing(n)'
  BY <1>1, <1>2 DEF Shape, Removing, WantedIn
<1>4. CASE x.solo
  <2>1. cmd' = [cmd EXCEPT ![c] = n]
    BY <1>4 DEF End, Ended, Outcome
  <2>2. Enabling(n)' /\ Retreating(n)'
    BY <1>2 DEF Enabling, Retreating
  <2>3. Sound(n)'
    BY <1>2, <1>4, <2>2 DEF Sound
  <2>. QED BY <1>3, <1>4, <2>1, <2>3, OwnAlone
<1>5. CASE ~x.solo
  <2>1. cmd' = [cmd EXCEPT ![c] = Idle]
    BY <1>5 DEF End, Ended
  <2>2. Shape(Idle) /\ Removing(Idle)' /\ ~Idle.solo
    BY DEF Idle, Shape, Removing, WantedIn
  <2>3. PICK m : m = Idle
    OBVIOUS
  <2>4. Shape(m) /\ Removing(m)' /\ ~m.solo /\ cmd' = [cmd EXCEPT ![c] = m]
    BY <2>1, <2>2, <2>3
  <2>. QED BY <2>4, OwnAlone
<1>. QED BY <1>4, <1>5

LEMMA PreflightAlone ==
    ASSUME Inv, AloneInv, NEW c \in Cmd, Preflight(c) PROVE AloneInv'
<1>1. /\ UNCHANGED <<host, bus, job, files, state>> /\ cmd[c].pc = "preflight"
      /\ Goto(c, "load") \/ End(c, "refused")
  BY DEF Preflight, sysVars, At
<1>2. PICK x : x = cmd[c]
  OBVIOUS
<1>3. /\ x \in Command /\ Shape(x) /\ Busy(c)
      /\ (state.backend \in Backend \ {host} \/ OthersGone)'
  BY <1>1, <1>2, InvFacts DEF AloneInv, Busy, OthersGone, Cleared
<1>4. x.op = "off" /\ x.res = "none"
  BY <1>1, <1>2, <1>3 DEF Shape, WantedIn, Command
<1>5. CASE Goto(c, "load")
  <2>1. PICK n : n = [x EXCEPT !.pc = "load"]
    OBVIOUS
  <2>2. n.pc = "load" /\ n.op = "off" /\ n.res = "none" /\ n.solo = x.solo
    BY <1>3, <1>4, <2>1 DEF Command
  <2>3. Shape(n) /\ Removing(n)' /\ Sound(n)'
    BY <2>2 DEF Shape, Removing, Sound, Enabling, Retreating, Settled, WantedIn
  <2>4. cmd' = [cmd EXCEPT ![c] = n]
    BY <1>2, <1>5, <2>1, InvFacts DEF Goto
  <2>. QED BY <1>1, <1>2, <1>3, <2>2, <2>3, <2>4, OwnAlone
<1>6. CASE End(c, "refused")
  <2>1. PICK n : n = [x EXCEPT !.pc = "ended", !.todo = {},
                               !.res = IF x.res = "failed" THEN "failed" ELSE "refused"]
    OBVIOUS
  <2>2. n.res = "refused"
    BY <1>3, <1>4, <2>1 DEF Command
  <2>3. Settled(n)'
    BY <2>2 DEF Settled
  <2>. QED BY <1>1, <1>2, <1>3, <1>6, <2>1, <2>3, EndAlone
<1>. QED BY <1>1, <1>5, <1>6

LEMMA LoadAlone ==
    ASSUME Inv, AloneInv, NEW c \in Cmd, Load(c) PROVE AloneInv'
<1>1. UNCHANGED <<host, bus, job, files, state>> /\ cmd[c].pc = "load"
  BY DEF Load, sysVars, At
<1>2. PICK x : x = cmd[c]
  OBVIOUS
<1>3. /\ x \in Command /\ Shape(x) /\ Busy(c) /\ host \in Backend
      /\ state.backend \in Backend \ {host} \/ OthersGone
      /\ (state.backend \in Backend \ {host} \/ OthersGone)'
      /\ x.solo => Sound(x)
  BY <1>1, <1>2, InvFacts DEF AloneInv, Busy, OthersGone, Cleared
<1>4. Wanted(c) <=> WantedIn(x)
  BY <1>2 DEF Wanted, WantedIn
<1>5. ~WantedIn(x) => x.op \in {"manual", "off"}
  BY <1>3 DEF Command, WantedIn
<1>6. CASE MayBegin(c)
  <2>. DEFINE l == IF TearsDown(c) THEN "unregister" ELSE AfterTeardown(c)
              t == FilesOf(IF TearsDown(c) THEN state.backend ELSE host)
  <2>1. PICK s : s = state
    OBVIOUS
  <2>2. PICK n : n = [x EXCEPT !.loaded = s, !.pc = l, !.todo = t]
    OBVIOUS
  <2>3. /\ n.op = x.op /\ n.res = x.res /\ n.solo = x.solo
        /\ n.loaded = s /\ n.pc = l /\ n.todo = t
    BY <1>3, <2>2 DEF Command
  <2>4. /\ TearsDown(c) <=> (s.backend \in Backend /\ (WantedIn(x) => s.backend # host))
        /\ ~TearsDown(c) => OthersGone
    BY <1>3, <1>4, <2>1 DEF TearsDown
  <2>5. /\ TearsDown(c) => l = "unregister" /\ t = FilesOf(s.backend) /\ t # {}
        /\ ~TearsDown(c) => /\ t = FilesOf(host) /\ t # {}
                            /\ WantedIn(x) => l = "write"
                            /\ x.op = "manual" => l = "store"
                            /\ x.op = "off" => l = "clear"
    BY <1>2, <1>3, <1>4, <2>1, <2>4, FileFacts DEF AfterTeardown, WantedIn
  <2>. HIDE DEF l, t
  <2>6. Shape(n)
    BY <1>1, <1>2, <1>3, <1>5, <2>3, <2>4, <2>5 DEF Shape, WantedIn
  <2>7. Removing(n)
    <3>1. CASE TearsDown(c)
      <4>1. n.pc = "unregister" /\ n.loaded.backend = s.backend
            /\ FilesOf(s.backend) \ n.todo = {}
        BY <2>3, <2>5, <3>1
      <4>2. OthersGone \/ s.backend # host
        BY <1>3, <2>1
      <4>. QED BY <4>1, <4>2 DEF Removing, Cleared
    <3>2. CASE ~TearsDown(c)
      BY <2>4, <3>2 DEF Removing
    <3>. QED BY <3>1, <3>2
  <2>8. ASSUME n.solo PROVE Sound(n)
    <3>1. Enabling(n)
      <4>1. SUFFICES ASSUME WantedIn(n) PROVE Enabling(n)
        BY DEF Enabling
      <4>2. WantedIn(x) /\ bus /\ Owned(host)
        BY <1>4, <1>6, <2>3, <4>1 DEF MayBegin, WantedIn
      <4>3. n.pc = "unregister" \/ (n.pc = "write" /\ n.todo = FilesOf(host))
        BY <2>3, <2>5, <4>2
      <4>. QED BY <4>2, <4>3 DEF Enabling, Has
    <3>2. Retreating(n)
      <4>1. SUFFICES ASSUME n.op = "off", n.res = "failed" PROVE Retreating(n)
        BY DEF Retreating
      <4>2. s.backend = "manual" \/ (s.backend = host /\ bus /\ Owned(host))
        BY <1>1, <1>2, <1>3, <2>1, <2>3, <2>8, <4>1 DEF Sound, Retreating
      <4>3. host # "manual" /\ ~WantedIn(n) /\ ~WantedIn(x)
        BY <1>3, <2>3, <4>1 DEF Backend, WantedIn
      <4>4. s.backend = host => n.pc = "unregister" /\ bus /\ Owned(host)
        BY <1>3, <2>3, <2>4, <2>5, <4>2, <4>3
      <4>5. n.pc \in {"unregister", "clear"}
        BY <2>3, <2>5, <4>1
      <4>. QED BY <2>3, <4>4, <4>5 DEF Retreating
    <3>3. n.pc \in {"unregister", "write", "store", "clear"}
      BY <1>5, <2>3, <2>5
    <3>. QED BY <3>1, <3>2, <3>3 DEF Sound, Settled
  <2>9. Removing(n)' /\ (n.solo => cmd[c].solo /\ Sound(n)')
    <3>1. Removing(n)'
      BY <1>1, <2>7 DEF Removing, OthersGone, Cleared
    <3>2. Sound(n) => Sound(n)'
      BY <1>1 DEF Sound, Enabling, Retreating, Settled, Stored, Has, Cleared, Owned, FilesValid
    <3>. QED BY <1>2, <2>3, <2>8, <3>1, <3>2
  <2>10. cmd' = [cmd EXCEPT ![c] = n]
    <3>1. cmd' = [cmd EXCEPT ![c].loaded = s, ![c].pc = l, ![c].todo = t]
      BY <1>6, <2>1 DEF Load, l, t
    <3>. QED BY <1>2, <2>2, <3>1, InvFacts
  <2>. QED BY <1>1, <1>3, <2>6, <2>9, <2>10, OwnAlone
<1>7. CASE ~MayBegin(c)
  <2>1. PICK n : n = [x EXCEPT !.pc = "ended", !.todo = {},
                               !.res = IF x.res = "failed" THEN "failed" ELSE "refused"]
    OBVIOUS
  <2>2. n.res = IF x.res = "failed" THEN "failed" ELSE "refused"
    BY <1>3, <2>1 DEF Command
  <2>3. ASSUME x.solo, x.res = "failed" PROVE FALSE
    <3>1. x.op = "off"
      BY <1>1, <1>2, <1>3, <1>5, <2>3 DEF Shape
    <3>2. state.backend = "manual" \/ (state.backend = host /\ Owned(host))
      BY <1>1, <1>2, <1>3, <2>3, <3>1 DEF Sound, Retreating
    <3>3. ~Wanted(c) /\ (TearsDown(c) <=> state.backend \in Backend)
      BY <1>4, <3>1 DEF WantedIn, TearsDown
    <3>. QED BY <1>7, <3>2, <3>3 DEF MayBegin, Backend
  <2>4. x.solo => Settled(n)'
    BY <2>2, <2>3 DEF Settled
  <2>5. End(c, "refused")
    BY <1>7 DEF Load
  <2>. QED BY <1>1, <1>2, <1>3, <2>1, <2>4, <2>5, EndAlone
<1>. QED BY <1>6, <1>7
LEMMA UnregisterAlone ==
    ASSUME Inv, AloneInv, NEW c \in Cmd, Unregister(c) PROVE AloneInv'
<1>1. /\ UNCHANGED <<host, bus, files, state>> /\ cmd[c].pc = "unregister"
      /\ job' = Unregistered(cmd[c].loaded.backend)
  BY DEF Unregister, At
<1>2. PICK x : x = cmd[c]
  OBVIOUS
<1>3. /\ x \in Command /\ Shape(x) /\ Removing(x) /\ Busy(c)
      /\ x.solo => Sound(x)
      /\ (state.backend \in Backend \ {host} \/ OthersGone)'
  BY <1>1, <1>2, InvFacts DEF AloneInv, Busy, OthersGone, Cleared
<1>4. PICK n : n = [x EXCEPT !.pc = "remove"]
  OBVIOUS
<1>5. /\ n.pc = "remove" /\ n.op = x.op /\ n.res = x.res /\ n.solo = x.solo
      /\ n.loaded = x.loaded /\ n.todo = x.todo
  BY <1>3, <1>4 DEF Command
<1>6. cmd' = [cmd EXCEPT ![c] = n]
  BY <1>2, <1>4, InvFacts DEF Unregister, Goto
<1>7. Shape(n)
  BY <1>1, <1>2, <1>3, <1>5 DEF Shape, WantedIn
<1>8. Removing(n)'
  BY <1>1, <1>2, <1>3, <1>5 DEF Removing, OthersGone, Cleared
<1>9. ASSUME n.solo PROVE Sound(n)'
  <2>1. Enabling(n)'
    BY <1>1, <1>2, <1>3, <1>5, <1>9 DEF Sound, Enabling, WantedIn, Owned
  <2>2. Retreating(n)'
    <3>1. SUFFICES ASSUME n.op = "off", n.res = "failed", n.loaded.backend = host
                   PROVE  bus' /\ Owned(host)' /\ job' = "off"
                          /\ Cleared(FilesOf(host) \ n.todo)'
      BY <1>1, <1>5 DEF Retreating
    <3>2. bus /\ Owned(host)
      BY <1>1, <1>2, <1>3, <1>5, <1>9, <3>1 DEF Sound, Retreating
    <3>3. FilesOf(host) \ n.todo = {}
      BY <1>1, <1>2, <1>3, <1>5, <3>1 DEF Shape
    <3>. QED BY <1>1, <1>2, <1>5, <3>1, <3>2, <3>3 DEF Unregistered, Owned, Cleared
  <2>. QED BY <1>5, <2>1, <2>2 DEF Sound, Settled
<1>. QED BY <1>1, <1>2, <1>3, <1>5, <1>6, <1>7, <1>8, <1>9, OwnAlone

\* c has dealt with its next file, the last of which takes it to l.
LEMMA AdvanceCases ==
    ASSUME Inv, NEW c \in Cmd, NEW l \in CmdPc, l # "ended", Advance(c, l)
    PROVE  \E n \in Command :
             /\ cmd' = [cmd EXCEPT ![c] = n]
             /\ n.op = cmd[c].op /\ n.res = cmd[c].res /\ n.solo = cmd[c].solo
             /\ n.loaded = cmd[c].loaded
             /\ \/ /\ n.pc = cmd[c].pc
                   /\ n.todo = cmd[c].todo \ {NextFile(c)} /\ n.todo # {}
                \/ /\ n.pc = l /\ n.todo = FilesOf(host)
                   /\ cmd[c].todo \ {NextFile(c)} = {}
<1>1. cmd[c] \in Command /\ FilesOf(host) \in SUBSET File
  BY InvFacts, FileFacts
<1>2. CASE cmd[c].todo \ {NextFile(c)} # {}
  <2>1. cmd' = [cmd EXCEPT ![c].todo = cmd[c].todo \ {NextFile(c)}]
    BY <1>2 DEF Advance
  <2>2. PICK n : n = [cmd[c] EXCEPT !.todo = cmd[c].todo \ {NextFile(c)}]
    OBVIOUS
  <2>3. /\ n \in Command /\ n.pc = cmd[c].pc /\ n.op = cmd[c].op /\ n.res = cmd[c].res
        /\ n.solo = cmd[c].solo /\ n.loaded = cmd[c].loaded
        /\ n.todo = cmd[c].todo \ {NextFile(c)}
    BY <1>1, <2>2 DEF Command
  <2>4. cmd' = [cmd EXCEPT ![c] = n]
    BY <2>1, <2>2, InvFacts
  <2>. QED BY <1>2, <2>3, <2>4
<1>3. CASE cmd[c].todo \ {NextFile(c)} = {}
  <2>1. cmd' = [cmd EXCEPT ![c].pc = l, ![c].todo = FilesOf(host)]
    BY <1>3 DEF Advance
  <2>2. PICK n : n = [cmd[c] EXCEPT !.pc = l, !.todo = FilesOf(host)]
    OBVIOUS
  <2>3. /\ n \in Command /\ n.pc = l /\ n.op = cmd[c].op /\ n.res = cmd[c].res
        /\ n.solo = cmd[c].solo /\ n.loaded = cmd[c].loaded
        /\ n.todo = FilesOf(host)
    BY <1>1, <2>2 DEF Command
  <2>4. cmd' = [cmd EXCEPT ![c] = n]
    BY <2>1, <2>2, InvFacts
  <2>. QED BY <1>3, <2>3, <2>4
<1>. QED BY <1>2, <1>3

LEMMA RemoveAlone ==
    ASSUME Inv, AloneInv, NEW c \in Cmd, RemoveFile(c) PROVE AloneInv'
<1>1. /\ UNCHANGED <<host, bus, job, state>> /\ cmd[c].pc = "remove"
  BY DEF RemoveFile, At
<1>2. PICK x : x = cmd[c]
  OBVIOUS
<1>3. PICK f : f = NextFile(c)
  OBVIOUS
<1>4. /\ x \in Command /\ Shape(x) /\ Removing(x) /\ Busy(c)
      /\ x.solo => Sound(x)
      /\ state.backend \in Backend \ {host} \/ OthersGone
      /\ host \in Backend
  BY <1>1, <1>2, InvFacts DEF AloneInv, Busy
<1>5. /\ x.todo # {} /\ x.todo \subseteq FilesOf(x.loaded.backend) /\ f \in x.todo /\ f \in File
      /\ x.loaded.backend \in Backend
  <2>1. x.todo # {} /\ x.todo \subseteq FilesOf(x.loaded.backend)
    BY <1>1, <1>2, <1>4 DEF Shape
  <2>2. x.todo \subseteq File /\ x.loaded.backend \in Backend
    BY <1>4, <2>1, FileFacts
  <2>. QED BY <1>2, <1>3, <2>1, <2>2, NextFileFacts
<1>6. CASE files[f] = "foreign"
  <2>1. End(c, "refused") /\ UNCHANGED files
    BY <1>3, <1>6 DEF RemoveFile
  <2>2. PICK n : n = [x EXCEPT !.pc = "ended", !.todo = {},
                               !.res = IF x.res = "failed" THEN "failed" ELSE "refused"]
    OBVIOUS
  <2>3. /\ n.res = (IF x.res = "failed" THEN "failed" ELSE "refused") /\ n.op = x.op
        /\ n.loaded = x.loaded
    BY <1>4, <2>2 DEF Command
  <2>4. ASSUME x.solo PROVE Settled(n)'
    <3>1. WantedIn(x) => x.res = "none"
      BY <1>1, <1>2, <1>4 DEF Shape
    <3>2. x.op = "off" /\ x.res = "failed" /\ x.loaded.backend = host => Owned(host)
      BY <1>1, <1>2, <1>4, <2>4 DEF Sound, Retreating
    <3>3. ~(x.op = "off" /\ x.res = "failed" /\ x.loaded.backend = host)
      BY <1>5, <1>6, <3>2 DEF Owned
    <3>. QED BY <1>1, <2>3, <3>1, <3>3 DEF Settled, WantedIn
  <2>5. (state.backend \in Backend \ {host} \/ OthersGone)'
    BY <1>1, <1>4, <2>1 DEF OthersGone, Cleared
  <2>. QED BY <1>1, <1>2, <1>4, <2>1, <2>2, <2>4, <2>5, EndAlone
<1>7. CASE files[f] # "foreign"
  <2>1. files' = [files EXCEPT ![f] = "none"] /\ Advance(c, AfterTeardown(c))
    BY <1>3, <1>7 DEF RemoveFile
  <2>2. \A g \in File : files'[g] = IF g = f THEN "none" ELSE files[g]
    BY <1>5, <2>1, InvFacts
  <2>3. (state.backend \in Backend \ {host} \/ OthersGone)'
    BY <1>1, <1>4, <2>2 DEF OthersGone, Cleared
  <2>4. /\ FilesOf(host) \subseteq File /\ FilesOf(x.loaded.backend) \subseteq File
        /\ x.loaded.backend # host => FilesOf(x.loaded.backend) = File \ FilesOf(host)
        /\ FilesOf(host) # {}
    BY <1>4, <1>5, FileFacts
  <2>5. Owned(host) => Owned(host)'
    BY <1>1, <2>2, <2>4 DEF Owned
  <2>6. OthersGone => OthersGone'
    BY <1>1, <2>2 DEF OthersGone, Cleared
  <2>7. AfterTeardown(c) = IF WantedIn(x) THEN "write"
                           ELSE IF x.op = "manual" THEN "store" ELSE "clear"
    BY <1>2 DEF AfterTeardown, Wanted, WantedIn
  <2>8. PICK l : l = AfterTeardown(c)
    OBVIOUS
  <2>9. l \in CmdPc /\ l # "ended" /\ Advance(c, l)
    BY <2>1, <2>7, <2>8 DEF CmdPc
  <2>10. PICK n \in Command :
             /\ cmd' = [cmd EXCEPT ![c] = n]
             /\ n.op = cmd[c].op /\ n.res = cmd[c].res /\ n.solo = cmd[c].solo
             /\ n.loaded = cmd[c].loaded
             /\ \/ /\ n.pc = cmd[c].pc
                   /\ n.todo = cmd[c].todo \ {NextFile(c)} /\ n.todo # {}
                \/ /\ n.pc = l /\ n.todo = FilesOf(host)
                   /\ cmd[c].todo \ {NextFile(c)} = {}
    BY <2>9, AdvanceCases
  <2>11. CASE n.pc = cmd[c].pc /\ n.todo = cmd[c].todo \ {NextFile(c)} /\ n.todo # {}
    <3>2. /\ n.pc = "remove" /\ n.op = x.op /\ n.res = x.res /\ n.solo = x.solo
          /\ n.loaded = x.loaded /\ n.todo = x.todo \ {f} /\ n.todo # {}
      BY <1>1, <1>2, <1>3, <2>11, <2>10
    <3>3. Shape(n)
      BY <1>1, <1>2, <1>4, <3>2 DEF Shape, WantedIn
    <3>4. Cleared(FilesOf(x.loaded.backend) \ x.todo)
            => Cleared(FilesOf(n.loaded.backend) \ n.todo)'
      BY <2>2, <2>4, <3>2 DEF Cleared
    <3>5. Removing(n)'
      BY <1>1, <1>2, <1>4, <2>6, <3>2, <3>4 DEF Removing
    <3>6. ASSUME n.solo PROVE Sound(n)'
      <4>1. Enabling(n)'
        BY <1>1, <1>2, <1>4, <2>5, <3>2, <3>6 DEF Sound, Enabling, WantedIn
      <4>2. Retreating(n)'
        BY <1>1, <1>2, <1>4, <2>5, <3>2, <3>4, <3>6 DEF Sound, Retreating
      <4>. QED BY <3>2, <4>1, <4>2 DEF Sound, Settled
    <3>. QED BY <1>1, <1>2, <1>4, <2>2, <2>3, <3>2, <3>3, <3>5, <3>6, <2>10, OwnAlone
  <2>12. CASE n.pc = l /\ n.todo = FilesOf(host) /\ cmd[c].todo \ {NextFile(c)} = {}
    <3>2. /\ n.pc = l /\ n.op = x.op /\ n.res = x.res /\ n.solo = x.solo
          /\ n.loaded = x.loaded /\ n.todo = FilesOf(host) /\ x.todo \ {f} = {}
      BY <1>2, <1>3, <2>12, <2>10
    <3>3. /\ WantedIn(x) => n.pc = "write"
          /\ x.op = "manual" => n.pc = "store"
          /\ x.op = "off" => n.pc = "clear"
          /\ WantedIn(x) \/ x.op \in {"manual", "off"}
      BY <1>4, <2>7, <2>8, <3>2 DEF Command, WantedIn
    <3>4. Shape(n)
      BY <1>1, <1>2, <1>4, <2>4, <3>2, <3>3 DEF Shape, WantedIn
    <3>5. Cleared(FilesOf(x.loaded.backend) \ x.todo) => Cleared(FilesOf(x.loaded.backend))'
      BY <2>2, <2>4, <3>2 DEF Cleared
    <3>6. OthersGone'
      BY <1>1, <1>2, <1>4, <2>4, <2>6, <3>5 DEF Removing, OthersGone
    <3>7. ASSUME n.solo PROVE Sound(n)'
      <4>1. WantedIn(n) => bus' /\ Owned(host)'
        BY <1>1, <1>2, <1>4, <2>5, <3>2, <3>7 DEF Sound, Enabling, WantedIn
      <4>2. Enabling(n)'
        <5>1. WantedIn(n) => n.pc = "write"
          BY <3>2, <3>3 DEF WantedIn
        <5>2. FilesOf(host)' \ n.todo = {}
          BY <1>1, <3>2
        <5>. QED BY <4>1, <5>1, <5>2 DEF Enabling, Has, WantedIn
      <4>3. Retreating(n)'
        <5>1. SUFFICES ASSUME n.op = "off", n.res = "failed", n.loaded.backend = host
                       PROVE  job' = "off" /\ Cleared(FilesOf(host))'
          BY <1>1, <3>2, <3>3 DEF Retreating, WantedIn
        <5>2. job = "off" /\ Cleared(FilesOf(host) \ x.todo)
          BY <1>1, <1>2, <1>4, <3>2, <3>7, <5>1 DEF Sound, Retreating
        <5>. QED BY <1>1, <3>2, <3>5, <5>1, <5>2
      <4>. QED BY <3>3, <4>2, <4>3 DEF Sound, Settled
    <3>9. Removing(n)'
      BY <3>3, <3>6 DEF Removing
    <3>. QED BY <1>1, <1>2, <1>4, <2>2, <2>3, <3>2, <3>4, <3>7, <3>9, <2>10, OwnAlone
  <2>. QED BY <2>11, <2>12, <2>10
<1>. QED BY <1>6, <1>7
LEMMA WriteAlone ==
    ASSUME Inv, AloneInv, NEW c \in Cmd, WriteFile(c) PROVE AloneInv'
<1>1. /\ UNCHANGED <<host, bus, job, state>> /\ cmd[c].pc = "write"
  BY DEF WriteFile, At
<1>2. PICK x : x = cmd[c]
  OBVIOUS
<1>3. PICK f : f = NextFile(c)
  OBVIOUS
<1>4. /\ x \in Command /\ Shape(x) /\ Removing(x) /\ Busy(c)
      /\ x.solo => Sound(x)
      /\ host \in Backend
  BY <1>1, <1>2, InvFacts DEF AloneInv, Busy
<1>5. /\ x.todo # {} /\ x.todo \subseteq FilesOf(host) /\ f \in x.todo /\ f \in FilesOf(host)
      /\ WantedIn(x) /\ x.res = "none" /\ OthersGone
  <2>1. x.todo # {} /\ x.todo \subseteq FilesOf(host)
    BY <1>1, <1>2, <1>4 DEF Shape
  <2>2. f \in x.todo
    BY <1>2, <1>3, <1>4, <2>1, FileFacts, NextFileFacts
  <2>3. WantedIn(x) /\ x.res = "none" /\ OthersGone
    BY <1>1, <1>2, <1>4 DEF Shape, Removing, Command, WantedIn
  <2>. QED BY <2>1, <2>2, <2>3
<1>6. FilesOf(host) \subseteq File /\ FilesOf(host) # {}
  BY <1>4, FileFacts
<1>7. CASE files[f] = "foreign"
  <2>1. Goto(c, "undo") /\ UNCHANGED files
    BY <1>3, <1>7 DEF WriteFile
  <2>2. PICK n : n = [x EXCEPT !.pc = "undo"]
    OBVIOUS
  <2>3. n.pc = "undo" /\ n.op = x.op /\ n.res = "none" /\ n.solo = x.solo
    BY <1>4, <1>5, <2>2 DEF Command
  <2>4. cmd' = [cmd EXCEPT ![c] = n]
    BY <1>2, <2>1, <2>2, InvFacts DEF Goto
  <2>5. Shape(n) /\ OthersGone' /\ Removing(n)'
    BY <1>1, <1>5, <2>1, <2>3 DEF Shape, WantedIn, Removing, OthersGone, Cleared
  <2>6. ASSUME x.solo PROVE Sound(n)'
    BY <1>1, <1>2, <1>4, <1>5, <2>1, <2>3, <2>6
       DEF Sound, Enabling, Retreating, Settled, WantedIn, Owned
  <2>. QED BY <1>1, <1>2, <1>4, <2>1, <2>3, <2>4, <2>5, <2>6, OwnAlone
<1>8. CASE files[f] # "foreign"
  <2>1. /\ files' = [files EXCEPT ![f] = Rendered(f, x.op = "archive")]
        /\ Advance(c, "register")
    BY <1>2, <1>3, <1>8 DEF WriteFile
  <2>2. \A g \in File : files'[g] = IF g = f THEN Rendered(f, x.op = "archive") ELSE files[g]
    BY <1>5, <1>6, <2>1, InvFacts
  <2>3. OthersGone' /\ \A g \in File \ FilesOf(host) : files'[g] = files[g]
    BY <1>1, <1>5, <2>2 DEF OthersGone, Cleared
  <2>4. Owned(host) => Owned(host)'
    BY <1>1, <1>6, <2>2 DEF Owned, Rendered, Flag
  <2>5. PICK n \in Command :
             /\ cmd' = [cmd EXCEPT ![c] = n]
             /\ n.op = cmd[c].op /\ n.res = cmd[c].res /\ n.solo = cmd[c].solo
             /\ n.loaded = cmd[c].loaded
             /\ \/ /\ n.pc = cmd[c].pc
                   /\ n.todo = cmd[c].todo \ {NextFile(c)} /\ n.todo # {}
                \/ /\ n.pc = "register" /\ n.todo = FilesOf(host)
                   /\ cmd[c].todo \ {NextFile(c)} = {}
    BY <2>1, AdvanceCases DEF CmdPc
  <2>6. /\ n.op = x.op /\ n.res = "none" /\ n.solo = x.solo
        /\ \/ n.pc = "write" /\ n.todo = x.todo \ {f} /\ n.todo # {}
           \/ n.pc = "register" /\ x.todo \ {f} = {}
    BY <1>1, <1>2, <1>3, <1>5, <2>5
  <2>7. Shape(n) /\ Removing(n)'
    BY <1>5, <2>3, <2>6 DEF Shape, WantedIn, Removing
  <2>8. ASSUME x.solo PROVE Sound(n)'
    <3>1. bus /\ Owned(host) /\ Has(x, FilesOf(host) \ x.todo)
      BY <1>1, <1>2, <1>4, <1>5, <2>8 DEF Sound, Enabling
    <3>2. \A g \in FilesOf(host) \ (x.todo \ {f}) : files'[g] = Rendered(g, x.op = "archive")
      BY <1>6, <2>2, <3>1 DEF Has
    <3>3. Enabling(n)'
      BY <1>1, <2>4, <2>6, <3>1, <3>2 DEF Enabling, Has
    <3>. QED BY <2>6, <3>3 DEF Sound, Retreating, Settled
  <2>. QED BY <1>1, <1>2, <1>4, <2>3, <2>5, <2>6, <2>7, <2>8, OwnAlone
<1>. QED BY <1>7, <1>8

LEMMA RegisterAlone ==
    ASSUME Inv, AloneInv, NEW c \in Cmd, Register(c) PROVE AloneInv'
<1>1. /\ UNCHANGED <<host, bus, files, state>> /\ cmd[c].pc = "register"
      /\ job' = files[JobFile(host)]
  BY DEF Register, At
<1>2. PICK x : x = cmd[c]
  OBVIOUS
<1>3. /\ x \in Command /\ Shape(x) /\ Removing(x) /\ Busy(c)
      /\ x.solo => Sound(x)
      /\ host \in Backend
  BY <1>1, <1>2, InvFacts DEF AloneInv, Busy
<1>4. WantedIn(x) /\ x.res = "none" /\ OthersGone
  BY <1>1, <1>2, <1>3 DEF Shape, Removing, Command, WantedIn
<1>5. PICK n : n = [x EXCEPT !.pc = "store"]
  OBVIOUS
<1>6. n.pc = "store" /\ n.op = x.op /\ n.res = "none" /\ n.solo = x.solo
  BY <1>3, <1>4, <1>5 DEF Command
<1>7. cmd' = [cmd EXCEPT ![c] = n]
  BY <1>2, <1>5, InvFacts DEF Register, Goto
<1>8. Shape(n) /\ OthersGone' /\ Removing(n)'
  BY <1>1, <1>4, <1>6 DEF Shape, WantedIn, Removing, OthersGone, Cleared
<1>9. ASSUME x.solo PROVE Sound(n)'
  <2>1. bus /\ Owned(host) /\ Has(x, FilesOf(host))
    BY <1>1, <1>2, <1>3, <1>4, <1>9 DEF Sound, Enabling
  <2>2. JobFile(host) \in FilesOf(host) /\ JobFile(host) # "timer"
    BY <1>3, FileFacts DEF JobFile
  <2>3. job' = x.op
    BY <1>1, <1>4, <2>1, <2>2 DEF Has, Rendered, Flag, WantedIn
  <2>4. Enabling(n)'
    BY <1>1, <1>6, <2>1, <2>3 DEF Enabling, Has, Owned
  <2>. QED BY <1>6, <2>4 DEF Sound, Retreating, Settled
<1>. QED BY <1>1, <1>2, <1>3, <1>6, <1>7, <1>8, <1>9, OwnAlone

\* The steps that give up.
LEMMA FailAlone ==
    ASSUME Inv, AloneInv, NEW c \in Cmd, RegisterFails(c) \/ WriteFails(c) PROVE AloneInv'
<1>1. /\ UNCHANGED <<host, bus, files, state>>
      /\ cmd[c].pc \in {"write", "register", "store"}
  BY DEF RegisterFails, WriteFails, At, sysVars
<1>2. PICK x : x = cmd[c]
  OBVIOUS
<1>3. /\ x \in Command /\ Shape(x) /\ Removing(x) /\ Busy(c)
      /\ x.solo => Sound(x)
      /\ host \in Backend
  BY <1>1, <1>2, InvFacts DEF AloneInv, Busy
<1>4. OthersGone /\ OthersGone'
  BY <1>1, <1>2, <1>3 DEF Removing, OthersGone, Cleared
<1>5. CASE WantedIn(x)
  <2>1. x.res = "none"
    BY <1>1, <1>2, <1>3, <1>5 DEF Shape
  <2>2. PICK n : n = [x EXCEPT !.pc = "undo"]
    OBVIOUS
  <2>3. n.pc = "undo" /\ n.op = x.op /\ n.res = "none" /\ n.solo = x.solo
    BY <1>3, <2>1, <2>2 DEF Command
  <2>4. cmd' = [cmd EXCEPT ![c] = n]
    BY <1>2, <1>5, <2>2, InvFacts DEF RegisterFails, WriteFails, Goto, Wanted, WantedIn
  <2>5. Shape(n) /\ Removing(n)'
    BY <1>4, <1>5, <2>3 DEF Shape, WantedIn, Removing
  <2>6. ASSUME x.solo PROVE Sound(n)'
    BY <1>1, <1>2, <1>3, <1>5, <2>3, <2>6
       DEF Sound, Enabling, Retreating, Settled, WantedIn, Owned
  <2>. QED BY <1>1, <1>2, <1>3, <1>4, <2>3, <2>4, <2>5, <2>6, OwnAlone
<1>6. CASE ~WantedIn(x)
  <2>1. x.op = "manual" /\ x.res = "none" /\ x.pc = "store"
    BY <1>1, <1>2, <1>3, <1>6 DEF Shape, Command, WantedIn
  <2>2. End(c, "refused")
    BY <1>2, <2>1 DEF RegisterFails, WriteFails, At, Wanted
  <2>3. PICK n : n = [x EXCEPT !.pc = "ended", !.todo = {},
                               !.res = IF x.res = "failed" THEN "failed" ELSE "refused"]
    OBVIOUS
  <2>4. n.op = "manual"
    BY <1>3, <2>1, <2>3 DEF Command
  <2>5. Settled(n)'
    BY <2>4 DEF Settled, WantedIn
  <2>. QED BY <1>1, <1>2, <1>3, <1>4, <2>2, <2>3, <2>5, EndAlone
<1>. QED BY <1>5, <1>6
LEMMA StoreAlone ==
    ASSUME Inv, AloneInv, NEW c \in Cmd, Store(c) PROVE AloneInv'
<1>1. UNCHANGED <<host, bus, job, files>> /\ cmd[c].pc = "store"
  BY DEF Store, At, sysVars
<1>2. PICK x : x = cmd[c]
  OBVIOUS
<1>3. /\ x \in Command /\ Shape(x) /\ Removing(x) /\ Busy(c)
      /\ x.solo => Sound(x)
      /\ host \in Backend /\ x.loaded \in States
  BY <1>1, <1>2, InvFacts DEF AloneInv, Busy
<1>4. /\ OthersGone /\ OthersGone' /\ x.res = "none"
      /\ WantedIn(x) \/ x.op = "manual"
  BY <1>1, <1>2, <1>3 DEF Removing, OthersGone, Cleared, Shape, Command, WantedIn
<1>5. /\ state'.backend = IF WantedIn(x) THEN host ELSE "manual"
      /\ WantedIn(x) => state'.archive = (x.op = "archive")
  <2>1. state' = IF WantedIn(x)
                 THEN [x.loaded EXCEPT !.backend = host, !.archive = x.op = "archive"]
                 ELSE [x.loaded EXCEPT !.backend = "manual", !.archive = FALSE]
    BY <1>2 DEF Store, Kept, Wanted, WantedIn
  <2>. QED BY <1>3, <2>1 DEF States
<1>6. PICK n : n = [x EXCEPT !.pc = "enroll"]
  OBVIOUS
<1>7. n.pc = "enroll" /\ n.op = x.op /\ n.res = "none" /\ n.solo = x.solo
  BY <1>3, <1>4, <1>6 DEF Command
<1>8. cmd' = [cmd EXCEPT ![c] = n]
  BY <1>2, <1>6, InvFacts DEF Store, Goto
<1>9. Shape(n) /\ Removing(n)'
  BY <1>4, <1>7 DEF Shape, WantedIn, Removing
<1>10. Stored(n)'
  BY <1>1, <1>5, <1>7 DEF Stored, WantedIn
<1>11. ASSUME x.solo PROVE Sound(n)'
  <2>1. Enabling(n)'
    BY <1>1, <1>2, <1>3, <1>7, <1>11 DEF Sound, Enabling, WantedIn, Owned, Has
  <2>. QED BY <1>7, <1>10, <2>1 DEF Sound, Retreating, Settled
<1>. QED BY <1>1, <1>2, <1>3, <1>4, <1>7, <1>8, <1>9, <1>11, OwnAlone

LEMMA UndoAlone ==
    ASSUME Inv, AloneInv, NEW c \in Cmd, Undo(c) PROVE AloneInv'
<1>1. /\ UNCHANGED <<host, bus, files, state>> /\ cmd[c].pc = "undo"
      /\ job' = Unregistered(host)
  BY DEF Undo, At
<1>2. PICK x : x = cmd[c]
  OBVIOUS
<1>3. /\ x \in Command /\ Shape(x) /\ Removing(x) /\ Busy(c)
      /\ x.solo => Sound(x)
      /\ host \in Backend
  BY <1>1, <1>2, InvFacts DEF AloneInv, Busy
<1>4. OthersGone /\ OthersGone' /\ WantedIn(x)
  BY <1>1, <1>2, <1>3 DEF Removing, OthersGone, Cleared, Shape, Command, WantedIn
<1>5. PICK n : n = [x EXCEPT !.pc = "undofiles", !.todo = FilesOf(host), !.res = "failed"]
  OBVIOUS
<1>6. /\ n.pc = "undofiles" /\ n.op = x.op /\ n.res = "failed" /\ n.solo = x.solo
      /\ n.todo = FilesOf(host)
  BY <1>3, <1>5 DEF Command
<1>7. cmd' = [cmd EXCEPT ![c] = n]
  BY <1>2, <1>5, InvFacts DEF Undo
<1>8. Shape(n) /\ Removing(n)'
  BY <1>3, <1>4, <1>6, FileFacts DEF Shape, WantedIn, Removing
<1>9. ASSUME x.solo PROVE Sound(n)'
  <2>1. bus /\ Owned(host)
    BY <1>1, <1>2, <1>3, <1>4, <1>9 DEF Sound, Enabling
  <2>2. job' = "off" /\ FilesOf(host)' \ n.todo = {} /\ Owned(host)' /\ bus'
    BY <1>1, <1>6, <2>1 DEF Unregistered, Owned
  <2>3. Enabling(n)'
    BY <1>1, <1>6, <2>2 DEF Enabling, Cleared
  <2>4. ~(n.op = "off")
    BY <1>4, <1>6 DEF WantedIn
  <2>. QED BY <1>6, <2>3, <2>4 DEF Sound, Retreating, Settled
<1>. QED BY <1>1, <1>2, <1>3, <1>4, <1>6, <1>7, <1>8, <1>9, OwnAlone

LEMMA UndoFileAlone ==
    ASSUME Inv, AloneInv, NEW c \in Cmd, UndoFile(c) PROVE AloneInv'
<1>1. UNCHANGED <<host, bus, job, state>> /\ cmd[c].pc = "undofiles"
  BY DEF UndoFile, At
<1>2. PICK x : x = cmd[c]
  OBVIOUS
<1>3. PICK f : f = NextFile(c)
  OBVIOUS
<1>4. /\ x \in Command /\ Shape(x) /\ Removing(x) /\ Busy(c)
      /\ x.solo => Sound(x)
      /\ host \in Backend
  BY <1>1, <1>2, InvFacts DEF AloneInv, Busy
<1>5. /\ f \in x.todo /\ f \in FilesOf(host) /\ x.todo \subseteq FilesOf(host)
      /\ WantedIn(x) /\ x.res = "failed" /\ OthersGone
      /\ FilesOf(host) \subseteq File
  <2>1. x.todo # {} /\ x.todo \subseteq FilesOf(host)
    BY <1>1, <1>2, <1>4 DEF Shape
  <2>2. f \in x.todo /\ FilesOf(host) \subseteq File
    BY <1>2, <1>3, <1>4, <2>1, FileFacts, NextFileFacts
  <2>3. WantedIn(x) /\ x.res = "failed" /\ OthersGone
    BY <1>1, <1>2, <1>4 DEF Shape, Removing, Command, WantedIn
  <2>. QED BY <2>1, <2>2, <2>3
<1>6. x.solo => bus /\ Owned(host) /\ job = "off" /\ Cleared(FilesOf(host) \ x.todo)
  BY <1>1, <1>2, <1>4, <1>5 DEF Sound, Enabling
<1>7. PICK n : n = [x EXCEPT !.pc = "ended", !.todo = {},
                             !.res = IF x.res = "failed" THEN "failed" ELSE "failed"]
  OBVIOUS
<1>8. n.op = x.op /\ n.res = "failed"
  BY <1>4, <1>7 DEF Command
<1>9. CASE files[f] = "foreign"
  <2>1. End(c, "failed") /\ UNCHANGED files
    BY <1>3, <1>9 DEF UndoFile
  <2>2. ~x.solo
    BY <1>5, <1>6, <1>9 DEF Owned
  <2>3. OthersGone'
    BY <1>1, <1>5, <2>1 DEF OthersGone, Cleared
  <2>. QED BY <1>1, <1>2, <1>4, <1>7, <2>1, <2>2, <2>3, EndAlone
<1>10. CASE files[f] # "foreign"
  <2>1. files' = [files EXCEPT ![f] = "none"] /\ Advance(c, "ended")
    BY <1>3, <1>10 DEF UndoFile
  <2>2. \A g \in File : files'[g] = IF g = f THEN "none" ELSE files[g]
    BY <1>5, <2>1, InvFacts
  <2>3. OthersGone' /\ (Owned(host) => Owned(host)')
    BY <1>1, <1>5, <2>2 DEF OthersGone, Cleared, Owned
  <2>4. CASE x.todo \ {f} = {}
    <3>1. End(c, "failed")
      BY <1>2, <1>3, <2>1, <2>4 DEF Advance
    <3>2. ASSUME x.solo PROVE Settled(n)'
      <4>1. Cleared(FilesOf(host))'
        BY <1>1, <1>5, <1>6, <2>2, <2>4, <3>2 DEF Cleared
      <4>2. Cleared(File)'
        BY <2>3, <4>1 DEF OthersGone, Cleared
      <4>3. Inv'
        BY FileSteps
      <4>4. ~(state.backend \in Backend /\ FilesValid(state))'
        BY <4>2, <4>3, FileFacts, InvFacts DEF Cleared, FilesValid, Rendered, Flag, Inv, TypeOK
      <4>. QED BY <1>1, <1>5, <1>6, <1>8, <3>2, <4>4 DEF Settled, WantedIn
    <3>. QED BY <1>1, <1>2, <1>4, <1>7, <2>2, <2>3, <3>1, <3>2, EndAlone
  <2>5. CASE x.todo \ {f} # {}
    <3>1. PICK m : m = [x EXCEPT !.todo = x.todo \ {f}]
      OBVIOUS
    <3>2. /\ m.pc = "undofiles" /\ m.op = x.op /\ m.res = "failed" /\ m.solo = x.solo
          /\ m.todo = x.todo \ {f}
      BY <1>1, <1>2, <1>4, <1>5, <3>1 DEF Command
    <3>3. cmd' = [cmd EXCEPT ![c] = m]
      <4>1. cmd' = [cmd EXCEPT ![c].todo = x.todo \ {f}]
        BY <1>2, <1>3, <2>1, <2>5 DEF Advance
      <4>. QED BY <1>2, <3>1, <4>1, InvFacts
    <3>4. Shape(m) /\ Removing(m)'
      BY <1>5, <2>3, <2>5, <3>2 DEF Shape, WantedIn, Removing
    <3>5. ASSUME x.solo PROVE Sound(m)'
      <4>1. \A g \in FilesOf(host) \ m.todo : files'[g] = "none"
        BY <1>5, <1>6, <2>2, <3>2, <3>5 DEF Cleared
      <4>2. Enabling(m)'
        BY <1>1, <1>6, <2>3, <3>2, <3>5, <4>1 DEF Enabling, Cleared
      <4>. QED BY <1>5, <3>2, <4>2 DEF Sound, Retreating, Settled, WantedIn
    <3>. QED BY <1>1, <1>2, <1>4, <2>2, <2>3, <3>2, <3>3, <3>4, <3>5, OwnAlone
  <2>. QED BY <2>4, <2>5
<1>. QED BY <1>9, <1>10

LEMMA EnrollAlone ==
    ASSUME Inv, AloneInv, NEW c \in Cmd, Enroll(c) PROVE AloneInv'
<1>1. UNCHANGED <<host, bus, job, files, state>> /\ cmd[c].pc = "enroll"
  BY DEF Enroll, At, sysVars
<1>2. PICK x : x = cmd[c]
  OBVIOUS
<1>3. /\ x \in Command /\ Shape(x) /\ Removing(x) /\ Busy(c)
      /\ x.solo => Sound(x)
      /\ host \in Backend
  BY <1>1, <1>2, InvFacts DEF AloneInv, Busy
<1>4. /\ OthersGone /\ OthersGone' /\ x.res = "none"
      /\ WantedIn(x) \/ x.op = "manual"
  BY <1>1, <1>2, <1>3 DEF Removing, OthersGone, Cleared, Shape, Command, WantedIn
<1>5. CASE End(c, "ok")
  <2>1. PICK n : n = [x EXCEPT !.pc = "ended", !.todo = {},
                               !.res = IF x.res = "failed" THEN "failed" ELSE "ok"]
    OBVIOUS
  <2>2. n.op = x.op /\ n.res = "ok"
    BY <1>3, <1>4, <2>1 DEF Command
  <2>3. ASSUME x.solo PROVE Settled(n)'
    <3>1. WantedIn(x) => bus /\ Has(x, FilesOf(host)) /\ job = x.op /\ Stored(x)
      BY <1>1, <1>2, <1>3, <2>3 DEF Sound, Enabling
    <3>. QED BY <1>1, <2>2, <3>1 DEF Settled, WantedIn, Has, Stored
  <2>. QED BY <1>1, <1>2, <1>3, <1>4, <1>5, <2>1, <2>3, EndAlone
<1>6. CASE cmd' = [cmd EXCEPT ![c].pc = "load", ![c].op = "off", ![c].res = "failed"]
  <2>1. PICK n : n = [x EXCEPT !.pc = "load", !.op = "off", !.res = "failed"]
    OBVIOUS
  <2>2. n.pc = "load" /\ n.op = "off" /\ n.res = "failed" /\ n.solo = x.solo
    BY <1>3, <2>1 DEF Command
  <2>3. cmd' = [cmd EXCEPT ![c] = n]
    BY <1>2, <1>6, <2>1, InvFacts
  <2>4. Shape(n) /\ Removing(n)'
    BY <2>2 DEF Shape, WantedIn, Removing
  <2>5. ASSUME x.solo PROVE Sound(n)'
    <3>1. state.backend = "manual" \/ (state.backend = host /\ bus /\ Owned(host))
      BY <1>1, <1>2, <1>3, <1>4, <2>5 DEF Sound, Enabling, Stored
    <3>2. Retreating(n)'
      BY <1>1, <2>2, <3>1 DEF Retreating, Owned
    <3>. QED BY <2>2, <3>2 DEF Sound, Enabling, Settled, WantedIn
  <2>. QED BY <1>1, <1>2, <1>3, <1>4, <2>2, <2>3, <2>4, <2>5, OwnAlone
<1>. QED BY <1>5, <1>6 DEF Enroll

LEMMA ClearAlone ==
    ASSUME Inv, AloneInv, NEW c \in Cmd, ClearState(c) PROVE AloneInv'
<1>1. /\ UNCHANGED <<host, bus, job, files>> /\ cmd[c].pc = "clear" /\ state' = NoState
      /\ End(c, "ok")
  BY DEF ClearState, At, sysVars
<1>2. PICK x : x = cmd[c]
  OBVIOUS
<1>3. /\ x \in Command /\ Shape(x) /\ Removing(x) /\ Busy(c)
      /\ x.solo => Sound(x)
      /\ host \in Backend
  BY <1>1, <1>2, InvFacts DEF AloneInv, Busy
<1>4. OthersGone /\ OthersGone' /\ x.op = "off"
  BY <1>1, <1>2, <1>3 DEF Removing, OthersGone, Cleared, Shape, Command, WantedIn
<1>5. PICK n : n = [x EXCEPT !.pc = "ended", !.todo = {},
                             !.res = IF x.res = "failed" THEN "failed" ELSE "ok"]
  OBVIOUS
<1>6. /\ n.op = "off" /\ n.loaded = x.loaded
      /\ n.res = IF x.res = "failed" THEN "failed" ELSE "ok"
  BY <1>3, <1>4, <1>5 DEF Command
<1>7. ASSUME x.solo PROVE Settled(n)'
  <2>1. SUFFICES ASSUME x.res = "failed", x.loaded.backend = host
                 PROVE  job' = "off" /\ state'.backend = "none" /\ Cleared(File)'
    BY <1>1, <1>6 DEF Settled, WantedIn
  <2>2. job = "off" /\ Cleared(FilesOf(host))
    BY <1>1, <1>2, <1>3, <1>4, <1>7, <2>1 DEF Sound, Retreating
  <2>. QED BY <1>1, <1>4, <2>2 DEF OthersGone, Cleared, NoState
<1>. QED BY <1>1, <1>2, <1>3, <1>4, <1>5, <1>7, EndAlone
\* A step outside a command leaves its shape, and takes its history.
LEMMA NotSoloKept ==
    ASSUME Inv, AloneInv, NEW d \in Cmd, cmd'[d] = NotSolo(d), host' = host,
           \A f \in File \ FilesOf(host) : files[f] = "none" => files'[f] = "none"
    PROVE  Shape(cmd[d])' /\ Removing(cmd[d])' /\ ~cmd'[d].solo
<1>1. CASE Busy(d)
  <2>1. PICK x : x = cmd[d]
    OBVIOUS
  <2>2. PICK n : n = [x EXCEPT !.solo = FALSE]
    OBVIOUS
  <2>3. x \in Command /\ Shape(x) /\ Removing(x) /\ host \in Backend
    BY <2>1, InvFacts DEF AloneInv
  <2>4. /\ n.pc = x.pc /\ n.op = x.op /\ n.res = x.res /\ n.loaded = x.loaded
        /\ n.todo = x.todo /\ ~n.solo
    BY <2>2, <2>3 DEF Command
  <2>5. Shape(n) /\ Removing(n)
    BY <2>3, <2>4 DEF Shape, Removing, WantedIn
  <2>6. Shape(n)' /\ Removing(n)'
    BY <2>3, <2>5, KeepsShape, KeepsRemoving
  <2>7. cmd'[d] = n
    BY <1>1, <2>1, <2>2 DEF NotSolo
  <2>. QED BY <2>4, <2>6, <2>7
<1>2. CASE ~Busy(d)
  <2>1. PICK n : n = Idle
    OBVIOUS
  <2>2. Shape(n)' /\ Removing(n)' /\ ~n.solo
    BY <2>1 DEF Idle, Shape, Removing, WantedIn
  <2>3. cmd'[d] = n
    BY <1>2, <2>1 DEF NotSolo
  <2>. QED BY <2>2, <2>3
<1>. QED BY <1>1, <1>2

\* A command begins: what others ended is forgotten, and who is at work is no
\* longer alone.
LEMMA BeginAlone ==
    ASSUME Inv, AloneInv, NEW c \in Cmd, Begin(c) PROVE AloneInv'
<1>1. UNCHANGED <<host, bus, job, files, state>>
  BY DEF Begin, sysVars
<1>2. PICK o \in {"plain", "archive", "manual", "off"} :
          cmd' = [d \in Cmd |->
                    IF d # c THEN NotSolo(d)
                    ELSE [Idle EXCEPT !.pc = IF o = "off" THEN "preflight" ELSE "load",
                                      !.op = o, !.solo = Alone(c)]]
  BY DEF Begin
<1>3. PICK n : n = [Idle EXCEPT !.pc = IF o = "off" THEN "preflight" ELSE "load",
                                !.op = o, !.solo = Alone(c)]
  OBVIOUS
<1>4. /\ n.pc \in {"preflight", "load"} /\ n.op = o /\ n.solo = Alone(c) /\ n.res = "none"
      /\ n.pc = "preflight" <=> o = "off"
  BY <1>3 DEF Idle
<1>5. \A d \in Cmd : cmd'[d] = IF d # c THEN NotSolo(d) ELSE n
  BY <1>2, <1>3
<1>6. Shape(n)' /\ Removing(n)' /\ Sound(n)'
  BY <1>4 DEF Shape, Removing, WantedIn, Sound, Enabling, Retreating, Settled
<1>7. Alone(c) => Alone(c)'
  <2>1. SUFFICES ASSUME Alone(c), NEW e \in Cmd \ {c} PROVE ~Busy(e)'
    BY DEF Alone
  <2>2. cmd'[e] = Idle
    BY <1>5, <2>1 DEF Alone, NotSolo
  <2>. QED BY <2>2 DEF Busy, Idle
<1>8. (state.backend \in Backend \ {host} \/ OthersGone)'
  BY <1>1 DEF AloneInv, OthersGone, Cleared
<1>9. \A d \in Cmd \ {c} : /\ Shape(cmd[d])' /\ Removing(cmd[d])'
                           /\ ~cmd'[d].solo
  BY <1>1, <1>5, NotSoloKept
<1>10. Shape(cmd[c])' /\ Removing(cmd[c])' /\ (cmd'[c].solo => Alone(c)' /\ Sound(cmd[c])')
  <2>1. cmd'[c] = n
    BY <1>5
  <2>. QED BY <1>4, <1>6, <1>7, <2>1
<1>. QED BY <1>8, <1>9, <1>10 DEF AloneInv

LEMMA KillAlone ==
    ASSUME Inv, AloneInv, NEW c \in Cmd, Kill(c) PROVE AloneInv'
<1>1. UNCHANGED <<host, bus, job, files, state>> /\ Busy(c)
      /\ cmd' = [cmd EXCEPT ![c] = Idle]
  BY DEF Kill, sysVars
<1>2. PICK n : n = Idle
  OBVIOUS
<1>3. Shape(n) /\ Removing(n)' /\ ~n.solo
  BY <1>2 DEF Idle, Shape, Removing, WantedIn
<1>4. (state.backend \in Backend \ {host} \/ OthersGone)'
  BY <1>1 DEF AloneInv, OthersGone, Cleared
<1>. QED BY <1>1, <1>2, <1>3, <1>4, OwnAlone

\* The manager goes away, or the user replaces a file: nobody is alone any more.
LEMMA DisturbedAlone ==
    ASSUME Inv, AloneInv, Outage \/ \E f \in File : UserReplaces(f) PROVE AloneInv'
<1>1. UNCHANGED <<host, job, state>> /\ Disturbed
  BY DEF Outage, UserReplaces
<1>2. \A g \in File \ FilesOf(host) : files'[g] = files[g]
  BY InvFacts DEF Outage, UserReplaces
<1>3. \A d \in Cmd : cmd'[d] = NotSolo(d)
  BY <1>1 DEF Disturbed
<1>4. \A d \in Cmd : Shape(cmd[d])' /\ Removing(cmd[d])' /\ ~cmd'[d].solo
  BY <1>1, <1>2, <1>3, NotSoloKept
<1>5. (state.backend \in Backend \ {host} \/ OthersGone)'
  BY <1>1, <1>2 DEF AloneInv, OthersGone, Cleared
<1>. QED BY <1>4, <1>5 DEF AloneInv

\* Scans, the clock and the manager's return change nothing a command relies on.
LEMMA ElseAlone ==
    ASSUME Inv, AloneInv, UNCHANGED <<host, job, files, cmd>>, bus => bus',
           state'.backend = state.backend, state'.archive = state.archive
    PROVE  AloneInv'
<1>1. ASSUME NEW d \in Cmd
      PROVE  (/\ Shape(cmd[d]) /\ Removing(cmd[d])
              /\ cmd[d].solo => Alone(d) /\ Sound(cmd[d]))'
  <2>1. PICK x : x = cmd[d] /\ x = cmd'[d]
    OBVIOUS
  <2>2. Shape(x) /\ Removing(x) /\ (x.solo => Alone(d) /\ Sound(x)) /\ host \in Backend
    BY <2>1, InvFacts DEF AloneInv
  <2>3. Shape(x)' /\ Removing(x)'
    BY <2>2, KeepsShape, KeepsRemoving
  <2>4. Alone(d) => Alone(d)'
    BY DEF Alone, Busy
  <2>5. Enabling(x) => Enabling(x)'
    BY DEF Enabling, Has, Cleared, Owned
  <2>6. Retreating(x) => Retreating(x)'
    BY DEF Retreating, Cleared, Owned
  <2>7. Settled(x) => Settled(x)'
    BY DEF Settled, Stored, Has, Cleared, FilesValid
  <2>8. Stored(x) => Stored(x)'
    BY DEF Stored
  <2>. QED BY <2>1, <2>2, <2>3, <2>4, <2>5, <2>6, <2>7, <2>8 DEF Sound
<1>2. (state.backend \in Backend \ {host} \/ OthersGone)'
  BY DEF AloneInv, OthersGone, Cleared
<1>. QED BY <1>1, <1>2 DEF AloneInv

LEMMA NextAlone == Inv /\ AloneInv /\ [Next]_vars => AloneInv'
<1> SUFFICES ASSUME Inv, AloneInv, [Next]_vars PROVE AloneInv'
  OBVIOUS
<1>1. CASE UNCHANGED vars \/ Tick \/ BusReturns
  BY <1>1, ElseAlone DEF vars, sysVars, Tick, BusReturns
<1>2. ASSUME NEW c \in Cmd, CmdStep(c) PROVE AloneInv'
  BY <1>2, PreflightAlone, LoadAlone, UnregisterAlone, RemoveAlone, WriteAlone, RegisterAlone,
     FailAlone, StoreAlone, UndoAlone, UndoFileAlone, EnrollAlone, ClearAlone DEF CmdStep
<1>3. ASSUME NEW r \in Run, StartScan(r) \/ ScanEnds(r) \/ RecordHealth(r) \/ KillScan(r)
      PROVE  AloneInv'
  <2>1. UNCHANGED <<host, bus, job, files, cmd, state>>
    BY <1>3 DEF StartScan, ScanEnds, RecordHealth, KillScan, sysVars
  <2>. QED BY <2>1, ElseAlone
<1>4. ASSUME NEW r \in Run, RecordRun(r) PROVE AloneInv'
  <2>1. UNCHANGED <<host, bus, job, files, cmd>>
    BY <1>4 DEF RecordRun, sysVars
  <2>2. state'.backend = state.backend /\ state'.archive = state.archive
    BY <1>4, InvFacts DEF RecordRun, States
  <2>. QED BY <2>1, <2>2, ElseAlone
<1>5. ASSUME NEW c \in Cmd, Begin(c) \/ Kill(c) PROVE AloneInv'
  BY <1>5, BeginAlone, KillAlone
<1>6. CASE Outage \/ \E f \in File : UserReplaces(f)
  BY <1>6, DisturbedAlone
<1>. QED BY <1>1, <1>2, <1>3, <1>4, <1>5, <1>6 DEF Next

\* Whatever earlier commands left behind: an enable that ran alone and
\* succeeded leaves an active schedule with the archive consent it was given;
\* one that failed after it began to write leaves no job, and nothing that
\* status takes for one.
THEOREM EnableIsDecisive == Spec => []EnableDecides
<1>1. ASSUME Inv, AloneInv PROVE EnableDecides
  <2>1. SUFFICES ASSUME NEW c \in Cmd, At(c, "ended"), cmd[c].solo
                 PROVE  /\ Wanted(c) /\ cmd[c].res = "ok" => Inspect = "active" /\ job = cmd[c].op
                        /\ Wanted(c) /\ cmd[c].res = "failed" =>
                               job = "off" /\ Inspect \in {"absent", "manual", "invalid"}
                        /\ cmd[c].op = "off" /\ cmd[c].res = "failed"
                           /\ cmd[c].loaded.backend = host => job = "off" /\ Inspect = "absent"
    BY DEF EnableDecides
  <2>2. PICK x : x = cmd[c]
    OBVIOUS
  <2>3. /\ Settled(x) /\ x.pc = "ended" /\ (Wanted(c) <=> WantedIn(x))
        /\ host \in Backend /\ state.backend \in Backend \cup {"manual", "none"}
        /\ "manual" \notin Backend /\ "none" \notin Backend
    BY <1>1, <2>1, <2>2, InvFacts DEF AloneInv, Sound, At, Wanted, WantedIn, States, Backend
  <2>4. CASE WantedIn(x) /\ x.res = "ok"
    <3>1. /\ bus /\ Has(x, FilesOf(host)) /\ job = x.op
          /\ state.backend = host /\ state.archive = (x.op = "archive")
      BY <2>3, <2>4 DEF Settled, Stored
    <3>2. FilesValid(state) /\ job # "off"
      BY <2>4, <3>1 DEF FilesValid, Has, WantedIn
    <3>3. Inspect = "active"
      BY <2>3, <3>1, <3>2 DEF Inspect
    <3>. QED BY <2>2, <2>4, <3>1, <3>3 DEF WantedIn
  <2>5. CASE WantedIn(x) /\ x.res = "failed"
    <3>1. job = "off" /\ ~(state.backend \in Backend /\ FilesValid(state))
      BY <2>3, <2>5 DEF Settled
    <3>2. Inspect \in {"absent", "manual", "invalid"}
      BY <2>3, <3>1 DEF Inspect
    <3>. QED BY <2>2, <2>5, <3>1, <3>2 DEF WantedIn
  <2>6. CASE x.op = "off" /\ x.res = "failed" /\ x.loaded.backend = host
    <3>1. job = "off" /\ state.backend = "none" /\ Cleared(File)
      BY <2>3, <2>6 DEF Settled
    <3>2. Inspect = "absent"
      BY <3>1 DEF Inspect, Cleared, Backend
    <3>. QED BY <2>2, <2>3, <2>6, <3>1, <3>2 DEF WantedIn
  <2>. QED BY <2>2, <2>3, <2>4, <2>5, <2>6
<1>. QED BY <1>1, InitAlone, NextAlone, InvAlways, PTL DEF Spec
----------------------------------------------------------------------------
(* The receipt.                                                            *)

\* How many locations were seen more recently than l.
Rank(at, l) == Cardinality({k \in Location : Newer(at, k, l)})

LEMMA NewerFacts ==
    ASSUME NEW at \in [Location -> Nat]
    PROVE  /\ \A k, l \in Location : k = l \/ Newer(at, k, l) \/ Newer(at, l, k)
           /\ \A k \in Location : ~Newer(at, k, k)
           /\ \A j, k, l \in Location : Newer(at, j, k) /\ Newer(at, k, l) => Newer(at, j, l)
           /\ \A k, l \in Location : Newer(at, k, l) => at[k] >= at[l]
<1>. \A l \in Location : at[l] \in Int /\ l \in Int
  BY LocationAssumption
<1>. QED BY DEF Newer

\* Who was seen more recently has the smaller rank.
LEMMA RankFacts ==
    ASSUME NEW at \in [Location -> Nat]
    PROVE  /\ \A l \in Location : Rank(at, l) \in Nat
           /\ \A k, l \in Location : Newer(at, k, l) => Rank(at, k) < Rank(at, l)
<1>. DEFINE Above(l) == {k \in Location : Newer(at, k, l)}
<1>1. \A l \in Location : IsFiniteSet(Above(l)) /\ Cardinality(Above(l)) \in Nat
  BY LocationAssumption, FS_Subset, FS_CardinalityType
<1>2. ASSUME NEW k \in Location, NEW l \in Location, Newer(at, k, l)
      PROVE  Cardinality(Above(k)) < Cardinality(Above(l))
  <2>1. Above(k) \in SUBSET Above(l) /\ k \in Above(l) /\ k \notin Above(k)
    BY <1>2, NewerFacts
  <2>. HIDE DEF Above
  <2>2. /\ Cardinality(Above(k)) <= Cardinality(Above(l))
        /\ Cardinality(Above(l)) = Cardinality(Above(k)) => Above(l) = Above(k)
    BY <1>1, <2>1, FS_Subset
  <2>. QED BY <1>1, <2>1, <2>2
<1>. QED BY <1>1, <1>2 DEF Rank

\* Whom the receipt drops, it drops for as many as it holds.
LEMMA TrimKeepsMany ==
    ASSUME NEW at \in [Location -> Nat], NEW l \in Location, Rank(at, l) >= MaxLocations
    PROVE  Cardinality({k \in Location : Rank(at, k) < MaxLocations}) >= MaxLocations
<1>. DEFINE T == {k \in Location : Rank(at, k) < MaxLocations}
            U == {k \in Location : ~(Rank(at, k) < MaxLocations)}
            D == {Rank(at, k) : k \in U}
            R == OpToRel(<, Nat)
<1>1. MaxLocations \in Nat /\ \A k \in Location : Rank(at, k) \in Nat
  BY LocationAssumption, RankFacts
<1>2. D \subseteq Nat /\ D # {}
  BY <1>1
<1>3. \E x \in D : \A y \in D : ~(<<y, x>> \in R)
  <2>1. IsWellFoundedOn(R, Nat)
    BY NatLessThanWellFounded
  <2>. HIDE DEF R, D
  <2>. QED BY <1>2, <2>1, WFMin
<1>4. PICK x \in D : \A y \in D : ~(y < x)
  BY <1>2, <1>3 DEF OpToRel
<1>5. PICK m \in U : x = Rank(at, m)
  OBVIOUS
<1>6. {k \in Location : Newer(at, k, m)} \in SUBSET T
  <2>1. SUFFICES ASSUME NEW k \in Location, Newer(at, k, m) PROVE k \in T
    OBVIOUS
  <2>2. Rank(at, k) < x
    BY <1>5, <2>1, RankFacts
  <2>3. k \notin U
    BY <1>4, <2>2
  <2>. QED BY <2>3
<1>7. IsFiniteSet(T) /\ Cardinality(T) \in Nat
  BY LocationAssumption, FS_Subset, FS_CardinalityType
<1>8. Rank(at, m) <= Cardinality(T)
  <2>. HIDE DEF T
  <2>. QED BY <1>6, <1>7, FS_Subset DEF Rank
<1>9. Rank(at, m) >= MaxLocations
  BY <1>1
<1>. HIDE DEF T
<1>10. Cardinality(T) >= MaxLocations
  BY <1>1, <1>7, <1>8, <1>9
<1>. QED BY <1>10 DEF T

\* What Trim makes of the times it is given, against what they were before.
LEMMA TrimFacts ==
    ASSUME NEW old \in [Location -> Nat], NEW at \in [Location -> Nat],
           \A l \in Location : at[l] >= old[l], NEW l \in Location
    PROVE  \/ Trim(at)[l] >= old[l]
           \/ /\ Trim(at)[l] = 0
              /\ Cardinality({k \in Location \ {l} :
                      Trim(at)[k] # 0 /\ Trim(at)[k] >= old[l]}) >= MaxLocations
<1>1. \A k \in Location : Trim(at)[k] = IF Rank(at, k) < MaxLocations THEN at[k] ELSE 0
  BY DEF Trim, Rank
<1>2. CASE Rank(at, l) < MaxLocations \/ old[l] = 0
  <2>1. Trim(at)[l] \in {at[l], 0}
    BY <1>1
  <2>. QED BY <1>1, <1>2, <2>1
<1>3. CASE ~(Rank(at, l) < MaxLocations) /\ old[l] # 0
  <2>. DEFINE T == {k \in Location : Rank(at, k) < MaxLocations}
              K == {k \in Location \ {l} : Trim(at)[k] # 0 /\ Trim(at)[k] >= old[l]}
  <2>1. MaxLocations \in Nat /\ \A k \in Location : Rank(at, k) \in Nat
    BY LocationAssumption, RankFacts
  <2>2. Rank(at, l) >= MaxLocations
    BY <1>3, <2>1
  <2>3. T \in SUBSET K
    <3>1. SUFFICES ASSUME NEW k \in Location, Rank(at, k) < MaxLocations PROVE k \in K
      OBVIOUS
    <3>2. k # l /\ Trim(at)[k] = at[k]
      BY <1>1, <1>3, <3>1
    <3>3. ~Newer(at, l, k)
      BY <2>1, <2>2, <3>1, RankFacts
    <3>4. at[k] >= at[l]
      BY <3>2, <3>3, NewerFacts
    <3>5. at[k] >= old[l] /\ at[k] # 0
      <4>1. at[k] \in Nat /\ at[l] \in Nat /\ old[l] \in Nat /\ at[l] >= old[l]
        OBVIOUS
      <4>. QED BY <1>3, <3>4, <4>1
    <3>. QED BY <3>2, <3>5
  <2>4. Cardinality(T) >= MaxLocations
    BY <2>2, TrimKeepsMany
  <2>5. IsFiniteSet(K) /\ Cardinality(K) \in Nat /\ Cardinality(T) \in Nat
    <3>1. IsFiniteSet(K) /\ IsFiniteSet(T)
      BY LocationAssumption, FS_Subset
    <3>. HIDE DEF K, T
    <3>. QED BY <3>1, FS_CardinalityType
  <2>6. Trim(at)[l] = 0
    BY <1>1, <1>3
  <2>. HIDE DEF K, T
  <2>7. Cardinality(K) >= MaxLocations
    BY <2>1, <2>3, <2>4, <2>5, FS_Subset
  <2>. QED BY <2>6, <2>7 DEF K
<1>. QED BY <1>2, <1>3

\* Overlapping scans never move a completion back, in whatever order they read
\* the clock and take the lock, and a location is dropped only for as many as a
\* receipt holds.
THEOREM CompletionsOnlyAdvance == Spec => HealthForward
<1>. DEFINE Forward ==
         /\ health'.capture >= health.capture /\ health'.full >= health.full
         /\ \A l \in Location :
               \/ health'.at[l] >= health.at[l]
               \/ /\ health'.at[l] = 0
                  /\ Cardinality({k \in Location \ {l} :
                          health'.at[k] # 0 /\ health'.at[k] >= health.at[l]})
                         >= MaxLocations
<1>1. ASSUME Inv, Next PROVE Forward
  <2>1. /\ health.capture \in Nat /\ health.full \in Nat
        /\ health.at \in [Location -> Nat]
    <3>1. 0..MaxTime \subseteq Nat
      BY TimeAssumption
    <3>2. health \in Receipt
      BY <1>1, InvFacts
    <3>. QED BY <3>1, <3>2 DEF Receipt
  <2>2. CASE UNCHANGED health
    BY <2>1, <2>2
  <2>3. ASSUME NEW r \in Run, RecordHealth(r) PROVE Forward
    <3>1. PICK t : t = run[r].stamp
      OBVIOUS
    <3>2. t \in Nat
      BY <1>1, <3>1, InvFacts, TimeAssumption DEF Scan
    <3>3. PICK w \in SUBSET Location :
          health' = [capture |-> IF w = {} THEN health.capture ELSE Later(health.capture, t),
                     full |-> Later(health.full, t),
                     at |-> Trim([l \in Location |-> IF l \in w THEN Later(health.at[l], t)
                                                     ELSE health.at[l]])]
      BY <2>3, <3>1 DEF RecordHealth
    <3>4. PICK old : old = health.at
      OBVIOUS
    <3>5. PICK at : at = [l \in Location |-> IF l \in w THEN Later(old[l], t) ELSE old[l]]
      OBVIOUS
    <3>6. \A a \in Nat : Later(a, t) \in Nat /\ Later(a, t) >= a
      BY <3>2 DEF Later
    <3>7. /\ old \in [Location -> Nat] /\ at \in [Location -> Nat]
          /\ \A l \in Location : at[l] >= old[l]
      BY <2>1, <3>4, <3>5, <3>6
    <3>8. health' = [capture |-> IF w = {} THEN health.capture ELSE Later(health.capture, t),
                     full |-> Later(health.full, t), at |-> Trim(at)]
      BY <3>3, <3>4, <3>5
    <3>9. health'.capture >= health.capture /\ health'.full >= health.full
      BY <2>1, <3>6, <3>8
    <3>10. health'.at = Trim(at)
      BY <3>8
    <3>. QED BY <3>4, <3>7, <3>9, <3>10, TrimFacts
  <2>4. UNCHANGED health \/ \E r \in Run : RecordHealth(r)
    BY <1>1 DEF Next, CmdStep, Begin, Kill, Preflight, Load, Unregister, RemoveFile, WriteFile,
                Register, RegisterFails, Store, WriteFails, Undo, UndoFile, Enroll, ClearState,
                StartScan, ScanEnds, RecordRun, KillScan, Tick, Outage, BusReturns, UserReplaces
  <2>. QED BY <2>2, <2>3, <2>4
<1>2. Inv /\ [Next]_vars => [Forward]_vars
  BY <1>1
<1>. QED BY <1>2, InvAlways, PTL DEF Spec, HealthForward
=============================================================================
