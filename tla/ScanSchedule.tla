---------------------------- MODULE ScanSchedule ----------------------------
(***************************************************************************)
(* The daily scan: "capture enable" and "capture disable" install and      *)
(* remove a job of the user's service manager and a private state file,    *)
(* the job's scans record their completion in the scan-health receipt and  *)
(* their result in the state file, and "status" reads all of it.  A        *)
(* command reads the state without a lock, works on the job's files and    *)
(* the manager step by step, and stores the state at the end under a lock  *)
(* that only covers that store.                                            *)
(***************************************************************************)
EXTENDS Integers, FiniteSets

CONSTANTS Cmd,          \* commands: capture enable, capture disable
          Run,          \* scans
          Location,     \* numbers standing for the watched directories
          MaxLocations, \* how many locations a receipt keeps
          MaxTime,      \* bound: the clock
          MaxCalls,     \* bound: commands begun
          MaxFaults     \* bound: commands and scans killed, commands or scans begun
                        \* while another runs, times the manager goes away, and files
                        \* the user replaces with their own

ASSUME LocationAssumption ==
    Location \subseteq Nat /\ IsFiniteSet(Location) /\ MaxLocations \in Nat
ASSUME TimeAssumption == MaxTime \in Nat \ {0}

VARIABLES host,    \* the backend this machine supports
          bus,     \* the service manager answers
          job,     \* what the manager runs each day
          files,   \* the unit files and the plist
          state,   \* schedule.json
          cmd,     \* each command: where it is, what it read and decided
          run,     \* each scan: where it is, whose, its time and outcome
          health,  \* scan_health.json
          now, calls, faults

sysVars == <<host, bus, job, files>>
bounds  == <<calls, faults>>
vars == <<sysVars, state, cmd, run, health, now, bounds>>

Backend == {"systemd", "launchd"}
FilesOf(b) == IF b = "systemd" THEN {"service", "timer"}
              ELSE IF b = "launchd" THEN {"plist"} ELSE {}
File == {"service", "timer", "plist"}
JobFile(b) == IF b = "systemd" THEN "service" ELSE "plist"

Flag(archive) == IF archive THEN "archive" ELSE "plain"
Rendered(f, archive) == IF f = "timer" THEN "timer" ELSE Flag(archive)

NoState == [backend |-> "none", archive |-> FALSE,
            att |-> 0, suc |-> 0, result |-> "never"]
States == [backend : Backend \cup {"manual", "none"}, archive : BOOLEAN,
           att : 0..MaxTime, suc : 0..MaxTime,
           result : {"never", "success", "failed"}]

(* What a state file must satisfy to be read or written; times are numbers
   and 0 is none.  An exit code is kept as success or failure. *)
Validated(s) ==
    /\ s.backend \in {"manual", "none"} => ~s.archive
    /\ CASE s.result = "never"   -> s.att = 0 /\ s.suc = 0
         [] s.result = "success" -> s.att # 0 /\ s.suc = s.att
         [] s.result = "failed"  -> s.att # 0
    /\ s.suc <= s.att

Owned(b) == \A f \in FilesOf(b) : files[f] # "foreign"
FilesValid(s) == \A f \in FilesOf(s.backend) : files[f] = Rendered(f, s.archive)

(* What status reports of the schedule: an exception of inspect is shown as
   invalid. *)
Inspect ==
    CASE state.backend = "none" ->
             IF \E f \in File : files[f] # "none" THEN "invalid" ELSE "absent"
      [] state.backend = "manual" -> "manual"
      [] state.backend \in Backend ->
             IF ~FilesValid(state) THEN "invalid"
             ELSE IF state.backend = host /\ bus /\ job # "off" THEN "active"
             ELSE "inactive"

(* op is what the command was asked for, res how it went; solo is history:
   no other command ran, and nothing outside changed, since it began. *)
Idle == [pc |-> "idle", op |-> "off", loaded |-> NoState, todo |-> {},
         res |-> "none", solo |-> FALSE]
Waiting == [pc |-> "idle", ours |-> FALSE, stamp |-> 0, good |-> FALSE]
Done == [Waiting EXCEPT !.pc = "ended"]

At(c, l) == cmd[c].pc = l
Busy(c) == cmd[c].pc \notin {"idle", "ended"}
Alone(c) == \A e \in Cmd \ {c} : ~Busy(e)
Goto(c, l) == cmd' = [cmd EXCEPT ![c].pc = l]
Outcome(c, r) == IF cmd[c].res = "failed" THEN "failed" ELSE r
Ended(c, r) == IF ~cmd[c].solo THEN Idle
               ELSE [cmd[c] EXCEPT !.pc = "ended", !.todo = {}, !.res = Outcome(c, r)]
End(c, r) == cmd' = [cmd EXCEPT ![c] = Ended(c, r)]
(* What another's step leaves of the commands' history. *)
NotSolo(d) == IF Busy(d) THEN [cmd[d] EXCEPT !.solo = FALSE] ELSE Idle

----------------------------------------------------------------------------
(* A fresh data directory, or one that was brought here from a machine with
   the other backend, where the schedule ran. *)
Init ==
    /\ host \in Backend
    /\ bus = TRUE /\ job = "off"
    /\ \/ /\ state = NoState
          /\ files = [f \in File |-> "none"]
       \/ \E b \in Backend \ {host} :
             /\ state = [backend |-> b, archive |-> TRUE, att |-> 1, suc |-> 1,
                         result |-> "success"]
             /\ files = [f \in File |-> IF f \in FilesOf(b)
                                        THEN Rendered(f, TRUE) ELSE "none"]
    /\ health = [capture |-> state.suc, full |-> state.suc,
                 at |-> [l \in Location |-> 0]]
    /\ cmd = [c \in Cmd |-> Idle] /\ run = [r \in Run |-> Waiting]
    /\ now = 1
    /\ calls = 0 /\ faults = 0

----------------------------------------------------------------------------
(* capture enable, with or without --archive or --no-schedule, and capture
   disable.  Enable reads the scan configuration and the repositories first,
   which may refuse and changes nothing. *)
Begin(c) ==
    /\ ~Busy(c)
    /\ calls < MaxCalls
    /\ calls' = calls + 1
    /\ faults' = IF Alone(c) THEN faults ELSE faults + 1
    /\ faults' <= MaxFaults
    /\ \E o \in {"plain", "archive", "manual", "off"} :
          cmd' = [d \in Cmd |->
                    IF d # c THEN NotSolo(d)
                    ELSE [Idle EXCEPT !.pc = IF o = "off" THEN "preflight" ELSE "load",
                                      !.op = o,
                                      !.solo = Alone(c)]]
    /\ UNCHANGED <<sysVars, state, run, health, now>>

(* preflight_disable, then unenroll, which may fail. *)
Preflight(c) ==
    /\ At(c, "preflight")
    /\ \/ Owned(state.backend) /\ Goto(c, "load")
       \/ End(c, "refused")
    /\ UNCHANGED <<sysVars, state, run, health, now, bounds>>

(* enable and disable read the state without the lock, and refuse to begin
   when a file they would replace or remove is not theirs.  Enable also needs
   a manager that answers. *)
Wanted(c) == cmd[c].op \in {"plain", "archive"}
TearsDown(c) == state.backend \in (IF Wanted(c) THEN Backend \ {host} ELSE Backend)
MayBegin(c) == /\ Wanted(c) => bus /\ Owned(host)
               /\ TearsDown(c) => Owned(state.backend)
AfterTeardown(c) == IF Wanted(c) THEN "write"
                    ELSE IF cmd[c].op = "manual" THEN "store" ELSE "clear"
Load(c) ==
    /\ At(c, "load")
    /\ IF MayBegin(c)
       THEN cmd' = [cmd EXCEPT ![c].loaded = state,
               ![c].pc = IF TearsDown(c) THEN "unregister" ELSE AfterTeardown(c),
               ![c].todo = FilesOf(IF TearsDown(c) THEN state.backend ELSE host)]
       ELSE End(c, "refused")
    /\ UNCHANGED <<sysVars, state, run, health, now, bounds>>

(* The manager's answer to disable or bootout is not looked at. *)
Unregistered(b) == IF b = host /\ bus THEN "off" ELSE job
Unregister(c) ==
    /\ At(c, "unregister")
    /\ job' = Unregistered(cmd[c].loaded.backend)
    /\ Goto(c, "remove")
    /\ UNCHANGED <<host, bus, files, state, run, health, now, bounds>>

(* Files are written and removed in a fixed order, service before timer. *)
NextFile(c) == IF "service" \in cmd[c].todo THEN "service"
               ELSE IF "timer" \in cmd[c].todo THEN "timer" ELSE "plist"
(* c is done with its next file; after the last one it goes on to l. *)
Advance(c, l) ==
    LET left == cmd[c].todo \ {NextFile(c)} IN
    IF left # {} THEN cmd' = [cmd EXCEPT ![c].todo = left]
    ELSE IF l = "ended" THEN End(c, "failed")
    ELSE cmd' = [cmd EXCEPT ![c].pc = l, ![c].todo = FilesOf(host)]

RemoveFile(c) ==
    /\ At(c, "remove")
    /\ LET f == NextFile(c) IN
       IF files[f] = "foreign"
       THEN End(c, "refused") /\ UNCHANGED files
       ELSE files' = [files EXCEPT ![f] = "none"] /\ Advance(c, AfterTeardown(c))
    /\ UNCHANGED <<host, bus, job, state, run, health, now, bounds>>

WriteFile(c) ==
    /\ At(c, "write")
    /\ LET f == NextFile(c) IN
       IF files[f] = "foreign"
       THEN Goto(c, "undo") /\ UNCHANGED files
       ELSE /\ files' = [files EXCEPT ![f] = Rendered(f, cmd[c].op = "archive")]
            /\ Advance(c, "register")
    /\ UNCHANGED <<host, bus, job, state, run, health, now, bounds>>

(* systemctl daemon-reload and enable, or launchctl bootout, bootstrap and
   enable: the manager now runs what the files say. *)
Register(c) ==
    /\ At(c, "register")
    /\ bus /\ \A f \in FilesOf(host) : files[f] # "none"
    /\ job' = files[JobFile(host)]
    /\ Goto(c, "store")
    /\ UNCHANGED <<host, bus, files, state, run, health, now, bounds>>

(* The manager refuses: an enabled systemd timer has then been reloaded, a
   launchd agent booted out. *)
RegisterFails(c) ==
    /\ At(c, "register")
    /\ job' = IF ~bus \/ job = "off" THEN job
              ELSE IF host = "launchd" THEN "off"
              ELSE IF files["service"] = "none" THEN job ELSE files["service"]
    /\ Goto(c, "undo")
    /\ UNCHANGED <<host, bus, files, state, run, health, now, bounds>>

(* Mutant: enable stores a state as if the schedule had never run. *)
KeptNothing(c, b, archive) == [NoState EXCEPT !.backend = b, !.archive = archive]
(* The state that is stored carries the last result enable read before. *)
Kept(c, b, archive) == [cmd[c].loaded EXCEPT !.backend = b, !.archive = archive]
Store(c) ==
    /\ At(c, "store")
    /\ state' = IF Wanted(c) THEN Kept(c, host, cmd[c].op = "archive")
                ELSE Kept(c, "manual", FALSE)
    /\ Goto(c, "enroll")
    /\ UNCHANGED <<sysVars, run, health, now, bounds>>

(* A full disk, while a file or the state is written. *)
WriteFails(c) ==
    /\ cmd[c].pc \in {"write", "store"}
    /\ IF Wanted(c) THEN Goto(c, "undo") ELSE End(c, "refused")
    /\ UNCHANGED <<sysVars, state, run, health, now, bounds>>

(* Mutant: the handler only removes the files. *)
UndoFilesOnly(c) ==
    /\ At(c, "undo")
    /\ cmd' = [cmd EXCEPT ![c].pc = "undofiles", ![c].todo = FilesOf(host),
                          ![c].res = "failed"]
    /\ UNCHANGED <<sysVars, state, run, health, now, bounds>>

(* enable's exception handler: unregister, then remove the files; what that
   raises is dropped. *)
Undo(c) ==
    /\ At(c, "undo")
    /\ job' = Unregistered(host)
    /\ cmd' = [cmd EXCEPT ![c].pc = "undofiles", ![c].todo = FilesOf(host),
                          ![c].res = "failed"]
    /\ UNCHANGED <<host, bus, files, state, run, health, now, bounds>>

UndoFile(c) ==
    /\ At(c, "undofiles")
    /\ LET f == NextFile(c) IN
       IF files[f] = "foreign"
       THEN End(c, "failed") /\ UNCHANGED files
       ELSE files' = [files EXCEPT ![f] = "none"] /\ Advance(c, "ended")
    /\ UNCHANGED <<host, bus, job, state, run, health, now, bounds>>

(* capture enable enrolls the repositories last; when that fails it disables
   the schedule. *)
Enroll(c) ==
    /\ At(c, "enroll")
    /\ \/ End(c, "ok")
       \/ cmd' = [cmd EXCEPT ![c].pc = "load", ![c].op = "off", ![c].res = "failed"]
    /\ UNCHANGED <<sysVars, state, run, health, now, bounds>>

ClearState(c) ==
    /\ At(c, "clear")
    /\ state' = NoState
    /\ End(c, "ok")
    /\ UNCHANGED <<sysVars, run, health, now, bounds>>

----------------------------------------------------------------------------
(* A scan: the manager's (--scheduled) or the user's own. *)
InScan(r, l) == run[r].pc = l
Scanning(r) == run[r].pc \in {"scan", "health", "record"}

StartScan(r) ==
    /\ InScan(r, "idle")
    /\ \E s \in BOOLEAN :
          /\ s => job \in {"plain", "archive"}
          /\ run' = [run EXCEPT ![r].pc = "scan", ![r].ours = s]
    /\ faults' = IF \E q \in Run : Scanning(q) THEN faults + 1 ELSE faults
    /\ faults' <= MaxFaults
    /\ UNCHANGED <<sysVars, state, cmd, health, now, calls>>

(* Capture, reconcile and the upgrade of proofs succeed or not; the time of
   the completion is read before the receipt's lock is taken. *)
AtResult(r, g) == IF run[r].ours
                  THEN [run[r] EXCEPT !.pc = "record", !.stamp = now, !.good = g]
                  ELSE Done
(* Mutant: the result is recorded without waiting for the receipt. *)
ResultBeforeReceipt(r) ==
    /\ InScan(r, "scan")
    /\ \E g \in BOOLEAN : run' = [run EXCEPT ![r] = AtResult(r, g)]
    /\ UNCHANGED <<sysVars, state, cmd, health, now, bounds>>
ScanEnds(r) ==
    /\ InScan(r, "scan")
    /\ \/ run' = [run EXCEPT ![r].pc = "health", ![r].stamp = now]
       \/ run' = [run EXCEPT ![r] = AtResult(r, FALSE)]
    /\ UNCHANGED <<sysVars, state, cmd, health, now, bounds>>

(* Mutant: the receipt takes the time of the last scan to get the lock. *)
LastToLock(a, b) == b
Later(a, b) == IF a < b THEN b ELSE a
Newer(at, l, k) == at[l] > at[k] \/ (at[l] = at[k] /\ l > k)
Trim(at) == [l \in Location |->
                IF Cardinality({k \in Location : Newer(at, k, l)}) < MaxLocations
                THEN at[l] ELSE 0]

(* The receipt is read, merged and replaced under its lock; then the time of
   the scheduled result is read. *)
RecordHealth(r) ==
    /\ InScan(r, "health")
    /\ \E w \in SUBSET Location :
          LET t == run[r].stamp
              at == [l \in Location |-> IF l \in w THEN Later(health.at[l], t)
                                        ELSE health.at[l]] IN
          health' = [capture |-> IF w = {} THEN health.capture
                                 ELSE Later(health.capture, t),
                     full |-> Later(health.full, t),
                     at |-> Trim(at)]
    /\ run' = [run EXCEPT ![r] = AtResult(r, TRUE)]
    /\ UNCHANGED <<sysVars, state, cmd, now, bounds>>

(* record_run under the state's lock: an older result never replaces a newer
   one, and of two in one second a success replaces a failure.  Without a
   registered backend it raises and changes nothing. *)
Supersedes(t, g) == \/ t > state.att
                    \/ t = state.att /\ g /\ state.result = "failed"
RecordRun(r) ==
    /\ InScan(r, "record")
    /\ LET t == run[r].stamp g == run[r].good IN
       state' = IF state.backend \in Backend /\ Supersedes(t, g)
                THEN [state EXCEPT !.att = t, !.suc = IF g THEN t ELSE @,
                                   !.result = IF g THEN "success" ELSE "failed"]
                ELSE state
    /\ run' = [run EXCEPT ![r] = Done]
    /\ UNCHANGED <<sysVars, cmd, health, now, bounds>>

----------------------------------------------------------------------------
(* The environment. *)
Kill(c) ==
    /\ Busy(c) /\ faults < MaxFaults
    /\ cmd' = [cmd EXCEPT ![c] = Idle] /\ faults' = faults + 1
    /\ UNCHANGED <<sysVars, state, run, health, now, calls>>

KillScan(r) ==
    /\ Scanning(r) /\ faults < MaxFaults
    /\ run' = [run EXCEPT ![r] = Done] /\ faults' = faults + 1
    /\ UNCHANGED <<sysVars, state, cmd, health, now, calls>>

Tick == now < MaxTime /\ now' = now + 1
        /\ UNCHANGED <<sysVars, state, cmd, run, health, bounds>>

Disturbed == cmd' = [c \in Cmd |-> NotSolo(c)]

Outage ==
    /\ bus /\ faults < MaxFaults
    /\ bus' = FALSE /\ faults' = faults + 1 /\ Disturbed
    /\ UNCHANGED <<host, job, files, state, run, health, now, calls>>

BusReturns == ~bus /\ bus' = TRUE
              /\ UNCHANGED <<host, job, files, state, cmd, run, health, now, bounds>>

UserReplaces(f) ==
    /\ f \in FilesOf(host) /\ files[f] # "foreign" /\ faults < MaxFaults
    /\ files' = [files EXCEPT ![f] = "foreign"] /\ faults' = faults + 1
    /\ Disturbed
    /\ UNCHANGED <<host, bus, job, state, run, health, now, calls>>

CmdStep(c) ==
    \/ Preflight(c) \/ Load(c) \/ Unregister(c) \/ RemoveFile(c)
    \/ WriteFile(c) \/ Register(c) \/ RegisterFails(c) \/ Store(c)
    \/ WriteFails(c) \/ Undo(c) \/ UndoFile(c) \/ Enroll(c) \/ ClearState(c)

Next == \/ \E c \in Cmd : Begin(c) \/ CmdStep(c) \/ Kill(c)
        \/ \E r \in Run : StartScan(r) \/ ScanEnds(r) \/ RecordHealth(r)
                          \/ RecordRun(r) \/ KillScan(r)
        \/ Tick \/ Outage \/ BusReturns
        \/ \E f \in File : UserReplaces(f)

Spec == Init /\ [][Next]_vars

----------------------------------------------------------------------------
(* Types; and the state file always passes the loader's validation, so that
   no command or run is refused because of what an earlier one stored. *)
TypeOK ==
    /\ host \in Backend /\ bus \in BOOLEAN
    /\ job \in {"off", "plain", "archive", "foreign"}
    /\ files \in [File -> {"none", "foreign", "plain", "archive", "timer"}]
    /\ state \in States /\ Validated(state)
    /\ cmd \in [Cmd -> [pc : {"idle", "ended", "preflight", "load", "unregister",
                              "remove", "write", "register", "store", "undo",
                              "undofiles", "enroll", "clear"},
                        op : {"plain", "archive", "manual", "off"},
                        loaded : States, todo : SUBSET File,
                        res : {"none", "ok", "failed", "refused"}, solo : BOOLEAN]]
    /\ run \in [Run -> [pc : {"idle", "scan", "health", "record", "ended"},
                        ours : BOOLEAN, stamp : 0..MaxTime, good : BOOLEAN]]
    /\ health \in [capture : 0..MaxTime, full : 0..MaxTime, at : [Location -> 0..MaxTime]]
    /\ now \in 1..MaxTime

(* Whatever earlier commands left when they were killed or refused: an enable
   that ran alone and succeeded leaves the job registered, with exactly the
   archive consent it was given, and status says active.  One that failed
   after it began to write leaves no job and no status that says there is
   one, also when it was a working schedule that it set out to change. *)
EnableDecides ==
    \A c \in Cmd : At(c, "ended") /\ cmd[c].solo =>
        /\ Wanted(c) /\ cmd[c].res = "ok" => Inspect = "active" /\ job = cmd[c].op
        /\ Wanted(c) /\ cmd[c].res = "failed" =>
               job = "off" /\ Inspect \in {"absent", "manual", "invalid"}
        /\ cmd[c].op = "off" /\ cmd[c].res = "failed" /\ cmd[c].loaded.backend = host =>
               job = "off" /\ Inspect = "absent"

(* The result of a run is only lost to an enable that had read the state
   before the run was recorded, or with the schedule itself. *)
RunsForgottenOnlyByRace ==
    [][state'.att < state.att \/ state'.suc < state.suc =>
           \/ state' = NoState
           \/ \E c \in Cmd : /\ At(c, "store") /\ cmd'[c].pc = "enroll"
                             /\ \/ cmd[c].loaded.att < state.att
                                \/ cmd[c].loaded.suc < state.suc]_vars

(* A scheduled success is only shown where a full scan left its receipt. *)
SuccessHasReceipt == state.suc # 0 => health.full # 0

(* Overlapping scans that read the clock in one order and take the lock in
   another never move a completion back, and a location is dropped only for
   as many as a receipt holds, all at least as recent. *)
HealthForward ==
    [][/\ health'.capture >= health.capture /\ health'.full >= health.full
       /\ \A l \in Location :
             \/ health'.at[l] >= health.at[l]
             \/ /\ health'.at[l] = 0
                /\ Cardinality({k \in Location \ {l} :
                        health'.at[k] # 0 /\ health'.at[k] >= health.at[l]})
                       >= MaxLocations]_vars
=============================================================================
