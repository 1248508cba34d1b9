--------------------------- MODULE FileInstall_proofs ---------------------------
(***************************************************************************)
(* Proofs about FileInstall, for every protocol and any number of callers, *)
(* calls, kills and power losses.                                          *)
(***************************************************************************)
EXTENDS FileInstall, TLAPS

Label == {"idle", "failed", "lock", "recover", "look", "create", "write", "fsync", "pub",
          "pubwrite", "stage", "temp", "tempwrite", "install", "dirsync", "unlink"}

Begun == [val : Contents, pc : Label]

\* Which protocols come to which label; of some no call ever fails.
Comes(k, pc) ==
    /\ pc = "failed" => k \notin {"corpus", "report", "config"}
    /\ pc = "lock" => k \in Locked
    /\ pc = "look" => k \notin {"topology", "config"}
    /\ pc \in {"create", "write"} => k \in InPlace
    /\ pc = "fsync" => k \in {"phase", "topology"}
    /\ pc \in {"pub", "pubwrite"} => k \in {"device", "signing"}
    /\ pc = "stage" => k \in {"report", "config"}
    /\ pc \in {"recover", "temp", "tempwrite", "unlink"} => k = "corpus"
    /\ pc = "install" => k \in {"corpus", "report", "config"}
    /\ pc = "dirsync" => k \in {"corpus", "report", "config", "phase"}

\* A call that is under way fits the file it will find: who creates it in
\* place finds it incomplete, and who has written it finds it complete.
Fits(k, call, f) ==
    /\ Comes(k, call.pc)
    /\ call.pc \notin {"idle", "failed"} =>
           call.val \in 1..MaxCalls /\ (k \notin Fresh => call.val = 1)
    /\ call.pc = "write" => f = Part
    /\ call.pc \in {"fsync", "pub", "pubwrite", "dirsync", "unlink"} => f \notin {None, Part}
    /\ call.pc \in {"pub", "pubwrite"} => call.val = f

Shape ==
    /\ TypeOK
    /\ temp # "none" => kind = "corpus"
    /\ kind \notin Fresh => after \subseteq {None, Part, 1}
    /\ \A p \in Proc : Fits(kind, proc[p], file)
    /\ \A p, q \in Proc : At(p, "write") /\ At(q, "write") => p = q

Kept ==
    /\ WholeOrAbsent /\ ReturnedKept /\ OneKey
    /\ None \notin returned
    /\ Part \in returned => kind = "signing"

Inv == Shape /\ Kept

LEMMA InitInv == Init => Inv
<1> SUFFICES ASSUME Init PROVE Inv
  OBVIOUS
<1>1. /\ {None, Part} \subseteq Contents /\ 0 \in 0..MaxCalls /\ 0 \in 0..MaxKills
      /\ 0 \in 0..MaxLosses
  BY BoundAssumption DEF Contents, None, Part
<1>2. TypeOK
  BY <1>1 DEF Init, TypeOK, Idle, None
<1>3. \A p \in Proc : Fits(kind, proc[p], file)
  BY DEF Init, Fits, Comes, Idle
<1>4. Shape
  BY <1>2, <1>3 DEF Init, Shape, At, Idle
<1>5. Kept
  BY DEF Init, Kept, WholeOrAbsent, ReturnedKept, OneKey, None, Part
<1>. QED BY <1>4, <1>5 DEF Inv

\* The steps that leave the file as it is: a caller goes on or returns, and
\* less is open after a power loss than was.
LEMMA Calm ==
    ASSUME Inv, NEW p \in Proc, NEW new \in Begun, proc' = [proc EXCEPT ![p] = new],
           UNCHANGED <<kind, file, losses>>, calls' \in 0..MaxCalls, kills' \in 0..MaxKills,
           Fits(kind, new, file), new.pc # "write",
           after' \subseteq after, file \in after',
           pub' \in {pub, Part, file},
           temp' \in {"none", "part", "whole", "linked"}, temp' # "none" => kind = "corpus",
           lock' \in Proc \cup {NoOne},
           \/ returned' = returned
           \/ \E v \in Contents : /\ returned' = returned \cup {v} /\ v # None
                                  /\ v = Part => kind = "signing"
                                  /\ v # Part => file \notin {None, Part}
                                  /\ kind \in Keys => v = file
                                  /\ kind \in Durable => None \notin after'
    PROVE  Inv'
<1>1. /\ TypeOK /\ proc \in [Proc -> Begun] /\ Kept
      /\ \A q \in Proc : Fits(kind, proc[q], file)
  BY DEF Inv, Shape, TypeOK, Begun, Label
<1>2. /\ proc' \in [Proc -> Begun]
      /\ \A q \in Proc : proc'[q] = IF q = p THEN new ELSE proc[q]
  BY <1>1
<1>3. TypeOK'
  <2>1. /\ kind' \in Kinds /\ file' \in Contents /\ after' \subseteq Contents /\ file' \in after'
        /\ losses' \in 0..MaxLosses
    BY <1>1 DEF TypeOK
  <2>2. pub' \in Contents
    <3>1. Part \in Contents
      BY BoundAssumption DEF Part, Contents
    <3>. QED BY <1>1, <3>1 DEF TypeOK
  <2>3. returned' \subseteq Contents
    BY <1>1 DEF TypeOK
  <2>. QED BY <1>2, <2>1, <2>2, <2>3 DEF TypeOK, Begun, Label
<1>4. Shape'
  <2>1. \A q \in Proc : Fits(kind', proc'[q], file')
    BY <1>1, <1>2
  <2>2. \A q, r \in Proc : (At(q, "write") /\ At(r, "write"))' => q = r
    BY <1>2 DEF Inv, Shape, At
  <2>. QED BY <1>3, <2>1, <2>2 DEF Inv, Shape
<1>5. WholeOrAbsent' /\ None \notin returned' /\ (Part \in returned' => kind' = "signing")
  BY <1>1 DEF Kept, WholeOrAbsent
<1>6. ReturnedKept'
  <2>1. CASE returned' = returned
    BY <1>1, <2>1 DEF Kept, ReturnedKept
  <2>2. ASSUME NEW v \in Contents, returned' = returned \cup {v}, v # Part,
               file \notin {None, Part}, kind \in Durable => None \notin after'
        PROVE  ReturnedKept'
    BY <1>5, <2>2 DEF ReturnedKept, WholeOrAbsent, Durable
  <2>3. CASE returned' = returned \cup {Part}
    <3>1. returned' \ {Part} = returned \ {Part}
      BY <2>3
    <3>. QED BY <1>1, <3>1 DEF Kept, ReturnedKept
  <2>. QED BY <2>1, <2>2, <2>3
<1>7. OneKey'
  BY <1>1 DEF Kept, OneKey
<1>. QED BY <1>4, <1>5, <1>6, <1>7 DEF Inv, Kept

\* What a caller's steps say of the others.
LEMMA ProcFacts ==
    ASSUME Inv
    PROVE  /\ kind \in AllKinds /\ file \in Contents /\ after \subseteq Contents /\ file \in after
           /\ pub \in Contents /\ temp \in {"none", "part", "whole", "linked"}
           /\ lock \in Proc \cup {NoOne} /\ returned \subseteq Contents
           /\ calls \in 0..MaxCalls /\ kills \in 0..MaxKills /\ losses \in 0..MaxLosses
           /\ proc \in [Proc -> Begun]
           /\ \A p \in Proc : /\ Fits(kind, proc[p], file)
                              /\ proc[p] \in Begun
                              /\ Unlocked(p) \in Proc \cup {NoOne}
           /\ temp # "none" => kind = "corpus"
           /\ None \in Contents /\ Part \in Contents /\ None # Part
<1>1. TypeOK /\ Shape
  BY DEF Inv, Shape
<1>2. None \in Contents /\ Part \in Contents /\ None # Part
  BY BoundAssumption DEF None, Part, Contents
<1>3. kind \in AllKinds /\ proc \in [Proc -> Begun]
  BY <1>1, KindAssumption DEF TypeOK, Begun, Label
<1>4. \A p \in Proc : Unlocked(p) \in Proc \cup {NoOne}
  BY <1>1 DEF TypeOK, Unlocked
<1>. QED BY <1>1, <1>2, <1>3, <1>4 DEF TypeOK, Shape

\* A caller that fails.
LEMMA FailInv ==
    ASSUME Inv, NEW p \in Proc, Fail(p), kind \notin {"corpus", "report", "config"},
           UNCHANGED <<kind, file, pub, temp, calls, losses>>, kills' \in 0..MaxKills,
           after' \subseteq after, file \in after'
    PROVE  Inv'
<1> DEFINE new == [pc |-> "failed", val |-> None]
<1>1. new \in Begun /\ new.pc = "failed"
  BY ProcFacts DEF Begun, Label
<1>2. Fits(kind, new, file)
  BY DEF Fits, Comes
<1>3. proc' = [proc EXCEPT ![p] = new] /\ lock' = Unlocked(p) /\ UNCHANGED returned
  BY DEF Fail
<1> HIDE DEF new
<1>. QED BY <1>1, <1>2, <1>3, ProcFacts, Calm

\* One that goes on to another label.
LEMMA GoesOn ==
    ASSUME Inv, NEW p \in Proc, NEW l \in Label, Goto(p, l), UNCHANGED returned,
           UNCHANGED <<kind, file, losses, calls, kills>>,
           Fits(kind, [proc[p] EXCEPT !.pc = l], file), l # "write",
           after' \subseteq after, file \in after', pub' \in {pub, Part},
           temp' \in {"none", "part", "whole", "linked"}, temp' # "none" => kind = "corpus",
           lock' \in Proc \cup {NoOne}
    PROVE  Inv'
<1> DEFINE new == [proc[p] EXCEPT !.pc = l]
<1>1. new \in Begun /\ new.pc = l
  BY ProcFacts DEF Begun
<1>2. proc' = [proc EXCEPT ![p] = new]
  BY ProcFacts DEF Goto
<1>3. Fits(kind, new, file)
  OBVIOUS
<1> HIDE DEF new
<1>4. calls' \in 0..MaxCalls /\ kills' \in 0..MaxKills
  BY ProcFacts
<1>. QED BY <1>1, <1>2, <1>3, <1>4, Calm

\* One that returns what is there, or all that the signing key's callers see.
LEMMA ReturnInv ==
    ASSUME Inv, NEW p \in Proc, NEW v \in Contents, Return(p, v),
           UNCHANGED <<kind, file, losses, calls, kills>>,
           after' \subseteq after, file \in after', pub' \in {pub, file}, temp' = temp,
           v # None, v = Part => kind = "signing", v # Part => file \notin {None, Part},
           kind \in Keys => v = file, kind \in Durable => None \notin after'
    PROVE  Inv'
<1>1. Idle \in Begun /\ Idle.pc = "idle" /\ Fits(kind, Idle, file)
  BY ProcFacts DEF Begun, Label, Idle, Fits, Comes
<1>2. /\ proc' = [proc EXCEPT ![p] = Idle] /\ returned' = returned \cup {v}
      /\ lock' = Unlocked(p)
  BY DEF Return
<1>. QED BY <1>1, <1>2, ProcFacts, Calm

\* A label that asks nothing of the file fits when the protocol comes to it.
LEMMA FitsLabel ==
    ASSUME Inv, NEW p \in Proc, NEW l \in Label, Busy(p), Comes(kind, l),
           l \notin {"write", "pub", "pubwrite"},
           l \in {"fsync", "dirsync", "unlink"} => file \notin {None, Part}
    PROVE  Fits(kind, [proc[p] EXCEPT !.pc = l], file)
<1> DEFINE new == [proc[p] EXCEPT !.pc = l]
<1>1. new.pc = l /\ new.val = proc[p].val /\ Fits(kind, proc[p], file)
  BY ProcFacts DEF Begun
<1> HIDE DEF new
<1>2. Fits(kind, new, file)
  BY <1>1 DEF Fits, Busy
<1>. QED BY <1>2 DEF new

LEMMA CallInv ==
    ASSUME Inv, NEW p \in Proc, Call(p)
    PROVE  Inv'
<1> DEFINE new == [val |-> IF kind \in Fresh THEN calls + 1 ELSE 1,
                   pc  |-> IF kind \in Locked THEN "lock"
                           ELSE IF kind = "config" THEN "stage"
                           ELSE IF kind = "topology" THEN "create" ELSE "look"]
<1>1. /\ proc' = [proc EXCEPT ![p] = new] /\ calls' = calls + 1 /\ calls < MaxCalls
      /\ UNCHANGED <<kind, file, after, pub, temp, lock, returned, kills, losses>>
  BY DEF Call
<1>2. calls \in Nat /\ MaxCalls \in Nat /\ calls' \in 0..MaxCalls
  BY <1>1, ProcFacts, BoundAssumption
<1>3. new.val \in 1..MaxCalls /\ (kind \notin Fresh => new.val = 1)
  BY <1>1, <1>2
<1>4. Comes(kind, new.pc) /\ new.pc \in {"lock", "stage", "create", "look"}
  BY ProcFacts DEF Comes, AllKinds, Locked, InPlace, Keys
<1>5. new \in Begun /\ Fits(kind, new, file) /\ new.pc # "write"
  <2>1. new.val \in Contents
    BY <1>3, BoundAssumption DEF Contents
  <2>2. new \in Begun
    BY <1>4, <2>1 DEF Begun, Label
  <2> HIDE DEF new
  <2>. QED BY <1>3, <1>4, <2>2 DEF Fits
<1> HIDE DEF new
<1>. QED BY <1>1, <1>2, <1>5, ProcFacts, Calm

LEMMA LookInv ==
    ASSUME Inv, NEW p \in Proc,
           Lock(p) \/ Recover(p) \/ LookAbsent(p) \/ LookKey(p) \/ LookExisting(p)
    PROVE  Inv'
<1>0. /\ Fits(kind, proc[p], file) /\ file \in after /\ kind \in AllKinds
      /\ calls \in 0..MaxCalls /\ kills \in 0..MaxKills
  BY ProcFacts
<1>1. CASE Lock(p)
  <2> DEFINE l == IF kind = "corpus" THEN "recover" ELSE "look"
  <2>1. Busy(p) /\ At(p, "lock") /\ kind \in Locked
    BY <1>0, <1>1 DEF Lock, At, Busy, Fits, Comes
  <2>2. Comes(kind, l) /\ l \in Label /\ l \in {"recover", "look"}
    BY <2>1 DEF Comes, Label, Locked
  <2>3. /\ Goto(p, l) /\ lock' = p
        /\ UNCHANGED <<kind, file, after, pub, temp, returned, calls, kills, losses>>
    BY <1>1 DEF Lock, bounds
  <2> HIDE DEF l
  <2>4. Fits(kind, [proc[p] EXCEPT !.pc = l], file)
    BY <2>1, <2>2, FitsLabel
  <2>. QED BY <1>0, <2>2, <2>3, <2>4, ProcFacts, GoesOn
<1>2. CASE Recover(p)
  <2>1. Busy(p) /\ At(p, "recover") /\ kind = "corpus"
    BY <1>0, <1>2 DEF Recover, At, Busy, Fits, Comes
  <2>2. Comes(kind, "look") /\ "look" \in Label
    BY <2>1 DEF Comes, Label
  <2>3. /\ Goto(p, "look") /\ temp' = "none" /\ after' \subseteq after /\ file \in after'
        /\ UNCHANGED <<kind, file, pub, lock, returned, calls, kills, losses>>
    BY <1>0, <1>2 DEF Recover, SyncDirectory, bounds
  <2>4. Fits(kind, [proc[p] EXCEPT !.pc = "look"], file)
    BY <2>1, <2>2, FitsLabel
  <2>. QED BY <2>2, <2>3, <2>4, ProcFacts, GoesOn
<1>3. CASE LookAbsent(p)
  <2> DEFINE l == IF kind \in InPlace THEN "create" ELSE IF kind = "corpus" THEN "temp" ELSE "stage"
  <2>1. Busy(p) /\ At(p, "look") /\ kind \notin {"topology", "config"}
    BY <1>0, <1>3 DEF LookAbsent, At, Busy, Fits, Comes
  <2>2. Comes(kind, l) /\ l \in Label /\ l \in {"create", "temp", "stage"}
    BY <1>0, <2>1 DEF Comes, Label, AllKinds, InPlace, Keys
  <2>3. /\ Goto(p, l)
        /\ UNCHANGED <<kind, file, after, pub, temp, lock, returned, calls, kills, losses>>
    BY <1>3 DEF LookAbsent, Continue, bounds
  <2> HIDE DEF l
  <2>4. Fits(kind, [proc[p] EXCEPT !.pc = l], file)
    BY <2>1, <2>2, FitsLabel
  <2>. QED BY <1>0, <2>2, <2>3, <2>4, ProcFacts, GoesOn
<1>4. CASE LookKey(p)
  <2>1. /\ kind \in Keys /\ file # None /\ At(p, "look")
        /\ UNCHANGED <<kind, file, after, pub, temp, calls, kills, losses>>
    BY <1>4 DEF LookKey, bounds
  <2>2. CASE Fail(p)
    BY <1>0, <2>1, <2>2, FailInv DEF Keys
  <2>3. CASE Return(p, file) /\ (file = Part => kind = "signing")
    <3>1. kind \notin Durable
      BY <2>1 DEF Keys, Durable
    <3>. QED BY <1>0, <2>1, <2>3, <3>1, ProcFacts, ReturnInv
  <2>4. CASE /\ kind = "device" /\ file # Part
             /\ proc' = [proc EXCEPT ![p] = [pc |-> "pub", val |-> file]]
             /\ UNCHANGED <<lock, returned>>
    <3> DEFINE new == [pc |-> "pub", val |-> file]
    <3>1. new \in Begun /\ new.pc = "pub" /\ new.val = file
      BY ProcFacts DEF Begun, Label
    <3> HIDE DEF new
    <3>2. file \in 1..MaxCalls
      BY <2>1, <2>4, ProcFacts DEF Contents, None, Part
    <3>3. Fits(kind, new, file)
      BY <2>1, <2>4, <3>1, <3>2 DEF Fits, Comes, Fresh
    <3>4. proc' = [proc EXCEPT ![p] = new]
      BY <2>4 DEF new
    <3>. QED BY <1>0, <2>1, <2>4, <3>1, <3>3, <3>4, ProcFacts, Calm
  <2>. QED BY <1>4, <2>2, <2>3, <2>4 DEF LookKey
<1>5. CASE LookExisting(p)
  <2>1. /\ file # None /\ Busy(p) /\ kind \notin Keys
        /\ UNCHANGED <<kind, file, pub, temp, calls, kills, losses>>
        /\ kind \notin {"config"}
    BY <1>0, <1>5 DEF LookExisting, bounds, At, Busy, Fits, Comes, Keys
  <2>2. proc[p].val \in 1..MaxCalls /\ (kind \notin Fresh => proc[p].val = 1)
    BY <1>0, <2>1 DEF Fits, Busy
  <2>3. proc[p].val \notin {None, Part} /\ kind \notin Fresh
    BY <2>1, <2>2, BoundAssumption DEF None, Part, Fresh
  <2>4. after' \subseteq after /\ (file # Part => file \in after')
    BY <1>0, <1>5 DEF LookExisting, SyncFile
  <2>5. CASE file # proc[p].val
    <3>1. Fail(p) /\ UNCHANGED after
      BY <1>5, <2>5 DEF LookExisting
    <3>2. kind \notin {"corpus", "report", "config"}
      <4>1. file \in {None, Part, 1}
        BY <1>0, <2>3 DEF Inv, Shape
      <4>2. file = Part
        BY <2>1, <2>2, <2>3, <2>5, <4>1
      <4>. QED BY <1>0, <4>2 DEF Inv, Kept, WholeOrAbsent
    <3>. QED BY <1>0, <2>1, <3>1, <3>2, FailInv
  <2>6. CASE file = proc[p].val /\ kind = "corpus"
    <3>1. Goto(p, "dirsync") /\ UNCHANGED <<lock, returned>>
      BY <1>5, <2>6 DEF LookExisting, Continue
    <3>2. Comes(kind, "dirsync") /\ "dirsync" \in Label
      BY <2>6 DEF Comes, Label
    <3>3. Fits(kind, [proc[p] EXCEPT !.pc = "dirsync"], file)
      BY <2>1, <2>3, <2>6, <3>2, FitsLabel
    <3>. QED BY <2>1, <2>3, <2>4, <2>6, <3>1, <3>2, <3>3, ProcFacts, GoesOn
  <2>7. CASE file = proc[p].val /\ kind # "corpus"
    <3>1. Return(p, file)
      BY <1>5, <2>7 DEF LookExisting
    <3>2. kind \notin Durable
      BY <2>1, <2>7 DEF Durable
    <3>. QED BY <2>1, <2>3, <2>4, <2>7, <3>1, <3>2, ProcFacts, ReturnInv
  <2>. QED BY <2>5, <2>6, <2>7
<1>. QED BY <1>1, <1>2, <1>3, <1>4, <1>5

\* The steps that change the file under its name.
LEMMA Change ==
    ASSUME Inv, NEW p \in Proc, NEW new \in Begun, proc' = [proc EXCEPT ![p] = new],
           UNCHANGED <<kind, losses, calls, pub>>, kills' \in 0..MaxKills,
           Fits(kind, new, file'), file' \in Contents,
           \A q \in Proc \ {p} : Fits(kind, proc[q], file'),
           \A q \in Proc \ {p} : ~(new.pc = "write" /\ At(q, "write")),
           after' \subseteq after \cup {file'}, file' \in after',
           kind \notin Fresh => file' \in {None, Part, 1},
           kind \in {"corpus", "report", "config"} => file' \notin {None, Part},
           kind \notin Durable => file' \notin {None, Part} \/ file \in {None, Part},
           kind \in Keys => file \in {None, Part},
           temp' \in {"none", "part", "whole", "linked"}, temp' # "none" => kind = "corpus",
           lock' \in Proc \cup {NoOne},
           \/ returned' = returned
           \/ returned' = returned \cup {file'} /\ kind \notin Durable /\ file' \notin {None, Part}
    PROVE  Inv'
<1>1. /\ TypeOK /\ proc \in [Proc -> Begun] /\ Kept
  BY DEF Inv, Shape, TypeOK, Begun, Label
<1>2. /\ proc' \in [Proc -> Begun]
      /\ \A q \in Proc : proc'[q] = IF q = p THEN new ELSE proc[q]
  BY <1>1
<1>3. TypeOK'
  <2>1. /\ kind' \in Kinds /\ after' \subseteq Contents
        /\ losses' \in 0..MaxLosses /\ calls' \in 0..MaxCalls /\ pub' \in Contents
    BY <1>1 DEF TypeOK
  <2>2. returned' \subseteq Contents
    BY <1>1 DEF TypeOK
  <2>. QED BY <1>2, <2>1, <2>2 DEF TypeOK, Begun, Label
<1>4. Shape'
  <2>1. \A q \in Proc : Fits(kind', proc'[q], file')
    BY <1>2
  <2>2. \A q, r \in Proc : (At(q, "write") /\ At(r, "write"))' => q = r
    BY <1>2 DEF Inv, Shape, At
  <2>3. kind' \notin Fresh => after' \subseteq {None, Part, 1}
    BY DEF Inv, Shape
  <2>. QED BY <1>3, <2>1, <2>2, <2>3 DEF Shape
<1>5. WholeOrAbsent' /\ None \notin returned' /\ (Part \in returned' => kind' = "signing")
  BY <1>1 DEF Kept, WholeOrAbsent
<1>6. ReturnedKept'
  <2>1. CASE kind \in Durable
    BY <1>1, <2>1 DEF Kept, ReturnedKept, Durable
  <2>2. CASE kind \notin Durable
    BY <1>1, <2>2 DEF Kept, ReturnedKept
  <2>. QED BY <2>1, <2>2
<1>7. OneKey'
  <2> SUFFICES ASSUME kind \in Keys, losses = 0
               PROVE  /\ returned' \subseteq {file'} \cup (IF kind = "signing" THEN {Part} ELSE {})
                      /\ pub \in {None, Part, file'}
    BY DEF OneKey
  <2>1. returned \subseteq {Part} /\ pub \in {None, Part}
    BY <1>1 DEF Kept, OneKey
  <2>2. Part \in returned => kind = "signing"
    BY <1>1 DEF Kept
  <2>. QED BY <2>1, <2>2
<1>. QED BY <1>4, <1>5, <1>6, <1>7 DEF Inv, Kept

LEMMA CreateInv ==
    ASSUME Inv, NEW p \in Proc, Create(p)
    PROVE  Inv'
<1>0. /\ Fits(kind, proc[p], file) /\ file \in after /\ kind \in AllKinds
      /\ Busy(p) /\ At(p, "create") /\ kind \in InPlace
      /\ UNCHANGED <<kind, pub, temp, calls, kills, losses>>
  BY ProcFacts DEF Create, At, Busy, Fits, Comes, bounds
<1>1. CASE file # None
  <2>1. Fail(p) /\ UNCHANGED <<file, after>>
    BY <1>1 DEF Create
  <2>. QED BY <1>0, <2>1, ProcFacts, FailInv DEF InPlace, Keys
<1>2. CASE file = None
  <2> DEFINE new == [proc[p] EXCEPT !.pc = "write"]
  <2>1. /\ file' = Part /\ after' = after \cup {Part} /\ Goto(p, "write")
        /\ UNCHANGED <<lock, returned>>
    BY <1>2 DEF Create, Entry, Continue
  <2>2. new \in Begun /\ new.pc = "write" /\ new.val = proc[p].val
    BY ProcFacts DEF Begun, Label
  <2>3. proc' = [proc EXCEPT ![p] = new]
    BY <2>1, ProcFacts DEF Goto
  <2> HIDE DEF new
  <2>4. Fits(kind, new, file')
    BY <1>0, <2>1, <2>2 DEF Fits, Comes, Busy
  <2>5. \A q \in Proc \ {p} : Fits(kind, proc[q], file') /\ ~At(q, "write")
    BY <1>2, <2>1, ProcFacts DEF Fits, At
  <2>6. kind \notin {"corpus", "report", "config"} /\ kind \notin Durable
    BY <1>0 DEF InPlace, Keys, Durable
  <2>. QED BY <1>0, <1>2, <2>1, <2>2, <2>3, <2>4, <2>5, <2>6, ProcFacts, Change
<1>. QED BY <1>1, <1>2

LEMMA WriteInv ==
    ASSUME Inv, NEW p \in Proc, Write(p)
    PROVE  Inv'
<1>0. /\ Fits(kind, proc[p], file) /\ kind \in AllKinds
      /\ Busy(p) /\ At(p, "write") /\ kind \in InPlace /\ file = Part
      /\ UNCHANGED <<kind, pub, temp, calls, kills, losses>>
      /\ file' = proc[p].val /\ after' = after \cup {file'} /\ AfterWrite(p)
  BY ProcFacts DEF Write, At, Busy, Fits, Comes, bounds, Entry
<1>1. /\ proc[p].val \in 1..MaxCalls /\ (kind \notin Fresh => proc[p].val = 1)
      /\ proc[p].val \in Contents
  BY <1>0, ProcFacts DEF Fits, Busy, Begun
<1>2. file' \notin {None, Part} /\ file' \in Contents
  BY <1>0, <1>1, BoundAssumption DEF None, Part
<1>3. \A q \in Proc \ {p} : Fits(kind, proc[q], file') /\ ~At(q, "write")
  <2>1. \A q \in Proc \ {p} : ~At(q, "write")
    BY <1>0 DEF Inv, Shape
  <2>. QED BY <1>0, <2>1, ProcFacts DEF Fits, At
<1>4. kind \notin {"corpus", "report", "config"} /\ kind \notin Durable
  BY <1>0 DEF InPlace, Keys, Durable
<1>5. ASSUME NEW new \in Begun, new.pc # "write", Fits(kind, new, file'),
             proc' = [proc EXCEPT ![p] = new], lock' \in Proc \cup {NoOne},
             returned' = returned \/ returned' = returned \cup {file'}
      PROVE  Inv'
  BY <1>0, <1>1, <1>2, <1>3, <1>4, <1>5, ProcFacts, Change
<1>6. CASE kind = "scope"
  <2>1. Return(p, proc[p].val)
    BY <1>0, <1>6 DEF AfterWrite
  <2>2. Idle \in Begun /\ Idle.pc = "idle" /\ Fits(kind, Idle, file')
    BY ProcFacts DEF Begun, Label, Idle, Fits, Comes
  <2>3. /\ proc' = [proc EXCEPT ![p] = Idle] /\ returned' = returned \cup {file'}
        /\ lock' = Unlocked(p)
    BY <1>0, <2>1 DEF Return
  <2>. QED BY <1>5, <2>2, <2>3, ProcFacts
<1>7. CASE kind # "scope"
  <2> DEFINE l == IF kind \in {"device", "signing"} THEN "pub" ELSE "fsync"
             new == [proc[p] EXCEPT !.pc = l]
  <2>1. Goto(p, l) /\ UNCHANGED <<lock, returned>>
    BY <1>0, <1>7 DEF AfterWrite, Continue
  <2>2. Comes(kind, l) /\ l \in {"pub", "fsync"} /\ l \in Label
    BY <1>0, <1>7 DEF Comes, InPlace, Keys, Label
  <2> HIDE DEF l
  <2>3. new \in Begun /\ new.pc = l /\ new.val = proc[p].val
    BY <2>2, ProcFacts DEF Begun
  <2>4. proc' = [proc EXCEPT ![p] = new]
    BY <2>1, ProcFacts DEF Goto
  <2> HIDE DEF new
  <2>5. Fits(kind, new, file')
    BY <1>0, <1>1, <1>2, <2>2, <2>3 DEF Fits
  <2>6. new.pc # "write"
    BY <2>2, <2>3
  <2>. QED BY <1>5, <2>1, <2>3, <2>4, <2>5, <2>6, ProcFacts
<1>. QED BY <1>6, <1>7

\* The file that a full disk leaves incomplete, or that is taken away again.
LEMMA WriteFailsInv ==
    ASSUME Inv, NEW p \in Proc, WriteFails(p)
    PROVE  Inv'
<1>0. /\ Fits(kind, proc[p], file) /\ kind \in AllKinds /\ file \in after
      /\ At(p, "write") /\ kind \in InPlace /\ file = Part
      /\ UNCHANGED <<kind, pub, temp, calls, losses>> /\ Fail(p)
      /\ kills < MaxKills /\ kills' = kills + 1
  BY ProcFacts DEF WriteFails, At, Fits, Comes
<1>1. kills' \in 0..MaxKills
  BY <1>0, ProcFacts, BoundAssumption
<1>2. kind \notin {"corpus", "report", "config"} /\ kind \notin Durable
  BY <1>0 DEF InPlace, Keys, Durable
<1>3. CASE UNCHANGED <<file, after>>
  BY <1>0, <1>1, <1>2, <1>3, FailInv
<1>4. CASE kind = "phase" /\ file' = None /\ after' = {None}
  <2> DEFINE new == [pc |-> "failed", val |-> None]
  <2>1. new \in Begun /\ new.pc = "failed"
    BY ProcFacts DEF Begun, Label
  <2>2. Fits(kind, new, file')
    BY <1>2 DEF Fits, Comes
  <2>3. proc' = [proc EXCEPT ![p] = new] /\ lock' = Unlocked(p) /\ UNCHANGED returned
    BY <1>0 DEF Fail
  <2> HIDE DEF new
  <2>4. \A q \in Proc \ {p} : ~At(q, "write")
    BY <1>0 DEF Inv, Shape
  <2>5. \A q \in Proc \ {p} : Fits(kind, proc[q], file')
    BY <1>0, <2>4, ProcFacts DEF Fits, At
  <2>. QED BY <1>0, <1>1, <1>2, <1>4, <2>1, <2>2, <2>3, <2>4, <2>5, ProcFacts, Change DEF Keys
<1>. QED BY <1>3, <1>4 DEF WriteFails

LEMMA InstallInv ==
    ASSUME Inv, NEW p \in Proc, Install(p)
    PROVE  Inv'
<1>0. /\ Fits(kind, proc[p], file) /\ kind \in AllKinds /\ file \in after
      /\ Busy(p) /\ At(p, "install") /\ kind \in {"corpus", "report", "config"}
      /\ UNCHANGED <<kind, pub, calls, kills, losses>>
      /\ temp' = IF kind = "corpus" THEN "linked" ELSE temp
      /\ file # Part
  BY ProcFacts DEF Install, At, Busy, Fits, Comes, bounds, Inv, Kept, WholeOrAbsent
<1>1. /\ proc[p].val \in 1..MaxCalls /\ (kind \notin Fresh => proc[p].val = 1)
      /\ proc[p].val \in Contents
  BY <1>0, ProcFacts DEF Fits, Busy, Begun
<1>2. proc[p].val \notin {None, Part}
  BY <1>1, BoundAssumption DEF None, Part
<1>3. kind \notin Keys /\ (kind = "report" => kind \notin Durable)
  BY <1>0 DEF Keys, Durable
<1>4. CASE kind = "report" /\ file # None
  <2>1. file \in {None, Part, 1} /\ kind \notin Fresh
    BY <1>0, <1>4 DEF Inv, Shape, Fresh, Keys
  <2>2. Return(p, file) /\ UNCHANGED <<file, after>>
    BY <1>0, <1>1, <1>4, <2>1 DEF Install
  <2>. QED BY <1>0, <1>3, <1>4, <2>2, ProcFacts, ReturnInv
<1>5. CASE ~(kind = "report" /\ file # None)
  <2> DEFINE new == [proc[p] EXCEPT !.pc = "dirsync"]
  <2>1. /\ file' = proc[p].val /\ after' = after \cup {file'} /\ Goto(p, "dirsync")
        /\ UNCHANGED <<lock, returned>>
    BY <1>5 DEF Install, Entry, Continue
  <2>2. new \in Begun /\ new.pc = "dirsync" /\ new.val = proc[p].val
    BY ProcFacts DEF Begun, Label
  <2>3. proc' = [proc EXCEPT ![p] = new]
    BY <2>1, ProcFacts DEF Goto
  <2> HIDE DEF new
  <2>4. Fits(kind, new, file')
    BY <1>0, <1>1, <1>2, <2>1, <2>2 DEF Fits, Comes
  <2>5. \A q \in Proc \ {p} : Fits(kind, proc[q], file')
    BY <1>0, <1>2, <1>3, <2>1, ProcFacts DEF Fits, Comes, InPlace
  <2>6. /\ temp' \in {"none", "part", "whole", "linked"} /\ (temp' # "none" => kind = "corpus")
        /\ lock' \in Proc \cup {NoOne} /\ kills' \in 0..MaxKills
    BY <1>0, <2>1, ProcFacts
  <2>. QED BY <1>0, <1>1, <1>2, <1>3, <2>1, <2>2, <2>3, <2>4, <2>5, <2>6, Change
<1>. QED BY <1>4, <1>5

LEMMA SyncInv ==
    ASSUME Inv, NEW p \in Proc, Fsync(p) \/ DirSync(p)
    PROVE  Inv'
<1>0. /\ Fits(kind, proc[p], file) /\ kind \in AllKinds /\ file \in after
      /\ Busy(p) /\ proc[p].pc \in {"fsync", "dirsync"} /\ file \notin {None, Part}
      /\ UNCHANGED <<kind, file, pub, temp, calls, kills, losses>>
  BY ProcFacts DEF Fsync, DirSync, At, Busy, Fits, bounds
<1>1. /\ proc[p].val \in 1..MaxCalls /\ proc[p].val \in Contents
  BY <1>0, ProcFacts DEF Fits, Busy, Begun
<1>2. proc[p].val \notin {None, Part}
  BY <1>1, BoundAssumption DEF None, Part
<1>3. CASE Fsync(p)
  <2>1. after' \subseteq after /\ file \in after' /\ kind \in {"phase", "topology"}
    BY <1>0, <1>3 DEF Fsync, SyncFile, At, Fits, Comes
  <2>2. kind \notin Keys /\ kind \notin Durable
    BY <2>1 DEF Keys, Durable
  <2>3. CASE kind = "topology"
    <3>1. Return(p, file)
      BY <1>3, <2>3 DEF Fsync
    <3>. QED BY <1>0, <2>1, <2>2, <3>1, ProcFacts, ReturnInv
  <2>4. CASE kind = "phase"
    <3>1. Goto(p, "dirsync") /\ UNCHANGED <<lock, returned>>
      BY <1>3, <2>4 DEF Fsync, Continue
    <3>2. Comes(kind, "dirsync") /\ "dirsync" \in Label
      BY <2>4 DEF Comes, Label
    <3>3. Fits(kind, [proc[p] EXCEPT !.pc = "dirsync"], file)
      BY <1>0, <3>2, FitsLabel
    <3>. QED BY <1>0, <2>1, <3>1, <3>2, <3>3, ProcFacts, GoesOn
  <2>. QED BY <2>1, <2>3, <2>4
<1>4. CASE DirSync(p)
  <2>1. /\ after' \subseteq after /\ file \in after' /\ None \notin after'
        /\ kind \in {"corpus", "report", "config", "phase"}
    BY <1>0, <1>4, ProcFacts DEF DirSync, SyncDirectory, At, Fits, Comes
  <2>2. kind \notin Keys
    BY <2>1 DEF Keys
  <2>3. CASE temp = "linked"
    <3>1. Goto(p, "unlink") /\ UNCHANGED <<lock, returned>>
      BY <1>4, <2>3 DEF DirSync, Continue
    <3>2. Comes(kind, "unlink") /\ "unlink" \in Label
      BY <2>3, ProcFacts DEF Comes, Label
    <3>3. Fits(kind, [proc[p] EXCEPT !.pc = "unlink"], file)
      BY <1>0, <3>2, FitsLabel
    <3>. QED BY <1>0, <2>1, <3>1, <3>2, <3>3, ProcFacts, GoesOn
  <2>4. CASE temp # "linked"
    <3>1. Return(p, proc[p].val)
      BY <1>4, <2>4 DEF DirSync
    <3>. QED BY <1>0, <1>1, <1>2, <2>1, <2>2, <3>1, ReturnInv
  <2>. QED BY <2>3, <2>4
<1>. QED BY <1>3, <1>4

LEMMA PubInv ==
    ASSUME Inv, NEW p \in Proc, TruncatePub(p) \/ WritePub(p)
    PROVE  Inv'
<1>0. /\ Fits(kind, proc[p], file) /\ file \in after
      /\ Busy(p) /\ proc[p].pc \in {"pub", "pubwrite"} /\ file \notin {None, Part}
      /\ proc[p].val = file /\ kind \in {"device", "signing"}
      /\ UNCHANGED <<kind, file, after, temp, calls, kills, losses>>
  BY ProcFacts DEF TruncatePub, WritePub, At, Busy, Fits, Comes, bounds
<1>1. CASE TruncatePub(p)
  <2> DEFINE new == [proc[p] EXCEPT !.pc = "pubwrite"]
  <2>1. Goto(p, "pubwrite") /\ UNCHANGED <<lock, returned>> /\ pub' = Part
    BY <1>1 DEF TruncatePub, Continue
  <2>2. "pubwrite" \in Label /\ new.pc = "pubwrite" /\ new.val = proc[p].val
    BY ProcFacts DEF Begun, Label
  <2> HIDE DEF new
  <2>3. Fits(kind, new, file)
    BY <1>0, <2>2 DEF Fits, Comes
  <2>. QED BY <1>0, <2>1, <2>2, <2>3, ProcFacts, GoesOn DEF new
<1>2. CASE WritePub(p)
  <2>1. Return(p, file) /\ pub' = file
    BY <1>0, <1>2 DEF WritePub
  <2>2. kind \notin Durable
    BY <1>0 DEF Durable
  <2>. QED BY <1>0, <2>1, <2>2, ProcFacts, ReturnInv
<1>. QED BY <1>1, <1>2

LEMMA TempInv ==
    ASSUME Inv, NEW p \in Proc, Stage(p) \/ CreateTemp(p) \/ WriteTemp(p) \/ UnlinkTemp(p)
    PROVE  Inv'
<1> DEFINE l == IF At(p, "temp") THEN "tempwrite"
                ELSE IF At(p, "unlink") THEN "dirsync" ELSE "install"
<1>0. /\ Fits(kind, proc[p], file) /\ file \in after /\ kind \in AllKinds
      /\ Busy(p) /\ proc[p].pc \in {"stage", "temp", "tempwrite", "unlink"}
      /\ UNCHANGED <<kind, file, after, pub, lock, returned, calls, kills, losses>>
      /\ Goto(p, l)
  BY ProcFacts DEF Stage, CreateTemp, WriteTemp, UnlinkTemp, At, Busy, bounds, Continue
<1>1. Comes(kind, l) /\ l \in Label /\ l \in {"tempwrite", "dirsync", "install"}
  BY <1>0 DEF Comes, Label, Fits, At
<1>2. l = "dirsync" => file \notin {None, Part}
  BY <1>0 DEF Fits, At
<1> HIDE DEF l
<1>3. /\ temp' \in {"none", "part", "whole", "linked"}
      /\ temp' # "none" => kind = "corpus"
  BY <1>0, ProcFacts DEF Stage, CreateTemp, WriteTemp, UnlinkTemp, At, Fits, Comes
<1>4. Fits(kind, [proc[p] EXCEPT !.pc = l], file)
  BY <1>0, <1>1, <1>2, FitsLabel
<1>. QED BY <1>0, <1>1, <1>3, <1>4, ProcFacts, GoesOn

LEMMA KillInv ==
    ASSUME Inv, NEW p \in Proc, Kill(p)
    PROVE  Inv'
<1>1. Idle \in Begun /\ Idle.pc = "idle" /\ Fits(kind, Idle, file)
  BY ProcFacts DEF Begun, Label, Idle, Fits, Comes
<1>2. kills' \in 0..MaxKills
  BY ProcFacts, BoundAssumption DEF Kill
<1>3. /\ proc' = [proc EXCEPT ![p] = Idle] /\ lock' = Unlocked(p)
      /\ UNCHANGED <<kind, file, after, pub, temp, returned, calls, losses>>
  BY DEF Kill
<1>. QED BY <1>1, <1>2, <1>3, ProcFacts, Calm

\* A power loss leaves one of the contents that were open.
LEMMA PowerLossInv == Inv /\ PowerLoss => Inv'
<1> SUFFICES ASSUME Inv, PowerLoss PROVE Inv'
  OBVIOUS
<1>1. PICK v \in after : file' = v /\ after' = {v} /\ temp' \in TempAfter(v)
  BY DEF PowerLoss
<1>2. /\ losses < MaxLosses /\ losses' = losses + 1 /\ pub' \in {None, Part, pub}
      /\ proc' = [p \in Proc |-> Idle] /\ lock' = NoOne
      /\ UNCHANGED <<kind, returned, calls, kills>>
  BY DEF PowerLoss
<1>3. losses' \in 0..MaxLosses /\ losses' # 0
  BY <1>2, ProcFacts, BoundAssumption
<1>4. temp' \in {"none", "part", "whole", "linked"} /\ (temp' # "none" => kind = "corpus")
  BY <1>1, ProcFacts DEF TempAfter
<1>5. Idle \in Begun /\ Idle.pc = "idle" /\ Fits(kind, Idle, file')
  BY ProcFacts DEF Begun, Label, Idle, Fits, Comes
<1>6. TypeOK'
  <2>1. proc' \in [Proc -> Begun]
    BY <1>2, <1>5
  <2>2. TypeOK
    BY DEF Inv, Shape
  <2>. QED BY <1>1, <1>2, <1>3, <1>4, <2>1, <2>2, ProcFacts DEF TypeOK, Begun, Label
<1>7. Shape'
  <2>1. \A p \in Proc : Fits(kind', proc'[p], file') /\ ~(At(p, "write"))'
    BY <1>2, <1>5 DEF At
  <2>. QED BY <1>1, <1>2, <1>4, <1>6, <2>1 DEF Inv, Shape
<1>8. Kept'
  <2>1. WholeOrAbsent' /\ None \notin returned' /\ (Part \in returned' => kind' = "signing")
    BY <1>1, <1>2 DEF Inv, Kept, WholeOrAbsent
  <2>2. ReturnedKept'
    BY <1>1, <1>2, <1>3 DEF Inv, Kept, ReturnedKept
  <2>3. OneKey'
    BY <1>3 DEF OneKey
  <2>. QED BY <2>1, <2>2, <2>3 DEF Kept
<1>. QED BY <1>7, <1>8 DEF Inv

LEMMA NextInv == Inv /\ [Next]_vars => Inv'
<1> SUFFICES ASSUME Inv, [Next]_vars PROVE Inv'
  OBVIOUS
<1>1. CASE UNCHANGED vars
  BY <1>1 DEF vars, Inv, Shape, TypeOK, At, Kept, WholeOrAbsent, ReturnedKept, OneKey
<1>2. ASSUME NEW p \in Proc, Step(p)
      PROVE  Inv'
  BY <1>2, LookInv, CreateInv, WriteInv, SyncInv, PubInv, TempInv, InstallInv DEF Step
<1>3. ASSUME NEW p \in Proc, Call(p) \/ WriteFails(p) \/ Kill(p)
      PROVE  Inv'
  BY <1>3, CallInv, WriteFailsInv, KillInv
<1>. QED BY <1>1, <1>2, <1>3, PowerLossInv DEF Next

\* The inductive invariant: processes fit the file, and promises are kept.
THEOREM InvAlways == Spec => []Inv
BY InitInv, NextInv, PTL DEF Spec

\* A corpus, a report bundle and a configuration are complete or absent.
THEOREM NeverHalf == Spec => []WholeOrAbsent
<1>1. Inv => WholeOrAbsent
  BY DEF Inv, Kept
<1>. QED BY <1>1, InvAlways, PTL

\* What a call returned stays, across a power loss too where file and
\* directory were synced before.
THEOREM ReturnsHold == Spec => []ReturnedKept
<1>1. Inv => ReturnedKept
  BY DEF Inv, Kept
<1>. QED BY <1>1, InvAlways, PTL

\* However many callers create a key at once and die at it, there is one.
THEOREM KeysAgree == Spec => []OneKey
<1>1. Inv => OneKey
  BY DEF Inv, Kept
<1>. QED BY <1>1, InvAlways, PTL

\* Nothing that was left behind makes a later call of these stores fail.
THEOREM LeftoversAccepted == Spec => []NeverRefused
<1>1. Inv => NeverRefused
  BY DEF Inv, Shape, Fits, Comes, NeverRefused, At
<1>. QED BY <1>1, InvAlways, PTL
================================================================================
