-------------------------- MODULE ServiceHostProofs ---------------------------
(***************************************************************************)
(* Proofs about ServiceHost and, below it, PairingState: the service stops *)
(* when its run has, the commands of operators write files that load, and  *)
(* those of one operator keep the file of another version and implement    *)
(* PairingRegistry.                                                        *)
(***************************************************************************)
EXTENDS ServiceHost, FiniteSetTheorems, TLAPS

-----------------------------------------------------------------------------
(***************************************************************************)
(* The service.  A run of the service exists only while supervise_runtime  *)
(* is inside its call, and while supervise_runtime is anywhere at all, the *)
(* service manager has been told something else than "stopped".  The lock  *)
(* is with the runner whose run is not over.                               *)
(***************************************************************************)
HostTypeOK ==
    /\ run \in [Runners -> {"off", "wait", "serve", "finish"}]
    /\ host \in {"off", "log", "top", "call", "run", "retry", "end"}

HInv ==
    /\ HostTypeOK
    /\ run["service"] # "off" => host = "run"
    /\ host # "off" => scm # "stopped"
    /\ \A r \in Runners : run[r] # "off" <=> lock = r

\* One step for each action of the service, the console and their runs.
LEMMA HostStep == HInv /\ [InstallationNext]_installationVars => HInv'
  <1> SUFFICES ASSUME HInv, [InstallationNext]_installationVars PROVE HInv'
    OBVIOUS
  <1> USE DEF HInv, HostTypeOK, Runners, Nobody
  <1>1. ASSUME NEW r \in Runners, RunLocks(r) PROVE HInv'
    BY <1>1 DEF RunLocks
  <1>2. ASSUME NEW r \in Runners, RunBoots(r) PROVE HInv'
    BY <1>2 DEF RunBoots, serviceVars
  <1>3. CASE RunFindsNothing
    BY <1>3 DEF RunFindsNothing, serviceVars
  <1>4. ASSUME NEW r \in Runners, RunReloads(r) PROVE HInv'
    BY <1>4 DEF RunReloads, serviceVars
  <1>5. ASSUME NEW r \in Runners, RunStops(r) PROVE HInv'
    BY <1>5 DEF RunStops
  <1>6. ASSUME NEW r \in Runners, RunEnds(r) PROVE HInv'
    BY <1>6 DEF RunEnds, serviceVars
  <1>7. CASE ServiceStarts \/ StopAsked \/ LoggingStarts \/ StopPending
    BY <1>7 DEF ServiceStarts, StopAsked, LoggingStarts, StopPending
  <1>8. CASE SuperviseTop \/ RunReturned \/ Retries \/ ServiceEnds
    BY <1>8 DEF SuperviseTop, RunReturned, Retries, ServiceEnds
  <1>9. CASE \E r \in Runners : Killed(r)
    BY <1>9 DEF Killed
  <1>10. CASE UNCHANGED hostVars
    BY <1>10 DEF hostVars
  <1> HIDE DEF HInv, HostTypeOK
  <1> QED BY <1>1, <1>2, <1>3, <1>4, <1>5, <1>6, <1>7, <1>8, <1>9, <1>10
          DEF InstallationNext, ServiceStep, ConsoleStep, RunStep, Records, StoreTouched,
              installationVars, Runners

\* However the service is started, stopped, killed and started again, and wherever its
\* run is then: the service manager hears "stopped" only when the run has finished its
\* recorders.
THEOREM StopWaitsForRun == InstallationSpec => []StoppedMeansFinished
  <1>1. InstallationInit => HInv
    BY DEF InstallationInit, HostInit, HInv, HostTypeOK, Runners, Nobody
  <1>2. HInv => StoppedMeansFinished
    BY DEF HInv, StoppedMeansFinished
  <1> QED BY <1>1, <1>2, HostStep, PTL DEF InstallationSpec

-----------------------------------------------------------------------------
(***************************************************************************)
(* Files.  A content is sane if only paired rows hold anything, and whole  *)
(* if it can be loaded.  Every content there is - at the path, in an       *)
(* archive, or in the hands of a command that goes on to save it - is sane *)
(* and whole, save that a command still waiting for the Server's answer    *)
(* may hold a state without pairings.                                      *)
(***************************************************************************)
Kinds == {"missing", "old", "odd", "state"}
Contents == [kind : Kinds, installation : Nat, rows : [Instances -> [token : Nat, camera : Nat]]]
Commands == [step : Steps, state : Contents, target : Instances, serial : 1..MaxCommands,
             recover : BOOLEAN, interactive : BOOLEAN]

Sane(f) == f \in Contents /\ \A i \in Instances : f.rows[i].token = 0 => f.rows[i] = Unpaired
Whole(f) == Loads(f) => Cardinality(PairedIn(f)) \in 1..MaxInstances

Held(c) ==
    /\ c \in Commands
    /\ Sane(c.state) /\ Loads(c.state)
    /\ Cardinality(PairedIn(c.state)) <= MaxInstances
    /\ c.step # "ask" => Whole(c.state)
    /\ c.step \in {"commit", "archived", "camera"} => c.target \in PairedIn(c.state)

PInv ==
    /\ crew \subseteq Operators
    /\ serial \in 1..MaxCommands
    /\ Sane(file) /\ Whole(file)
    /\ archives \in [1..MaxCommands -> Contents]
    /\ \A n \in 1..MaxCommands : Sane(archives[n]) /\ Whole(archives[n])
    /\ desk \in [Operators -> {Idle} \cup Commands]
    /\ \A o \in Operators : desk[o] # Idle => Held(desk[o])

LEMMA CommandIsNotIdle == \A c \in Commands : c # Idle /\ c.step \in Steps
  <1> SUFFICES ASSUME NEW c \in Commands PROVE c # Idle /\ c.step \in Steps
    OBVIOUS
  <1>1. c.step \in Steps
    BY DEF Commands
  <1>2. Idle.step = "idle" /\ "idle" \notin Steps
    BY DEF Idle, Steps
  <1> QED BY <1>1, <1>2

\* The instances paired in a file are finitely many.
LEMMA CountPaired ==
    ASSUME NEW f
    PROVE  IsFiniteSet(PairedIn(f)) /\ Cardinality(PairedIn(f)) \in Nat
  BY PairingAssumption, FS_Subset, FS_CardinalityType DEF PairedIn

LEMMA NothingPaired ==
    ASSUME NEW kind \in Kinds, NEW n \in Nat
    PROVE  LET f == Content(kind, n, NoRows)
           IN  Sane(f) /\ PairedIn(f) = {} /\ Cardinality(PairedIn(f)) = 0
  <1>1. PairedIn(Content(kind, n, NoRows)) = {}
    BY DEF PairedIn, Content, NoRows
  <1>2. Sane(Content(kind, n, NoRows))
    BY DEF Sane, Contents, Content, NoRows, Unpaired
  <1> QED BY <1>1, <1>2, FS_EmptySet

\* Files that do not load are whole.
LEMMA Unreadable ==
    /\ \A f \in {Missing, Old, Odd} : Sane(f) /\ Whole(f) /\ ~Loads(f)
    /\ Old # Missing /\ Odd # Missing /\ Old # Odd
    /\ \A f \in {Missing, Old, Odd} : f.rows = NoRows
  BY NothingPaired DEF Missing, Old, Odd, Whole, Loads, Content, Kinds

-----------------------------------------------------------------------------
(***************************************************************************)
(* The four changes of a row.                                              *)
(***************************************************************************)
\* What a change of f's row of instance i, to a row r, makes of it.
RowSet(f, g, i, r) ==
    /\ Sane(g)
    /\ g.kind = f.kind /\ g.installation = f.installation
    /\ g.rows = [f.rows EXCEPT ![i] = r]

LEMMA PairingAdds ==
    ASSUME NEW f, Sane(f), NEW i \in Instances, NEW t \in Nat \ {0},
           NEW g, g = WithPairing(f, i, t)
    PROVE  /\ RowSet(f, g, i, [token |-> t, camera |-> f.rows[i].camera])
           /\ PairedIn(g) = PairedIn(f) \cup {i}
           /\ Cardinality(PairedIn(g)) \in 1..(Cardinality(PairedIn(f)) + 1)
  <1> DEFINE row == [token |-> t, camera |-> f.rows[i].camera]
  <1>1. f \in Contents /\ f.rows \in [Instances -> [token : Nat, camera : Nat]]
    BY DEF Sane, Contents
  <1>2. g = [f EXCEPT !.rows = [f.rows EXCEPT ![i] = row]]
    BY <1>1 DEF WithPairing, Contents
  <1>3. row \in [token : Nat, camera : Nat] /\ row # Unpaired /\ row.token # 0
    BY <1>1 DEF Unpaired
  <1> HIDE DEF row
  <1>4. g.rows = [f.rows EXCEPT ![i] = row] /\ g.kind = f.kind /\ g.installation = f.installation
        /\ g \in Contents
    BY <1>1, <1>2, <1>3 DEF Contents
  <1>5. \A j \in Instances : g.rows[j] = IF j = i THEN row ELSE f.rows[j]
    BY <1>1, <1>4
  <1>6. Sane(g)
    BY <1>3, <1>4, <1>5 DEF Sane
  <1>7. PairedIn(g) = PairedIn(f) \cup {i}
    BY <1>3, <1>5 DEF PairedIn
  <1>8. Cardinality(PairedIn(g)) \in 1..(Cardinality(PairedIn(f)) + 1)
    <2>1. \/ Cardinality(PairedIn(g)) = Cardinality(PairedIn(f))
          \/ Cardinality(PairedIn(g)) = Cardinality(PairedIn(f)) + 1
      BY <1>7, CountPaired, FS_AddElement
    <2>2. Cardinality(PairedIn(g)) # 0
      BY <1>7, CountPaired, FS_EmptySet
    <2> QED BY <2>1, <2>2, CountPaired
  <1> QED BY <1>4, <1>6, <1>7, <1>8 DEF row, RowSet

\* A camera is only given to an instance that is paired, and taken from one.
LEMMA CameraKeeps ==
    ASSUME NEW f, Sane(f), NEW i \in PairedIn(f), NEW n \in Nat,
           NEW g, g = WithCamera(f, i, n)
    PROVE  /\ RowSet(f, g, i, [token |-> f.rows[i].token, camera |-> n])
           /\ PairedIn(g) = PairedIn(f)
  <1> DEFINE row == [token |-> f.rows[i].token, camera |-> n]
  <1>1. f \in Contents /\ f.rows \in [Instances -> [token : Nat, camera : Nat]] /\ i \in Instances
    BY DEF Sane, Contents, PairedIn
  <1>2. g = [f EXCEPT !.rows = [f.rows EXCEPT ![i] = row]]
    BY <1>1 DEF WithCamera, Contents
  <1>3. row \in [token : Nat, camera : Nat] /\ row # Unpaired /\ row.token # 0
    BY <1>1 DEF Unpaired, Sane, PairedIn
  <1> HIDE DEF row
  <1>4. g.rows = [f.rows EXCEPT ![i] = row] /\ g.kind = f.kind /\ g.installation = f.installation
        /\ g \in Contents
    BY <1>1, <1>2, <1>3 DEF Contents
  <1>5. \A j \in Instances : g.rows[j] = IF j = i THEN row ELSE f.rows[j]
    BY <1>1, <1>4
  <1>6. Sane(g)
    BY <1>3, <1>4, <1>5 DEF Sane
  <1>7. PairedIn(g) = PairedIn(f)
    BY <1>3, <1>5 DEF PairedIn
  <1> QED BY <1>4, <1>6, <1>7 DEF row, RowSet

LEMMA UnpairingRemoves ==
    ASSUME NEW f, Sane(f), NEW i \in PairedIn(f), NEW g, g = WithoutPairing(f, i)
    PROVE  /\ RowSet(f, g, i, Unpaired)
           /\ PairedIn(g) = PairedIn(f) \ {i}
           /\ Cardinality(PairedIn(g)) <= Cardinality(PairedIn(f))
  <1>1. f \in Contents /\ f.rows \in [Instances -> [token : Nat, camera : Nat]] /\ i \in Instances
    BY DEF Sane, Contents, PairedIn
  <1>2. g = [f EXCEPT !.rows = [f.rows EXCEPT ![i] = Unpaired]]
    BY <1>1 DEF WithoutPairing, Contents
  <1>3. Unpaired \in [token : Nat, camera : Nat]
    BY DEF Unpaired
  <1>4. g.rows = [f.rows EXCEPT ![i] = Unpaired] /\ g.kind = f.kind /\ g.installation = f.installation
        /\ g \in Contents
    BY <1>1, <1>2, <1>3 DEF Contents
  <1>5. \A j \in Instances : g.rows[j] = IF j = i THEN Unpaired ELSE f.rows[j]
    BY <1>1, <1>4
  <1>6. Sane(g)
    BY <1>4, <1>5 DEF Sane
  <1>7. PairedIn(g) = PairedIn(f) \ {i}
    BY <1>5 DEF PairedIn
  <1>8. Cardinality(PairedIn(g)) <= Cardinality(PairedIn(f))
    BY <1>7, CountPaired, FS_Subset
  <1> QED BY <1>4, <1>6, <1>7, <1>8 DEF RowSet

-----------------------------------------------------------------------------
(***************************************************************************)
(* Commands keep the invariant.  A command begins with a file that loads   *)
(* or a fresh installation; it ends, and may leave a file.                 *)
(***************************************************************************)
LEMMA HeldOne == ASSUME PInv, NEW o \in Operators, desk[o] # Idle PROVE Held(desk[o])
  BY DEF PInv

\* A command of operator o goes on, or ends.
LEMMA DeskMoves ==
    ASSUME PInv, NEW o \in Operators, NEW c, c = Idle \/ Held(c), desk' = [desk EXCEPT ![o] = c],
           crew' = crew, serial' \in 1..MaxCommands,
           Sane(file'), Whole(file'),
           archives' \in [1..MaxCommands -> Contents],
           \A n \in 1..MaxCommands : Sane(archives'[n]) /\ Whole(archives'[n])
    PROVE  PInv'
  <1>1. desk \in [Operators -> {Idle} \cup Commands]
    BY DEF PInv
  <1>2. c \in {Idle} \cup Commands
    BY DEF Held
  <1>3. desk' \in [Operators -> {Idle} \cup Commands]
        /\ \A p \in Operators : desk'[p] = IF p = o THEN c ELSE desk[p]
    BY <1>1, <1>2
  <1>4. \A p \in Operators : desk'[p] # Idle => Held(desk'[p])
    BY <1>3 DEF PInv
  <1>5. Sane(file)' /\ Whole(file)' /\ \A n \in 1..MaxCommands : Sane(archives[n])' /\ Whole(archives[n])'
    BY DEF Sane, Whole, Loads, PairedIn
  <1>6. \A p \in Operators : (desk[p] # Idle => Held(desk[p]))'
    BY <1>4 DEF Held, Sane, Whole, Loads, PairedIn
  <1> QED BY <1>3, <1>5, <1>6 DEF PInv

\* The same, for a command that leaves the archives alone.
LEMMA DeskWrites ==
    ASSUME PInv, NEW o \in Operators, NEW c, c = Idle \/ Held(c), desk' = [desk EXCEPT ![o] = c],
           UNCHANGED <<crew, archives, serial>>, Sane(file'), Whole(file')
    PROVE  PInv'
  BY DeskMoves DEF PInv

LEMMA BeginsKeeps ==
    ASSUME PInv, NEW o \in Operators, NEW i \in Instances,
           \/ \E interactive, replace \in BOOLEAN : SetupBegins(o, i, interactive, replace)
           \/ \E edit \in {"unpair", "apply", "remove"} : EditBegins(o, edit, i)
    PROVE  PInv'
  <1>1. serial \in 1..MaxCommands /\ Sane(file) /\ Whole(file)
    BY DEF PInv
  <1>2. ASSUME NEW step \in {"ask", "unpair", "apply", "remove"}, NEW state,
               Sane(state), Loads(state), Cardinality(PairedIn(state)) <= MaxInstances,
               step # "ask" => Whole(state),
               NEW recover \in BOOLEAN, NEW interactive \in BOOLEAN,
               Begins(o, Command(step, state, i, recover, interactive))
        PROVE  PInv'
    <2> DEFINE c == Command(step, state, i, recover, interactive)
    <2>1. serial < MaxCommands /\ serial' = serial + 1 /\ desk' = [desk EXCEPT ![o] = c]
          /\ UNCHANGED <<crew, file, archives>>
      BY <1>2 DEF Begins
    <2>2. serial' \in 1..MaxCommands
      BY <1>1, <2>1, PairingAssumption
    <2>3. c \in Commands
      BY <1>2, <2>1, <2>2 DEF Commands, Command, Steps, Sane
    <2>4. c.step = step /\ c.state = state /\ c.target = i
      BY DEF Command
    <2> HIDE DEF c
    <2>5. Held(c)
      BY <1>2, <2>3, <2>4 DEF Held
    <2>6. /\ Sane(file') /\ Whole(file')
          /\ archives' \in [1..MaxCommands -> Contents]
          /\ \A n \in 1..MaxCommands : Sane(archives'[n]) /\ Whole(archives'[n])
      BY <2>1 DEF PInv
    <2> QED BY <2>1, <2>2, <2>5, <2>6, DeskMoves
  <1>3. ASSUME NEW interactive \in BOOLEAN, NEW replace \in BOOLEAN,
               SetupBegins(o, i, interactive, replace)
        PROVE  PInv'
    <2>1. CASE Loads(file) /\ Begins(o, Command("ask", file, i, FALSE, interactive))
      <3>1. Cardinality(PairedIn(file)) <= MaxInstances
        BY <1>1, <2>1, PairingAssumption DEF Whole
      <3> QED BY <1>1, <1>2, <2>1, <3>1
    <2>2. CASE Begins(o, Command("ask", Content("state", serial + 1, NoRows), i, file = Old, interactive))
      <3> DEFINE fresh == Content("state", serial + 1, NoRows)
      <3>1. Sane(fresh) /\ Cardinality(PairedIn(fresh)) = 0
        BY <1>1, NothingPaired DEF Kinds
      <3>2. Loads(fresh)
        BY DEF Loads, Content
      <3> HIDE DEF fresh
      <3>3. Cardinality(PairedIn(fresh)) <= MaxInstances
        BY <3>1, PairingAssumption
      <3> QED BY <1>2, <2>2, <3>1, <3>2, <3>3 DEF fresh
    <2> QED BY <1>3, <2>1, <2>2 DEF SetupBegins
  <1>4. ASSUME NEW edit \in {"unpair", "apply", "remove"}, EditBegins(o, edit, i) PROVE PInv'
    <2>1. Cardinality(PairedIn(file)) <= MaxInstances
      BY <1>1, <1>4, PairingAssumption DEF Whole, EditBegins
    <2> QED BY <1>1, <1>2, <1>4, <2>1 DEF EditBegins
  <1> QED BY <1>3, <1>4

LEMMA SetupPairsKeeps ==
    ASSUME PInv, NEW o \in Operators, SetupPairs(o)
    PROVE  PInv'
  <1> DEFINE c == desk[o]
             state == WithPairing(c.state, c.target, c.serial)
             d == [c EXCEPT !.step = "commit", !.state = state]
  <1>1. Held(c) /\ c.step = "ask" /\ Cardinality(PairedIn(c.state)) < MaxInstances
    BY HeldOne DEF SetupPairs, Idle
  <1>2. /\ c \in Commands /\ c.target \in Instances /\ c.serial \in Nat \ {0}
        /\ Sane(c.state) /\ Loads(c.state)
    BY <1>1 DEF Held, Commands
  <1> HIDE DEF state
  <1>3. /\ Sane(state) /\ Loads(state) /\ c.target \in PairedIn(state)
        /\ Cardinality(PairedIn(state)) \in 1..(Cardinality(PairedIn(c.state)) + 1)
    <2>1. state = WithPairing(c.state, c.target, c.serial)
      BY DEF state
    <2>2. /\ RowSet(c.state, state, c.target, [token |-> c.serial, camera |-> c.state.rows[c.target].camera])
          /\ PairedIn(state) = PairedIn(c.state) \cup {c.target}
          /\ Cardinality(PairedIn(state)) \in 1..(Cardinality(PairedIn(c.state)) + 1)
      BY <1>2, <2>1, PairingAdds
    <2> QED BY <1>2, <2>2 DEF Loads, RowSet
  <1>4. Cardinality(PairedIn(state)) \in 1..MaxInstances
    BY <1>1, <1>3, CountPaired, PairingAssumption
  <1>5. desk' = [desk EXCEPT ![o] = d]
    <2>1. desk \in [Operators -> {Idle} \cup Commands]
      BY DEF PInv
    <2> QED BY <2>1 DEF SetupPairs, state
  <1> HIDE DEF c
  <1>6. d \in Commands /\ d.step = "commit" /\ d.state = state /\ d.target = c.target
    <2>1. "commit" \in Steps /\ state \in Contents
      BY <1>3 DEF Steps, Sane
    <2> QED BY <1>2, <2>1 DEF Commands
  <1> HIDE DEF d
  <1>7. Held(d)
    BY <1>3, <1>4, <1>6, PairingAssumption DEF Held, Whole
  <1> QED BY <1>5, <1>7, DeskWrites DEF SetupPairs, PInv

LEMMA SetupArchivesKeeps ==
    ASSUME PInv, NEW o \in Operators, SetupArchives(o)
    PROVE  PInv'
  <1> DEFINE c == desk[o]
             d == [c EXCEPT !.step = "archived"]
  <1>1. Held(c) /\ c.step = "commit"
    BY HeldOne DEF SetupArchives, Idle
  <1>2. c \in Commands /\ c.serial \in 1..MaxCommands
    BY <1>1 DEF Held, Commands
  <1>3. desk' = [desk EXCEPT ![o] = d]
    <2>1. desk \in [Operators -> {Idle} \cup Commands]
      BY DEF PInv
    <2> QED BY <2>1 DEF SetupArchives
  <1>4. d \in Commands /\ d.step = "archived" /\ d.state = c.state /\ d.target = c.target
    BY <1>2 DEF Commands, Steps
  <1> HIDE DEF c, d
  <1>5. Held(d)
    BY <1>1, <1>4 DEF Held
  <1>6. file' = Missing /\ archives' = [archives EXCEPT ![c.serial] = file] /\ UNCHANGED <<crew, serial>>
    BY DEF SetupArchives, c
  <1>7. /\ archives' \in [1..MaxCommands -> Contents]
        /\ \A n \in 1..MaxCommands : Sane(archives'[n]) /\ Whole(archives'[n])
    BY <1>2, <1>6 DEF PInv, Sane
  <1> QED BY <1>3, <1>5, <1>6, <1>7, Unreadable, DeskMoves DEF PInv

LEMMA SetupSavesKeeps ==
    ASSUME PInv, NEW o \in Operators, SetupSaves(o)
    PROVE  PInv'
  <1> DEFINE c == desk[o]
             d == AfterPairing(c)
  <1>1. Held(c) /\ c.step \in {"archived", "commit"}
    BY HeldOne DEF SetupSaves, Idle
  <1>2. desk' = [desk EXCEPT ![o] = d] /\ file' = c.state /\ UNCHANGED <<crew, archives, serial>>
    BY DEF SetupSaves
  <1> HIDE DEF c
  <1>3. d = Idle \/ Held(d)
    <2>1. CASE ~c.interactive
      BY <2>1 DEF AfterPairing
    <2>2. CASE c.interactive
      <3>1. d = [c EXCEPT !.step = "camera"] /\ c \in Commands
        BY <1>1, <2>2 DEF AfterPairing, Held
      <3>2. d \in Commands /\ d.step = "camera" /\ d.state = c.state /\ d.target = c.target
        BY <3>1 DEF Commands, Steps
      <3> HIDE DEF d
      <3> QED BY <1>1, <3>2 DEF Held
    <2> QED BY <2>1, <2>2
  <1> HIDE DEF d
  <1>4. Sane(file') /\ Whole(file')
    BY <1>1, <1>2 DEF Held
  <1> QED BY <1>2, <1>3, <1>4, DeskWrites

LEMMA SetupRestoresKeeps ==
    ASSUME PInv, NEW o \in Operators, SetupRestores(o)
    PROVE  PInv'
  <1> DEFINE n == desk[o].serial
  <1>1. Held(desk[o])
    BY HeldOne DEF SetupRestores, Idle
  <1>2. n \in 1..MaxCommands
    BY <1>1 DEF Held, Commands
  <1>3. /\ file' = archives[n] /\ archives' = [archives EXCEPT ![n] = Missing]
        /\ desk' = [desk EXCEPT ![o] = Idle] /\ UNCHANGED <<crew, serial>>
    BY DEF SetupRestores
  <1> HIDE DEF n
  <1>4. /\ archives' \in [1..MaxCommands -> Contents]
        /\ \A m \in 1..MaxCommands : Sane(archives'[m]) /\ Whole(archives'[m])
    BY <1>2, <1>3, Unreadable DEF PInv, Sane
  <1>5. Sane(file') /\ Whole(file')
    BY <1>2, <1>3 DEF PInv
  <1> QED BY <1>3, <1>4, <1>5, DeskMoves DEF PInv

\* The commands that change one row of what they read and end.
LEMMA SavesKeep ==
    ASSUME PInv, NEW o \in Operators,
           SetupSavesCamera(o) \/ UnpairSaves(o) \/ ApplySaves(o) \/ RemoveSaves(o)
    PROVE  PInv'
  <1> DEFINE c == desk[o]
  <1>1. Held(c) /\ c.step \in {"camera", "unpair", "apply", "remove"}
    BY HeldOne DEF SetupSavesCamera, UnpairSaves, ApplySaves, RemoveSaves, Idle
  <1>2. desk' = [desk EXCEPT ![o] = Idle] /\ UNCHANGED <<crew, archives, serial>>
    BY DEF SetupSavesCamera, UnpairSaves, ApplySaves, RemoveSaves
  <1>3. /\ Sane(c.state) /\ Loads(c.state) /\ Cardinality(PairedIn(c.state)) \in 1..MaxInstances
        /\ c.target \in Instances /\ c.serial \in Nat
    BY <1>1 DEF Held, Whole, Commands
  <1>4. c.target \in PairedIn(c.state)
    <2>1. CASE RemoveSaves(o)
      BY <1>3, <2>1 DEF RemoveSaves, PairedIn, Unpaired, NoCamera
    <2>2. CASE SetupSavesCamera(o)
      BY <1>1, <2>2 DEF SetupSavesCamera, Held
    <2>3. CASE UnpairSaves(o) \/ ApplySaves(o)
      BY <2>3 DEF UnpairSaves, ApplySaves
    <2> QED BY <2>1, <2>2, <2>3
  <1>5. Sane(file') /\ Whole(file')
    <2>1. CASE file' = WithCamera(c.state, c.target, c.serial)
      <3>1. /\ RowSet(c.state, file', c.target, [token |-> c.state.rows[c.target].token, camera |-> c.serial])
            /\ PairedIn(file') = PairedIn(c.state)
        BY <1>3, <1>4, <2>1, CameraKeeps
      <3> QED BY <1>3, <3>1 DEF Whole, Loads, RowSet
    <2>2. CASE file' = WithoutCamera(c.state, c.target)
      <3>1. file' = WithCamera(c.state, c.target, 0)
        BY <2>2 DEF WithCamera, WithoutCamera, NoCamera
      <3>2. 0 \in Nat
        OBVIOUS
      <3>3. /\ RowSet(c.state, file', c.target, [token |-> c.state.rows[c.target].token, camera |-> 0])
            /\ PairedIn(file') = PairedIn(c.state)
        BY <1>3, <1>4, <3>1, <3>2, CameraKeeps
      <3> QED BY <1>3, <3>3 DEF Whole, Loads, RowSet
    <2>3. CASE file' = Missing
      BY <2>3, Unreadable
    <2>4. CASE PairedIn(WithoutPairing(c.state, c.target)) # {} /\ file' = WithoutPairing(c.state, c.target)
      <3> DEFINE rest == WithoutPairing(c.state, c.target)
      <3>1. Sane(rest) /\ Cardinality(PairedIn(rest)) <= Cardinality(PairedIn(c.state))
        BY <1>3, <1>4, UnpairingRemoves DEF RowSet
      <3>2. Cardinality(PairedIn(rest)) # 0
        BY <2>4, CountPaired, FS_EmptySet
      <3> HIDE DEF rest
      <3>3. Cardinality(PairedIn(rest)) \in 1..MaxInstances
        BY <1>3, <3>1, <3>2, CountPaired, PairingAssumption
      <3> QED BY <2>4, <3>1, <3>3 DEF Whole, rest
    <2> QED BY <2>1, <2>2, <2>3, <2>4 DEF SetupSavesCamera, UnpairSaves, ApplySaves, RemoveSaves
  <1> QED BY <1>2, <1>5, DeskWrites

LEMMA EndsKeeps ==
    ASSUME PInv, NEW o \in Operators, Ends(o)
    PROVE  PInv'
  BY DeskWrites DEF Ends, PInv

LEMMA PairingInitKeeps == PairingInit => PInv
  <1> SUFFICES ASSUME PairingInit PROVE PInv
    OBVIOUS
  <1>1. Sane(file) /\ Whole(file)
    <2>1. CASE file \in {Missing, Old, Odd}
      BY <2>1, Unreadable
    <2>2. ASSUME NEW i \in Instances, NEW n \in {NoCamera, 1},
                 file = Content("state", 0, [NoRows EXCEPT ![i] = [token |-> 1, camera |-> n]])
          PROVE  Sane(file) /\ Whole(file)
      <3>1. file.rows = [NoRows EXCEPT ![i] = [token |-> 1, camera |-> n]] /\ file.kind = "state"
            /\ file.installation = 0 /\ file \in Contents
        BY <2>2 DEF Content, Contents, NoRows, Unpaired, Kinds, NoCamera
      <3>2. Sane(file)
        BY <3>1 DEF Sane, NoRows, Unpaired
      <3>3. PairedIn(file) = {i}
        BY <3>1 DEF PairedIn, NoRows, Unpaired
      <3> QED BY <3>2, <3>3, FS_Singleton, PairingAssumption DEF Whole
    <2> QED BY <2>1, <2>2 DEF PairingInit
  <1>2. /\ archives \in [1..MaxCommands -> Contents]
        /\ \A n \in 1..MaxCommands : Sane(archives[n]) /\ Whole(archives[n])
    BY Unreadable DEF PairingInit, Sane
  <1> QED BY <1>1, <1>2, PairingAssumption DEF PairingInit, PInv

\* One step for each command; the rest of the installation changes no file.
LEMMA PairingStep == PInv /\ [InstallationNext]_installationVars => PInv'
  <1> SUFFICES ASSUME PInv, [InstallationNext]_installationVars PROVE PInv'
    OBVIOUS
  <1>1. ASSUME NEW o \in crew, CommandStep(o) PROVE PInv'
    <2>1. o \in Operators
      BY DEF PInv
    <2>2. CASE Ends(o)
      BY <2>1, <2>2, EndsKeeps
    <2> QED BY <1>1, <2>1, <2>2, BeginsKeeps, SetupPairsKeeps, SetupArchivesKeeps, SetupSavesKeeps,
               SetupRestoresKeeps, SavesKeep
            DEF CommandStep, InputRefused, PreflightFails, PairingRefused, CameraRefused, SaveFails,
                Interrupted
  <1>2. CASE UNCHANGED <<crew, file, archives, desk, serial>>
    BY <1>2 DEF PInv
  <1>3. CASE UNCHANGED pairingVars
    BY <1>2, <1>3 DEF pairingVars
  <1> QED BY <1>1, <1>2, <1>3
          DEF InstallationNext, ServiceStarts, StopAsked, ServiceStep, ConsoleStep, RunStep, RunLocks,
              RunBoots, RunFindsNothing, RunReloads, RunStops, RunEnds, Records, StoreTouched,
              LoggingStarts, StopPending, SuperviseTop, RunReturned, Retries, ServiceEnds, Killed,
              installationVars

\* Whatever commands of however many operators read, write, fail and are killed at once,
\* a file they leave holds at least one pairing and not too many: the next command and
\* the next run can load it.
THEOREM FilesLoad == InstallationSpec => []WrittenFileLoads
  <1>1. InstallationInit => PInv
    BY PairingInitKeeps DEF InstallationInit
  <1>2. PInv => WrittenFileLoads
    BY DEF PInv, Whole, WrittenFileLoads
  <1> QED BY <1>1, <1>2, PairingStep, PTL DEF InstallationSpec

-----------------------------------------------------------------------------
(***************************************************************************)
(* One operator.  What the command holds then still agrees with the file:  *)
(* nobody else has changed it since it was read.                           *)
(***************************************************************************)
Alone == Cardinality(crew) = 1

Below(f, n) == \A i \in Instances : f.rows[i].token < n /\ f.rows[i].camera < n

\* The rows once c has paired its instance.
PairedRows(rows, c) ==
    [rows EXCEPT ![c.target] = [token |-> c.serial, camera |-> rows[c.target].camera]]

Tidy(c, f, kept, n) ==
    /\ c.serial \in 1..n
    /\ c.step \in {"ask", "commit"} => (c.recover <=> f = Old)
    /\ c.step # "camera" => Below(f, c.serial)
    /\ c.step = "ask" => c.state.rows = f.rows
    /\ c.step = "commit" => /\ c.state.rows = PairedRows(f.rows, c)
                            /\ Cardinality(PairedIn(f)) < MaxInstances
    /\ c.step = "archived" => /\ f = Missing /\ kept[c.serial] = Old
                              /\ c.state.rows = PairedRows(NoRows, c)
    /\ c.step = "camera" => f = c.state /\ f.rows[c.target].camera < c.serial
    /\ c.step \in {"unpair", "apply", "remove"} => f = c.state

SInv ==
    Alone => /\ Below(file, serial + 1)
             /\ \A o \in crew : desk[o] # Idle => Tidy(desk[o], file, archives, serial)

-----------------------------------------------------------------------------
(***************************************************************************)
(* What a step of the operator may do: change one row to something newer,  *)
(* or none, and never lose the file of another version.                    *)
(***************************************************************************)
RowChanged(i, old, new) ==
    \/ /\ Cardinality(PairedIn(file)) < MaxInstances
       /\ \E t \in 1..MaxCommands : t > old[i].token
             /\ new = [old EXCEPT ![i] = [token |-> t, camera |-> old[i].camera]]
    \/ /\ i \in PairedIn(file)
       /\ \/ \E c \in 1..MaxCommands : c > old[i].camera
               /\ new = [old EXCEPT ![i] = [token |-> old[i].token, camera |-> c]]
          \/ new = [old EXCEPT ![i] = [token |-> old[i].token, camera |-> NoCamera]]
          \/ new = [old EXCEPT ![i] = Unpaired]

OneRow == file'.rows = file.rows \/ \E i \in Instances : RowChanged(i, file.rows, file'.rows)

Solo == SInv' /\ (OldFileHeld => OldFileHeld') /\ OneRow

LEMMA CrewOfOne == ASSUME PInv, Alone, NEW o \in crew PROVE crew = {o} /\ o \in Operators
  <1>1. IsFiniteSet(crew)
    BY PairingAssumption, FS_Subset DEF PInv
  <1>2. PICK x : crew = {x}
    BY <1>1, FS_Singleton DEF Alone
  <1> QED BY <1>2 DEF PInv

\* The operator's command goes on as c, or is over.
LEMMA SoloMoves ==
    ASSUME PInv, Alone, NEW o \in crew, NEW c, desk' = [desk EXCEPT ![o] = c], crew' = crew,
           c = Idle \/ Tidy(c, file', archives', serial'), Below(file', serial' + 1)
    PROVE  SInv'
  <1>1. crew = {o} /\ desk'[o] = c
    BY CrewOfOne DEF PInv
  <1>2. \A p \in crew' : desk'[p] # Idle => Tidy(desk'[p], file', archives', serial')
    BY <1>1
  <1>3. Below(file, serial + 1)' /\ \A p \in crew' : (desk[p] # Idle => Tidy(desk[p], file, archives, serial))'
    BY <1>2 DEF Below, Tidy, PairedRows, Loads, PairedIn
  <1> QED BY <1>3 DEF SInv

LEMMA HeldTidy ==
    ASSUME PInv, SInv, Alone, NEW o \in crew, desk[o] # Idle
    PROVE  /\ Held(desk[o]) /\ Tidy(desk[o], file, archives, serial)
           /\ o \in Operators /\ Below(file, serial + 1) /\ serial \in 1..MaxCommands
  BY HeldOne, CrewOfOne DEF SInv, PInv

\* A command that is over, with the file as it was.
LEMMA SoloEnds ==
    ASSUME PInv, SInv, Alone, NEW o \in crew, Ends(o)
    PROVE  Solo
  <1>1. Below(file', serial' + 1) /\ UNCHANGED <<crew, file, archives>> /\ desk' = [desk EXCEPT ![o] = Idle]
    BY DEF Ends, SInv
  <1>2. SInv'
    BY <1>1, SoloMoves
  <1>3. OldFileHeld => OldFileHeld'
    BY <1>1 DEF OldFileHeld
  <1> QED BY <1>1, <1>2, <1>3 DEF Solo, OneRow

LEMMA NoRowsBelow == \A n \in Nat \ {0}, f \in {Missing, Old} : Below(f, n)
  BY Unreadable DEF Below, NoRows, Unpaired

LEMMA BelowMore ==
    ASSUME NEW f, Sane(f), NEW n \in Nat, NEW m \in Nat, n <= m, Below(f, n)
    PROVE  Below(f, m)
  <1>1. \A i \in Instances : f.rows[i].token \in Nat /\ f.rows[i].camera \in Nat
    BY DEF Sane, Contents
  <1> QED BY <1>1 DEF Below

LEMMA SoloBegins ==
    ASSUME PInv, SInv, Alone, NEW o \in crew, NEW i \in Instances,
           \/ \E interactive, replace \in BOOLEAN : SetupBegins(o, i, interactive, replace)
           \/ \E edit \in {"unpair", "apply", "remove"} : EditBegins(o, edit, i)
    PROVE  Solo
  <1>1. serial \in 1..MaxCommands /\ Below(file, serial + 1)
    BY DEF PInv, SInv
  <1>2. ASSUME NEW step \in {"ask", "unpair", "apply", "remove"}, NEW state, NEW recover, NEW interactive,
               step = "ask" => (recover <=> file = Old) /\ state.rows = file.rows,
               step # "ask" => state = file,
               Begins(o, Command(step, state, i, recover, interactive))
        PROVE  Solo
    <2> DEFINE c == Command(step, state, i, recover, interactive)
    <2>1. serial' = serial + 1 /\ desk' = [desk EXCEPT ![o] = c] /\ UNCHANGED <<crew, file, archives>>
      BY <1>2 DEF Begins
    <2>2. c.step = step /\ c.state = state /\ c.recover = recover /\ c.serial = serial + 1
      BY DEF Command
    <2> HIDE DEF c
    <2>3. Below(file', c.serial) /\ Below(file', serial' + 1) /\ c.serial \in 1..serial'
      <3>1. Sane(file) /\ file' = file
        BY <2>1 DEF PInv
      <3>2. /\ serial + 1 \in Nat /\ serial' + 1 \in Nat /\ serial + 1 <= serial' + 1
            /\ c.serial = serial + 1 /\ c.serial \in 1..serial'
        BY <1>1, <2>1, <2>2, PairingAssumption
      <3> HIDE DEF Below
      <3> QED BY <1>1, <3>1, <3>2, BelowMore
    <2>4. Tidy(c, file', archives', serial')
      BY <1>2, <2>1, <2>2, <2>3 DEF Tidy
    <2>5. SInv'
      BY <2>1, <2>3, <2>4, SoloMoves
    <2> QED BY <2>1, <2>5 DEF Solo, OneRow, OldFileHeld
  <1>3. ASSUME NEW interactive \in BOOLEAN, NEW replace \in BOOLEAN,
               SetupBegins(o, i, interactive, replace)
        PROVE  Solo
    <2>1. CASE Loads(file) /\ Begins(o, Command("ask", file, i, FALSE, interactive))
      <3>1. file # Old
        BY <2>1, Unreadable
      <3> QED BY <1>2, <2>1, <3>1
    <2>2. CASE /\ file \in {Missing, Old}
               /\ Begins(o, Command("ask", Content("state", serial + 1, NoRows), i, file = Old, interactive))
      <3>1. Content("state", serial + 1, NoRows).rows = file.rows
        BY <2>2, Unreadable DEF Content
      <3> QED BY <1>2, <2>2, <3>1
    <2> QED BY <1>3, <2>1, <2>2 DEF SetupBegins
  <1>4. ASSUME NEW edit \in {"unpair", "apply", "remove"}, EditBegins(o, edit, i) PROVE Solo
    BY <1>2, <1>4 DEF EditBegins
  <1> QED BY <1>3, <1>4

LEMMA SoloPairs ==
    ASSUME PInv, SInv, Alone, NEW o \in crew, SetupPairs(o)
    PROVE  Solo
  <1> DEFINE c == desk[o]
             state == WithPairing(c.state, c.target, c.serial)
             d == [c EXCEPT !.step = "commit", !.state = state]
  <1>1. /\ Held(c) /\ Tidy(c, file, archives, serial) /\ o \in Operators /\ Below(file, serial + 1)
        /\ c.step = "ask" /\ Cardinality(PairedIn(c.state)) < MaxInstances
    BY HeldTidy DEF SetupPairs, Idle
  <1>2. /\ c \in Commands /\ c.target \in Instances /\ c.serial \in Nat \ {0}
        /\ Sane(c.state) /\ Loads(c.state) /\ c.state.rows = file.rows
    BY <1>1 DEF Held, Commands, Tidy
  <1>3. desk' = [desk EXCEPT ![o] = d] /\ UNCHANGED <<crew, file, archives, serial>>
    <2>1. desk \in [Operators -> {Idle} \cup Commands]
      BY DEF PInv
    <2> QED BY <2>1 DEF SetupPairs
  <1> HIDE DEF state
  <1>4. state \in Contents /\ state.rows = PairedRows(file.rows, c)
    <2>1. state = WithPairing(c.state, c.target, c.serial)
      BY DEF state
    <2>2. RowSet(c.state, state, c.target, [token |-> c.serial, camera |-> c.state.rows[c.target].camera])
      BY <1>2, <2>1, PairingAdds
    <2> QED BY <1>2, <2>2 DEF RowSet, Sane, PairedRows
  <1> HIDE DEF c
  <1>5. /\ d.step = "commit" /\ d.state = state /\ d.target = c.target /\ d.serial = c.serial
        /\ d.recover = c.recover
    BY <1>2, <1>4 DEF Commands
  <1> HIDE DEF d
  <1>6. Cardinality(PairedIn(file)) < MaxInstances
    BY <1>1, <1>2 DEF PairedIn
  <1>7. Tidy(d, file, archives, serial)
    BY <1>1, <1>4, <1>5, <1>6 DEF Tidy, PairedRows
  <1>8. SInv'
    BY <1>1, <1>3, <1>7, SoloMoves
  <1> QED BY <1>3, <1>8 DEF Solo, OneRow, OldFileHeld

LEMMA SoloArchives ==
    ASSUME PInv, SInv, Alone, NEW o \in crew, SetupArchives(o)
    PROVE  Solo
  <1> DEFINE c == desk[o]
             d == [c EXCEPT !.step = "archived"]
  <1>1. /\ Held(c) /\ Tidy(c, file, archives, serial) /\ o \in Operators /\ serial \in 1..MaxCommands
        /\ c.step = "commit" /\ c.recover
    BY HeldTidy DEF SetupArchives, Idle
  <1>2. c \in Commands /\ c.serial \in 1..MaxCommands /\ file = Old /\ c.state.rows = PairedRows(file.rows, c)
    BY <1>1 DEF Held, Commands, Tidy
  <1>3. desk' = [desk EXCEPT ![o] = d]
    <2>1. desk \in [Operators -> {Idle} \cup Commands]
      BY DEF PInv
    <2> QED BY <2>1 DEF SetupArchives
  <1> HIDE DEF c
  <1>4. /\ d.step = "archived" /\ d.state = c.state /\ d.target = c.target /\ d.serial = c.serial
        /\ d.recover = c.recover
    BY <1>2 DEF Commands
  <1> HIDE DEF d
  <1>5. file' = Missing /\ archives' = [archives EXCEPT ![c.serial] = file] /\ UNCHANGED <<crew, serial>>
    BY DEF SetupArchives, c
  <1>6. archives'[c.serial] = Old
    BY <1>2, <1>5 DEF PInv
  <1>7. file.rows = NoRows /\ file'.rows = NoRows
    BY <1>2, <1>5, Unreadable
  <1>8. Below(file', c.serial) /\ Below(file', serial' + 1)
    BY <1>1, <1>2, <1>5, NoRowsBelow, PairingAssumption
  <1>9. Tidy(d, file', archives', serial')
    BY <1>1, <1>2, <1>4, <1>5, <1>6, <1>7, <1>8 DEF Tidy, PairedRows
  <1>10. SInv'
    BY <1>3, <1>5, <1>8, <1>9, SoloMoves
  <1>11. OldFileHeld'
    BY <1>2, <1>6 DEF OldFileHeld
  <1> QED BY <1>7, <1>10, <1>11 DEF Solo, OneRow

LEMMA BelowSet ==
    ASSUME NEW f, NEW g, Sane(f), NEW i \in Instances, NEW n, Below(f, n),
           NEW r, r.token < n, r.camera < n, g.rows = [f.rows EXCEPT ![i] = r]
    PROVE  Below(g, n)
  <1>1. f.rows \in [Instances -> [token : Nat, camera : Nat]]
    BY DEF Sane, Contents
  <1>2. \A j \in Instances : g.rows[j] = IF j = i THEN r ELSE f.rows[j]
    BY <1>1
  <1> QED BY <1>2 DEF Below

LEMMA SoloSaves ==
    ASSUME PInv, SInv, Alone, NEW o \in crew, SetupSaves(o)
    PROVE  Solo
  <1> DEFINE c == desk[o]
             d == AfterPairing(c)
             row == [token |-> c.serial, camera |-> file.rows[c.target].camera]
  <1>1. /\ Held(c) /\ Tidy(c, file, archives, serial) /\ o \in Operators /\ serial \in 1..MaxCommands
        /\ c.step = "archived" \/ (c.step = "commit" /\ ~c.recover)
    BY HeldTidy DEF SetupSaves, Idle
  <1>2. /\ desk' = [desk EXCEPT ![o] = d] /\ file' = c.state /\ UNCHANGED <<crew, archives, serial>>
    BY DEF SetupSaves
  <1> HIDE DEF c
  <1>3. /\ c \in Commands /\ c.target \in Instances /\ c.serial \in 1..serial
        /\ c.serial \in 1..MaxCommands /\ Sane(c.state) /\ Below(file, c.serial)
    BY <1>1 DEF Held, Commands, Tidy
  <1>4. file'.rows = [file.rows EXCEPT ![c.target] = row] /\ Cardinality(PairedIn(file)) < MaxInstances
    <2>1. CASE c.step = "commit"
      BY <1>1, <1>2, <2>1 DEF Tidy, PairedRows
    <2>2. CASE c.step = "archived"
      <3>1. file.rows = NoRows /\ file = Missing
        BY <1>1, <2>2, Unreadable DEF Tidy
      <3>2. Cardinality(PairedIn(file)) = 0
        <4>1. PairedIn(file) = {}
          BY <3>1 DEF PairedIn, NoRows
        <4> QED BY <4>1, FS_EmptySet
      <3>3. c.state.rows = PairedRows(NoRows, c)
        BY <1>1, <2>2 DEF Tidy
      <3> QED BY <1>2, <3>1, <3>2, <3>3, PairingAssumption DEF PairedRows
    <2> QED BY <1>1, <2>1, <2>2
  <1>5. /\ file.rows \in [Instances -> [token : Nat, camera : Nat]] /\ Sane(file)
        /\ file.rows[c.target].token < c.serial /\ file.rows[c.target].camera < c.serial
    BY <1>3 DEF PInv, Sane, Contents, Below
  <1>6. row.token = c.serial /\ row.camera = file.rows[c.target].camera
    OBVIOUS
  <1>7. file'.rows[c.target] = row
    BY <1>3, <1>4, <1>5
  <1>8. Below(file', serial' + 1)
    <2>1. row.token < serial + 1 /\ row.camera < serial + 1 /\ serial' = serial
      <3>1. file.rows[c.target].camera \in Nat
        BY <1>3, <1>5
      <3> QED BY <1>1, <1>2, <1>3, <1>5, <1>6, <3>1
    <2>2. Below(file, serial + 1)
      BY DEF SInv
    <2> HIDE DEF row
    <2> QED BY <1>3, <1>4, <1>5, <2>1, <2>2, BelowSet
  <1>9. d = Idle \/ Tidy(d, file', archives', serial')
    <2>1. CASE ~c.interactive
      BY <2>1 DEF AfterPairing
    <2>2. CASE c.interactive
      <3>1. d = [c EXCEPT !.step = "camera"]
        BY <2>2 DEF AfterPairing
      <3>2. d.step = "camera" /\ d.state = c.state /\ d.target = c.target /\ d.serial = c.serial
        BY <1>3, <3>1 DEF Commands
      <3>3. file'.rows[c.target].camera < c.serial
        BY <1>5, <1>6, <1>7
      <3> HIDE DEF d, row
      <3> QED BY <1>2, <1>3, <3>2, <3>3 DEF Tidy
    <2> QED BY <2>1, <2>2
  <1>10. SInv'
    <2> HIDE DEF d, row
    <2> QED BY <1>2, <1>8, <1>9, SoloMoves
  <1>11. OldFileHeld => OldFileHeld'
    <2>1. CASE c.step = "commit"
      BY <1>1, <1>2, <2>1 DEF Tidy, OldFileHeld
    <2>2. CASE c.step = "archived"
      BY <1>1, <1>2, <1>3, <2>2 DEF Tidy, OldFileHeld
    <2> QED BY <1>1, <2>1, <2>2
  <1>12. RowChanged(c.target, file.rows, file'.rows)
    BY <1>3, <1>4, <1>5 DEF RowChanged
  <1> QED BY <1>3, <1>10, <1>11, <1>12 DEF Solo, OneRow

LEMMA SoloRestores ==
    ASSUME PInv, SInv, Alone, NEW o \in crew, SetupRestores(o)
    PROVE  Solo
  <1> DEFINE c == desk[o]
  <1>1. Tidy(c, file, archives, serial) /\ c.step = "archived" /\ serial \in 1..MaxCommands
    BY HeldTidy DEF SetupRestores, Idle
  <1>2. file' = Old /\ file = Missing
    BY <1>1 DEF Tidy, SetupRestores
  <1>3. desk' = [desk EXCEPT ![o] = Idle] /\ UNCHANGED <<crew, serial>>
    BY DEF SetupRestores
  <1>4. Below(file', serial' + 1) /\ file'.rows = file.rows
    BY <1>1, <1>2, <1>3, Unreadable, NoRowsBelow
  <1>5. SInv'
    BY <1>3, <1>4, SoloMoves
  <1> QED BY <1>2, <1>4, <1>5 DEF Solo, OneRow, OldFileHeld

LEMMA SoloEdits ==
    ASSUME PInv, SInv, Alone, NEW o \in crew,
           SetupSavesCamera(o) \/ UnpairSaves(o) \/ ApplySaves(o) \/ RemoveSaves(o)
    PROVE  Solo
  <1> DEFINE c == desk[o]
  <1>1. /\ Held(c) /\ Tidy(c, file, archives, serial) /\ o \in Operators /\ serial \in 1..MaxCommands
        /\ c.step \in {"camera", "unpair", "apply", "remove"}
    BY HeldTidy DEF SetupSavesCamera, UnpairSaves, ApplySaves, RemoveSaves, Idle
  <1>2. desk' = [desk EXCEPT ![o] = Idle] /\ UNCHANGED <<crew, archives, serial>>
    BY DEF SetupSavesCamera, UnpairSaves, ApplySaves, RemoveSaves
  <1>3. /\ c.target \in Instances /\ c.serial \in 1..serial /\ c.serial \in 1..MaxCommands
        /\ file = c.state /\ Sane(file) /\ Loads(file)
    BY <1>1 DEF Held, Commands, Tidy
  <1>4. c.target \in PairedIn(file)
    <2>1. CASE RemoveSaves(o)
      BY <1>3, <2>1 DEF RemoveSaves, PairedIn, Unpaired, NoCamera
    <2>2. CASE SetupSavesCamera(o)
      BY <1>1, <1>3, <2>2 DEF SetupSavesCamera, Held
    <2>3. CASE UnpairSaves(o) \/ ApplySaves(o)
      BY <1>3, <2>3 DEF UnpairSaves, ApplySaves
    <2> QED BY <2>1, <2>2, <2>3
  <1>5. file.rows[c.target].camera < c.serial
    BY <1>1, <1>3 DEF Tidy, Below
  <1> DEFINE old == file.rows[c.target]
  <1>6. \E r : /\ file'.rows = [file.rows EXCEPT ![c.target] = r]
               /\ \/ r = [token |-> old.token, camera |-> c.serial]
                  \/ r = [token |-> old.token, camera |-> NoCamera]
                  \/ r = Unpaired
    <2>1. CASE file' = WithCamera(c.state, c.target, c.serial)
      <3>1. c.serial \in Nat
        BY <1>3
      <3>2. RowSet(file, file', c.target, [token |-> old.token, camera |-> c.serial])
        BY <1>3, <1>4, <2>1, <3>1, CameraKeeps
      <3> QED BY <3>2 DEF RowSet
    <2>2. CASE file' = WithoutCamera(c.state, c.target)
      <3>1. file' = WithCamera(c.state, c.target, NoCamera)
        BY <2>2 DEF WithCamera, WithoutCamera
      <3>2. NoCamera \in Nat
        BY DEF NoCamera
      <3>3. RowSet(file, file', c.target, [token |-> old.token, camera |-> NoCamera])
        BY <1>3, <1>4, <3>1, <3>2, CameraKeeps
      <3> QED BY <3>3 DEF RowSet
    <2>3. CASE UnpairSaves(o)
      <3> DEFINE rest == WithoutPairing(c.state, c.target)
      <3>1. RowSet(file, rest, c.target, Unpaired)
        BY <1>3, <1>4, UnpairingRemoves
      <3>2. file' = rest \/ (file' = Missing /\ PairedIn(rest) = {})
        BY <2>3 DEF UnpairSaves
      <3> HIDE DEF rest
      <3>3. CASE file' = Missing /\ PairedIn(rest) = {}
        <4>1. rest.rows \in [Instances -> [token : Nat, camera : Nat]]
          BY <3>1 DEF RowSet, Sane, Contents
        <4>2. \A i \in Instances : rest.rows[i] = Unpaired
          BY <3>3 DEF PairedIn
        <4>3. rest.rows = NoRows
          BY <4>1, <4>2 DEF NoRows
        <4> QED BY <3>1, <3>3, <4>3, Unreadable DEF RowSet
      <3> QED BY <3>1, <3>2, <3>3 DEF RowSet
    <2> QED BY <2>1, <2>2, <2>3 DEF SetupSavesCamera, ApplySaves, RemoveSaves
  <1>7. PICK r : /\ file'.rows = [file.rows EXCEPT ![c.target] = r]
                 /\ \/ r = [token |-> old.token, camera |-> c.serial]
                    \/ r = [token |-> old.token, camera |-> NoCamera]
                    \/ r = Unpaired
    BY <1>6
  <1>8. Below(file', serial' + 1)
    <2>1. Below(file, serial + 1) /\ serial' = serial
      BY <1>2 DEF SInv
    <2>2. old.token \in Nat /\ old.token < serial + 1
      BY <1>3, <2>1 DEF Below, Sane, Contents
    <2> HIDE DEF old, c
    <2>3. r.token < serial + 1 /\ r.camera < serial + 1
      BY <1>1, <1>3, <1>7, <2>2 DEF NoCamera, Unpaired
    <2> QED BY <1>3, <1>7, <2>1, <2>3, BelowSet
  <1>9. SInv'
    BY <1>2, <1>8, SoloMoves
  <1>10. OldFileHeld => OldFileHeld'
    BY <1>2, <1>3, Unreadable DEF OldFileHeld
  <1>11. RowChanged(c.target, file.rows, file'.rows)
    BY <1>3, <1>4, <1>5, <1>7 DEF RowChanged
  <1> QED BY <1>3, <1>9, <1>10, <1>11 DEF Solo, OneRow

\* One step for each command of the operator.
LEMMA SoloStep ==
    ASSUME PInv, SInv, Alone, [InstallationNext]_installationVars
    PROVE  Solo
  <1>1. ASSUME NEW o \in crew, CommandStep(o) PROVE Solo
    <2>1. CASE Ends(o)
      BY <2>1, SoloEnds
    <2> QED BY <1>1, <2>1, SoloBegins, SoloPairs, SoloArchives, SoloSaves, SoloRestores, SoloEdits
            DEF CommandStep, InputRefused, PreflightFails, PairingRefused, CameraRefused, SaveFails,
                Interrupted
  <1>2. CASE UNCHANGED <<crew, file, archives, desk, serial>>
    <2>1. SInv'
      BY <1>2 DEF SInv, Alone
    <2> QED BY <1>2, <2>1 DEF Solo, OneRow, OldFileHeld
  <1>3. CASE UNCHANGED pairingVars
    BY <1>2, <1>3 DEF pairingVars
  <1> QED BY <1>1, <1>2, <1>3
          DEF InstallationNext, ServiceStarts, StopAsked, ServiceStep, ConsoleStep, RunStep, RunLocks,
              RunBoots, RunFindsNothing, RunReloads, RunStops, RunEnds, Records, StoreTouched,
              LoggingStarts, StopPending, SuperviseTop, RunReturned, Retries, ServiceEnds, Killed,
              installationVars

LEMMA CrewStays == [InstallationNext]_installationVars => crew' = crew
  <1>1. ASSUME NEW o \in crew, CommandStep(o) PROVE crew' = crew
    <2>1. CASE Ends(o)
      BY <2>1 DEF Ends
    <2> QED BY <1>1, <2>1
            DEF CommandStep, SetupBegins, EditBegins, Begins, SetupPairs, SetupArchives, SetupSaves,
                SetupRestores, SetupSavesCamera, UnpairSaves, ApplySaves, RemoveSaves, InputRefused,
                PreflightFails, PairingRefused, CameraRefused, SaveFails, Interrupted
  <1>2. CASE UNCHANGED pairingVars
    BY <1>2 DEF pairingVars
  <1> QED BY <1>1, <1>2
          DEF InstallationNext, ServiceStarts, StopAsked, ServiceStep, ConsoleStep, RunStep, RunLocks,
              RunBoots, RunFindsNothing, RunReloads, RunStops, RunEnds, Records, StoreTouched,
              LoggingStarts, StopPending, SuperviseTop, RunReturned, Retries, ServiceEnds, Killed,
              installationVars

LEMMA SoloInit == InstallationInit => SInv
  <1> SUFFICES ASSUME PairingInit PROVE SInv
    BY DEF InstallationInit
  <1>1. serial = 1 /\ \A o \in crew : desk[o] = Idle
    BY DEF PairingInit
  <1>2. Below(file, 2)
    <2>1. CASE file \in {Missing, Old, Odd}
      BY <2>1, Unreadable DEF Below, NoRows, Unpaired
    <2>2. CASE \E i \in Instances, c \in {NoCamera, 1} :
                  file = Content("state", 0, [NoRows EXCEPT ![i] = [token |-> 1, camera |-> c]])
      BY <2>2 DEF Below, Content, NoRows, Unpaired, NoCamera
    <2> QED BY <2>1, <2>2 DEF PairingInit
  <1> QED BY <1>1, <1>2 DEF SInv

LEMMA SoloInvariant == InstallationSpec => [](PInv /\ SInv)
  <1>1. InstallationInit => PInv /\ SInv
    BY PairingInitKeeps, SoloInit DEF InstallationInit
  <1>2. PInv /\ SInv /\ [InstallationNext]_installationVars => SInv'
    <2> SUFFICES ASSUME PInv, SInv, [InstallationNext]_installationVars PROVE SInv'
      OBVIOUS
    <2>1. CASE Alone
      BY <2>1, SoloStep DEF Solo
    <2>2. CASE ~Alone
      BY <2>2, CrewStays DEF SInv, Alone
    <2> QED BY <2>1, <2>2
  <1> QED BY <1>1, <1>2, PairingStep, PTL DEF InstallationSpec

\* An operator who works alone never loses the file of another version, wherever setup
\* with --replace is interrupted: it is at its path or in an archive.
THEOREM OldFileSurvives == InstallationSpec => IncompatibleKept
  <1>1. PInv /\ SInv /\ [InstallationNext]_installationVars
        => [Cardinality(crew) = 1 /\ OldFileHeld => OldFileHeld']_pairingVars
    BY SoloStep DEF Solo, Alone
  <1> QED BY <1>1, SoloInvariant, PTL DEF InstallationSpec, IncompatibleKept

-----------------------------------------------------------------------------
(***************************************************************************)
(* The refinement.  The table of pairings is the rows of the file.         *)
(***************************************************************************)
TableOf == IF Cardinality(crew) = 1 THEN file.rows ELSE NoRows

\* The registry counts as the files do.
LEMMA SameCount == ASSUME NEW S PROVE Registry!Cardinality(S) = Cardinality(S)
  BY DEF Registry!Cardinality, Cardinality

LEMMA RegistryStarts == InstallationInit => Registry!Init
  <1> SUFFICES ASSUME PairingInit PROVE Registry!Init
    BY DEF InstallationInit
  <1>1. MaxCommands \in Nat \ {0} /\ MaxInstances \in Nat \ {0}
    BY PairingAssumption
  <1>2. TableOf = NoRows
        \/ \E i \in Instances, c \in {NoCamera, 1} :
              TableOf = [NoRows EXCEPT ![i] = [token |-> 1, camera |-> c]]
    <2>1. CASE file \in {Missing, Old, Odd}
      BY <2>1, Unreadable DEF TableOf
    <2>2. ASSUME NEW i \in Instances, NEW c \in {NoCamera, 1},
                 file = Content("state", 0, [NoRows EXCEPT ![i] = [token |-> 1, camera |-> c]])
          PROVE  file.rows = [NoRows EXCEPT ![i] = [token |-> 1, camera |-> c]]
      BY <2>2 DEF Content
    <2> QED BY <2>1, <2>2 DEF PairingInit, TableOf
  <1> DEFINE Rows == [token : 0..MaxCommands, camera : 0..MaxCommands]
             paired == {i \in Instances : TableOf[i] # Unpaired}
  <1>3. Unpaired \in Rows /\ \A c \in {NoCamera, 1} : [token |-> 1, camera |-> c] \in Rows
    BY <1>1 DEF Unpaired, NoCamera
  <1>4. TableOf \in [Instances -> Rows]
    <2> HIDE DEF Rows
    <2> QED BY <1>2, <1>3 DEF NoRows
  <1>5. \A i \in Instances : TableOf[i].token = 0 => TableOf[i] = Unpaired
    BY <1>2 DEF NoRows, Unpaired
  <1>6. Cardinality(paired) <= MaxInstances
    <2>1. paired = {} \/ \E i \in Instances : paired = {i}
      <3>1. CASE TableOf = NoRows
        BY <3>1 DEF NoRows
      <3>2. ASSUME NEW i \in Instances, NEW c \in {NoCamera, 1},
                   TableOf = [NoRows EXCEPT ![i] = [token |-> 1, camera |-> c]]
            PROVE  paired = {i}
        BY <3>2 DEF NoRows, Unpaired
      <3> QED BY <1>2, <3>1, <3>2
    <2> HIDE DEF paired
    <2>2. Cardinality(paired) = 0 \/ Cardinality(paired) = 1
      BY <2>1, FS_EmptySet, FS_Singleton
    <2> QED BY <1>1, <2>2
  <1>7. Registry!Rows = Rows /\ Registry!Paired = paired /\ Registry!Unpaired = Unpaired
    BY DEF Registry!Rows, Registry!Paired, Registry!Unpaired, Unpaired, TableOf
  <1> HIDE DEF Rows, paired
  <1> QED BY <1>4, <1>5, <1>6, <1>7, SameCount DEF Registry!Init, TableOf

\* A change of one row is a step of the registry.
LEMMA RegistryRow ==
    ASSUME PInv, Alone, crew' = crew, NEW i \in Instances, RowChanged(i, file.rows, file'.rows)
    PROVE  Registry!Next
  <1>1. TableOf = file.rows /\ TableOf' = file'.rows
    BY DEF Alone, TableOf
  <1>2. Registry!Paired = PairedIn(file)
    BY <1>1 DEF Registry!Paired, Registry!Unpaired, Unpaired, PairedIn, TableOf
  <1>3. file.rows \in [Instances -> [token : Nat, camera : Nat]]
    BY DEF PInv, Sane, Contents
  <1>4. file.rows[i] \in [token : Nat, camera : Nat]
    BY <1>3
  <1>5. CASE /\ Cardinality(PairedIn(file)) < MaxInstances
             /\ \E t \in 1..MaxCommands : t > file.rows[i].token
                   /\ file'.rows = [file.rows EXCEPT
                                       ![i] = [token |-> t, camera |-> file.rows[i].camera]]
    <2>1. PICK t \in 1..MaxCommands :
              t > file.rows[i].token
              /\ file'.rows = [file.rows EXCEPT
                                  ![i] = [token |-> t, camera |-> file.rows[i].camera]]
      BY <1>5
    <2>2. file'.rows = [file.rows EXCEPT ![i].token = t]
      BY <1>3, <1>4, <2>1
    <2>3. Registry!Pair(i)
      <3>1. Registry!Cardinality(Registry!Paired) < MaxInstances
        BY <1>2, <1>5, SameCount
      <3> QED BY <1>1, <2>1, <2>2, <3>1 DEF Registry!Pair, TableOf
    <2> QED BY <2>3 DEF Registry!Next
  <1>6. ASSUME i \in PairedIn(file), NEW c \in 0..MaxCommands, c > file.rows[i].camera \/ c = NoCamera,
               file'.rows = [file.rows EXCEPT ![i] = [token |-> file.rows[i].token, camera |-> c]]
        PROVE  Registry!Next
    <2>1. file'.rows = [file.rows EXCEPT ![i].camera = c]
      BY <1>3, <1>4, <1>6
    <2>2. CASE c = NoCamera
      <3>1. Registry!RemoveCamera(i)
        BY <1>1, <1>2, <1>6, <2>1, <2>2
           DEF Registry!RemoveCamera, Registry!NoCamera, NoCamera, TableOf
      <3> QED BY <3>1 DEF Registry!Next
    <2>3. CASE c # NoCamera
      <3>1. c \in 1..MaxCommands /\ c > file.rows[i].camera
        BY <1>6, <2>3 DEF NoCamera
      <3>2. Registry!Configure(i)
        BY <1>1, <1>2, <1>6, <2>1, <3>1 DEF Registry!Configure, TableOf
      <3> QED BY <3>2 DEF Registry!Next
    <2> QED BY <2>2, <2>3
  <1>7. CASE i \in PairedIn(file) /\ file'.rows = [file.rows EXCEPT ![i] = Unpaired]
    <2>1. Registry!Unpair(i)
      BY <1>1, <1>2, <1>7 DEF Registry!Unpair, Registry!Unpaired, Unpaired, TableOf
    <2> QED BY <2>1 DEF Registry!Next
  <1>8. CASE i \in PairedIn(file)
             /\ \E c \in 1..MaxCommands : c > file.rows[i].camera
                   /\ file'.rows = [file.rows EXCEPT
                                       ![i] = [token |-> file.rows[i].token, camera |-> c]]
    <2>1. 1..MaxCommands \subseteq 0..MaxCommands
      BY PairingAssumption
    <2> QED BY <1>6, <1>8, <2>1
  <1>9. CASE i \in PairedIn(file)
             /\ file'.rows = [file.rows EXCEPT
                                 ![i] = [token |-> file.rows[i].token, camera |-> NoCamera]]
    <2>1. NoCamera \in 0..MaxCommands
      BY PairingAssumption DEF NoCamera
    <2> QED BY <1>6, <1>9, <2>1
  <1> QED BY <1>5, <1>7, <1>8, <1>9 DEF RowChanged

\* The commands of an operator who works alone implement the registry: one row for a
\* command, never an older token or camera over a newer one, whatever fails or is killed.
THEOREM RegistryImplemented == InstallationSpec => ImplementsRegistry
  <1>1. PInv /\ SInv /\ [InstallationNext]_installationVars => [Registry!Next]_TableOf
    <2> SUFFICES ASSUME PInv, SInv, [InstallationNext]_installationVars
                 PROVE  Registry!Next \/ TableOf' = TableOf
      OBVIOUS
    <2>1. crew' = crew
      BY CrewStays
    <2>2. CASE Alone
      BY <2>1, <2>2, SoloStep, RegistryRow DEF Solo, OneRow, Alone, TableOf
    <2>3. CASE ~Alone
      BY <2>1, <2>3 DEF Alone, TableOf, NoRows
    <2> QED BY <2>2, <2>3
  <1>2. PInv /\ SInv /\ [InstallationNext]_installationVars
        => [Registry!Next]_(IF Cardinality(crew) = 1 THEN file.rows ELSE NoRows)
    BY <1>1 DEF TableOf
  <1> QED BY <1>2, RegistryStarts, SoloInvariant, PTL
          DEF InstallationSpec, ImplementsRegistry, Registry!Spec

=============================================================================
