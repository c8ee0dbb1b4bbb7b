----------------------------- MODULE PairingState -----------------------------
(***************************************************************************)
(* The configuration file of xcoc and the commands that change it (setup,  *)
(* unpair, camera apply and camera remove in src/src/main.rs).  Each is a   *)
(* process of its own that reads the whole file, asks its operator or the  *)
(* Server for something, and replaces the whole file; no lock is held in   *)
(* between.  setup with a camera writes twice what it read once.           *)
(*                                                                         *)
(* The file is replaced atomically.  A command may be refused, run out of  *)
(* time or be killed between any two steps, and a replacement may fail.    *)
(***************************************************************************)
EXTENDS Naturals, FiniteSets

CONSTANTS
    Operators,      \* people with a terminal
    Instances,      \* camera instances of the Server
    MaxInstances,   \* pairings a file may hold (256)
    MaxCommands,    \* bound on commands run
    MaxRecordings   \* entries the recording store may hold (100 000)

ASSUME PairingAssumption ==
    /\ MaxInstances \in Nat \ {0} /\ MaxCommands \in Nat \ {0} /\ MaxRecordings \in Nat
    /\ IsFiniteSet(Operators) /\ IsFiniteSet(Instances)

VARIABLES
    crew,       \* the operators at work, constant in a behaviour
    file,       \* the configuration file
    archives,   \* command -> the file it has set aside
    desk,       \* operator -> the command being run
    serial,     \* commands run so far: also the name of what a command brings
    store       \* the recording store: how many entries, and is one foreign

pairingVars == <<crew, file, archives, desk, serial, store>>

-------------------------------------------------------------------------------
(* Contents of the file.                                                   *)

Unpaired == [token |-> 0, camera |-> 0]
NoCamera == 0
NoRows == [i \in Instances |-> Unpaired]

\* The file is missing, a LocalState, one whose pairing state this version
\* cannot read ("old": pairing_state_incompatible), or one with a camera it
\* rejects ("odd": configuration_state_incompatible).
Content(kind, installation, rows) ==
    [kind |-> kind, installation |-> installation, rows |-> rows]
Missing == Content("missing", 0, NoRows)
Old == Content("old", 0, NoRows)
Odd == Content("odd", 0, NoRows)

Loads(f) == f.kind = "state"
PairedIn(f) == {i \in Instances : f.rows[i] # Unpaired}

StoreUsable == store.entries <= MaxRecordings /\ ~store.foreign

\* Defective: a new token takes the camera away.
WithPairingOnly(f, i, token) == [f EXCEPT !.rows[i] = [token |-> token, camera |-> NoCamera]]

\* LocalState after a command; the row a command does not name stays.
WithPairing(f, i, token) == [f EXCEPT !.rows[i].token = token]
WithCamera(f, i, camera) == [f EXCEPT !.rows[i].camera = camera]
WithoutCamera(f, i) == [f EXCEPT !.rows[i].camera = NoCamera]
WithoutPairing(f, i) == [f EXCEPT !.rows[i] = Unpaired]

-------------------------------------------------------------------------------
(* Commands.                                                               *)

Idle == [step |-> "idle"]
Steps == {"ask", "commit", "archived", "camera",
          "unpair", "apply", "remove"}

\* A command: what it read (and changed), which instance it is about.
Command(step, state, target, recover, interactive) ==
    [step |-> step, state |-> state, target |-> target, serial |-> serial + 1,
     recover |-> recover, interactive |-> interactive]

\* A machine that was never set up, one with the file of another version or a
\* file edited by hand, or one with a pairing.
PairingInit ==
    /\ crew \in (SUBSET Operators) \ {{}}
    /\ \/ file \in {Missing, Old, Odd}
       \/ \E i \in Instances, c \in {NoCamera, 1} :
             file = Content("state", 0, [NoRows EXCEPT ![i] = [token |-> 1, camera |-> c]])
    /\ archives = [n \in 1..MaxCommands |-> Missing]
    /\ desk = [o \in Operators |-> Idle]
    /\ serial = 1
    /\ store = [entries |-> 0, foreign |-> FALSE]

Begins(o, command) ==
    /\ desk[o] = Idle /\ serial < MaxCommands
    /\ desk' = [desk EXCEPT ![o] = command]
    /\ serial' = serial + 1
    /\ UNCHANGED <<crew, file, archives, store>>

\* setup reads the file.  A missing one, or with --replace one whose pairing
\* state cannot be read, is answered with a new installation.
SetupBegins(o, i, interactive, replace) ==
    /\ StoreUsable
    /\ \/ /\ Loads(file)
          /\ Begins(o, Command("ask", file, i, FALSE, interactive))
       \/ /\ file = Missing \/ (replace /\ file = Old)
          /\ Begins(o, Command("ask", Content("state", serial + 1, NoRows), i,
                               file = Old, interactive))

\* The Server answers the code with an instance and a token.
SetupPairs(o) ==
    LET c == desk[o] IN
    /\ c.step = "ask"
    /\ Cardinality(PairedIn(c.state)) < MaxInstances
    /\ desk' = [desk EXCEPT ![o].step = "commit",
                           ![o].state = WithPairing(c.state, c.target, c.serial)]
    /\ UNCHANGED <<crew, file, archives, serial, store>>

\* Defective: the file is overwritten.
SetupOverwrites(o) ==
    LET c == desk[o] IN
    /\ c.step = "commit" /\ c.recover
    /\ file' = c.state
    /\ desk' = [desk EXCEPT ![o] = Idle]
    /\ UNCHANGED <<crew, archives, serial, store>>

\* replace_incompatible_pairing_state renames the file that is there now.
SetupArchives(o) ==
    LET c == desk[o] IN
    /\ c.step = "commit" /\ c.recover
    /\ file # Missing
    /\ archives' = [archives EXCEPT ![c.serial] = file]
    /\ file' = Missing
    /\ desk' = [desk EXCEPT ![o].step = "archived"]
    /\ UNCHANGED <<crew, serial, store>>

\* What follows once the pairing is saved: the camera, or nothing.
AfterPairing(c) == IF c.interactive THEN [c EXCEPT !.step = "camera"] ELSE Idle

SetupSaves(o) ==
    LET c == desk[o] IN
    /\ c.step = "archived" \/ (c.step = "commit" /\ ~c.recover)
    /\ file' = c.state
    /\ desk' = [desk EXCEPT ![o] = AfterPairing(c)]
    /\ UNCHANGED <<crew, archives, serial, store>>

\* The save fails after the old file was set aside: it is renamed back over
\* whatever is there, unless that fails too.
SetupRestores(o) ==
    LET c == desk[o] IN
    /\ c.step = "archived"
    /\ file' = archives[c.serial]
    /\ archives' = [archives EXCEPT ![c.serial] = Missing]
    /\ desk' = [desk EXCEPT ![o] = Idle]
    /\ UNCHANGED <<crew, serial, store>>

\* setup saves again, with the camera, the state it read at its start.
SetupSavesCamera(o) ==
    LET c == desk[o] IN
    /\ c.step = "camera"
    /\ file' = WithCamera(c.state, c.target, c.serial)
    /\ desk' = [desk EXCEPT ![o] = Idle]
    /\ UNCHANGED <<crew, archives, serial, store>>

\* unpair, camera apply and camera remove read the file; apply then waits for
\* the end of its standard input.
EditBegins(o, edit, i) ==
    /\ Loads(file)
    /\ edit = "unpair" \/ StoreUsable
    /\ Begins(o, Command(edit, file, i, FALSE, FALSE))

\* Defective: a file without pairings is left.
UnpairSavesEmpty(o) ==
    LET c == desk[o] IN
    /\ c.step = "unpair"
    /\ c.target \in PairedIn(c.state)
    /\ file' = WithoutPairing(c.state, c.target)
    /\ desk' = [desk EXCEPT ![o] = Idle]
    /\ UNCHANGED <<crew, archives, serial, store>>

\* The last pairing takes the file with it.
UnpairSaves(o) ==
    LET c == desk[o]
        rest == WithoutPairing(c.state, c.target)
    IN  /\ c.step = "unpair"
        /\ c.target \in PairedIn(c.state)
        /\ IF PairedIn(rest) = {} THEN file # Missing /\ file' = Missing
                                  ELSE file' = rest
        /\ desk' = [desk EXCEPT ![o] = Idle]
        /\ UNCHANGED <<crew, archives, serial, store>>

ApplySaves(o) ==
    LET c == desk[o] IN
    /\ c.step = "apply"
    /\ c.target \in PairedIn(c.state)
    /\ file' = WithCamera(c.state, c.target, c.serial)
    /\ desk' = [desk EXCEPT ![o] = Idle]
    /\ UNCHANGED <<crew, archives, serial, store>>

RemoveSaves(o) ==
    LET c == desk[o] IN
    /\ c.step = "remove"
    /\ c.state.rows[c.target].camera # NoCamera
    /\ file' = WithoutCamera(c.state, c.target)
    /\ desk' = [desk EXCEPT ![o] = Idle]
    /\ UNCHANGED <<crew, archives, serial, store>>

\* A command ends without another change.
Ends(o) ==
    /\ desk' = [desk EXCEPT ![o] = Idle]
    /\ UNCHANGED <<crew, file, archives, serial, store>>

\* An input is not valid, or was not given in time.
InputRefused(o) == desk[o].step \in {"ask", "apply"} /\ Ends(o)

\* The directory cannot be written: found before the code is spent.
PreflightFails(o) == desk[o].step = "ask" /\ Ends(o)

\* The Server refuses the code, or its answer is lost or not understood.
PairingRefused(o) == desk[o].step = "ask" /\ Ends(o)

\* The camera is not found, or does not deliver; the pairing stays saved.
CameraRefused(o) == desk[o].step = "camera" /\ Ends(o)

\* The file could not be replaced.
SaveFails(o) == desk[o].step \in Steps \ {"ask"} /\ Ends(o)

\* The command is interrupted or killed.
Interrupted(o) == desk[o] # Idle /\ Ends(o)

CommandStep(o) ==
    \/ \E i \in Instances, interactive, replace \in BOOLEAN :
          SetupBegins(o, i, interactive, replace)
    \/ SetupPairs(o)
    \/ SetupArchives(o) \/ SetupSaves(o) \/ SetupRestores(o) \/ SetupSavesCamera(o)
    \/ \E edit \in {"unpair", "apply", "remove"}, i \in Instances : EditBegins(o, edit, i)
    \/ UnpairSaves(o) \/ ApplySaves(o) \/ RemoveSaves(o)
    \/ InputRefused(o) \/ PreflightFails(o) \/ PairingRefused(o) \/ CameraRefused(o)
    \/ SaveFails(o) \/ Interrupted(o)

PairingSpec == PairingInit /\ [][\E o \in crew : CommandStep(o)]_pairingVars

-------------------------------------------------------------------------------
(* Properties.                                                             *)

\* A file written by a command can be loaded by the next: it holds at least
\* one pairing and at most MaxInstances, whatever the commands race with
\* (load_state refuses any other file as pairing_state_incompatible).
WrittenFileLoads ==
    Loads(file) => Cardinality(PairedIn(file)) \in 1..MaxInstances

\* A file of another version is never lost: it is at its path or in an archive,
\* through every setup that replaces it, fails to and renames it back, or is
\* killed in between (docs/operations.md:29).  Two operators can lose it: one
\* renames it back while the other, who found no file, is about to save.
OldFileHeld == file = Old \/ \E n \in 1..MaxCommands : archives[n] = Old
IncompatibleKept ==
    [][Cardinality(crew) = 1 /\ OldFileHeld => OldFileHeld']_pairingVars

\* The commands of one operator implement the registry: one row per command,
\* never an older token or camera over a newer one, through failing writes,
\* lost answers, killed commands and the recovery of an unreadable file.  Of
\* several at once it promises nothing.
Registry == INSTANCE PairingRegistry
                WITH pairs <- IF Cardinality(crew) = 1 THEN file.rows ELSE NoRows
ImplementsRegistry == Registry!Spec
===============================================================================
