------------------------- MODULE EdgeRuntimeProofs ---------------------------
(***************************************************************************)
(* Proofs about EdgeRuntime: the run loop makes its calls on the ledger    *)
(* and the workers as CommandExecution allows, so that what is proved of   *)
(* CommandExecution holds of the program, and no command in flight is      *)
(* lost.                                                                   *)
(***************************************************************************)
EXTENDS EdgeRuntime, CommandExecutionProofs, SequenceTheorems, WellFoundedInduction

(***************************************************************************)
(* Selection from a sequence.                                              *)
(***************************************************************************)
\* Induction, from the least number outside of a set.
LEMMA NatInd ==
  ASSUME NEW S, 0 \in S, \A n \in Nat : n \in S => n + 1 \in S
  PROVE  Nat \subseteq S
<1> DEFINE R == OpToRel(<, Nat)
           T == {n \in Nat : n \notin S}
<1>1. SUFFICES ASSUME T # {} PROVE FALSE
  OBVIOUS
<1>2. IsWellFoundedOn(R, Nat)
  BY NatLessThanWellFounded
<1>3. \A a, b \in Nat : <<a, b>> \in R <=> a < b
  BY DEF OpToRel
<1> HIDE DEF R
<1>4. PICK x \in T : \A y \in T : ~(<<y, x>> \in R)
  BY <1>1, <1>2, WFMin
<1> QED
  <2>1. x # 0 /\ x \in Nat
    BY <1>4
  <2>2. x - 1 \in Nat /\ x - 1 < x /\ (x - 1) + 1 = x
    BY <2>1
  <2>3. x - 1 \in T
    BY <1>4, <2>1, <2>2
  <2> QED BY <1>3, <1>4, <2>1, <2>2, <2>3

\* What Selected takes from the first n elements.
Picks(f, s, S, n) ==
    \A i \in 0..n : f[i] = IF i = 0 THEN << >>
                           ELSE IF s[i] \in S THEN Append(f[i - 1], s[i]) ELSE f[i - 1]

LEMMA PicksExist ==
  ASSUME NEW T, NEW s \in Seq(T), NEW S
  PROVE  \A n \in 0..Len(s) : \E f \in [0..n -> Seq(T)] : Picks(f, s, S, n)
<1> DEFINE Good == {n \in Nat : n <= Len(s) => \E f \in [0..n -> Seq(T)] : Picks(f, s, S, n)}
<1>1. 0 \in Good
  <2> DEFINE f == [i \in 0..0 |-> << >>]
  <2>1. f \in [0..0 -> Seq(T)] /\ Picks(f, s, S, 0)
    BY DEF Picks
  <2> QED BY <2>1
<1>2. ASSUME NEW n \in Nat, n \in Good
      PROVE  n + 1 \in Good
  <2> SUFFICES ASSUME n + 1 <= Len(s)
               PROVE  \E f \in [0..(n + 1) -> Seq(T)] : Picks(f, s, S, n + 1)
    OBVIOUS
  <2> Len(s) \in Nat
    OBVIOUS
  <2>1. PICK f \in [0..n -> Seq(T)] : Picks(f, s, S, n)
    BY <1>2
  <2> DEFINE last == IF s[n + 1] \in S THEN Append(f[n], s[n + 1]) ELSE f[n]
             g == [i \in 0..(n + 1) |-> IF i = n + 1 THEN last ELSE f[i]]
  <2>2. last \in Seq(T)
    OBVIOUS
  <2> HIDE DEF last
  <2>3. g \in [0..(n + 1) -> Seq(T)]
    BY <2>2
  <2>4. g[n + 1] = last /\ g[n] = f[n] /\ (n + 1) - 1 = n
    OBVIOUS
  <2>5. ASSUME NEW i \in 0..n
        PROVE  g[i] = f[i] /\ (i # 0 => g[i - 1] = f[i - 1])
    BY <2>5
  <2> HIDE DEF g
  <2>6. Picks(g, s, S, n + 1)
    <3> SUFFICES ASSUME NEW i \in 0..(n + 1)
                 PROVE  g[i] = IF i = 0 THEN << >>
                               ELSE IF s[i] \in S THEN Append(g[i - 1], s[i]) ELSE g[i - 1]
      BY DEF Picks
    <3>1. CASE i = n + 1
      BY <2>4, <3>1 DEF last
    <3>2. CASE i \in 0..n
      BY <2>1, <2>5, <3>2 DEF Picks
    <3> QED BY <3>1, <3>2
  <2> QED BY <2>3, <2>6
<1> HIDE DEF Good
<1>3. Nat \subseteq Good
  BY <1>1, <1>2, NatInd
<1> QED BY <1>3 DEF Good

LEMMA SelectedPicks ==
  ASSUME NEW T, NEW s \in Seq(T), NEW S
  PROVE  \E f : Picks(f, s, S, Len(s)) /\ Selected(s, S) = f[Len(s)]
<1> DEFINE picks(f) == f = [n \in 0..Len(s) |->
              IF n = 0 THEN << >>
              ELSE IF s[n] \in S THEN Append(f[n - 1], s[n]) ELSE f[n - 1]]
           chosen == CHOOSE f : picks(f)
<1> HIDE DEF picks, chosen
<1>0. Len(s) \in 0..Len(s)
  OBVIOUS
<1>1. PICK f \in [0..Len(s) -> Seq(T)] : Picks(f, s, S, Len(s))
  BY <1>0, PicksExist
<1>2. picks(f)
  BY <1>1 DEF Picks, picks
<1>3. picks(chosen)
  BY <1>2 DEF chosen
<1>4. Picks(chosen, s, S, Len(s))
  BY <1>3 DEF Picks, picks
<1>5. Selected(s, S) = chosen[Len(s)]
  BY DEF Selected, chosen, picks
<1> QED BY <1>4, <1>5

LEMMA SelectedElements ==
  ASSUME NEW T, NEW s \in Seq(T), NEW S
  PROVE  /\ Selected(s, S) \in Seq(T)
         /\ \A x \in T : (\E i \in DOMAIN Selected(s, S) : Selected(s, S)[i] = x)
                      <=> x \in S /\ \E j \in DOMAIN s : s[j] = x
         /\ (\A i, j \in DOMAIN s : s[i] = s[j] => i = j)
              => \A i, j \in DOMAIN Selected(s, S) : Selected(s, S)[i] = Selected(s, S)[j] => i = j
<1> DEFINE Distinct(q) == \A i, j \in DOMAIN q : q[i] = q[j] => i = j
           Is(n, q) == /\ q \in Seq(T)
                       /\ \A x \in T : (\E i \in DOMAIN q : q[i] = x)
                                         <=> x \in S /\ \E j \in 1..n : s[j] = x
                       /\ Distinct(s) => Distinct(q)
<1>1. PICK f : Picks(f, s, S, Len(s)) /\ Selected(s, S) = f[Len(s)]
  BY SelectedPicks
<1> DEFINE Good == {n \in Nat : n <= Len(s) => Is(n, f[n])}
<1>2. 0 \in Good
  <2>1. f[0] = << >>
    <3>1. 0 \in 0..Len(s)
      OBVIOUS
    <3> QED BY <1>1, <3>1 DEF Picks
  <2>2. Is(0, << >>)
    <3>1. << >> \in Seq(T) /\ DOMAIN << >> = {} /\ 1..0 = {}
      OBVIOUS
    <3> QED BY <3>1, Zenon
  <2> HIDE DEF Is
  <2> QED BY <2>1, <2>2
<1>3. ASSUME NEW n \in Nat, n \in Good
      PROVE  n + 1 \in Good
  <2> SUFFICES ASSUME n + 1 <= Len(s) PROVE Is(n + 1, f[n + 1])
    OBVIOUS
  <2>1. Is(n, f[n]) /\ s[n + 1] \in T
    BY <1>3
  <2>2. f[n + 1] = IF s[n + 1] \in S THEN Append(f[n], s[n + 1]) ELSE f[n]
    <3>1. n + 1 \in 0..Len(s) /\ n + 1 # 0 /\ (n + 1) - 1 = n
      OBVIOUS
    <3> QED BY <1>1, <3>1 DEF Picks
  <2>3. CASE s[n + 1] \notin S
    <3>1. f[n + 1] = f[n]
      BY <2>2, <2>3
    <3>2. \A x \in T : x \in S => ((\E j \in 1..n : s[j] = x) <=> \E j \in 1..(n + 1) : s[j] = x)
      BY <2>3
    <3> QED BY <2>1, <3>1, <3>2
  <2>4. CASE s[n + 1] \in S
    <3> DEFINE q == f[n]
               e == s[n + 1]
               p == Append(q, e)
    <3>1. f[n + 1] = p
      BY <2>2, <2>4
    <3>2. q \in Seq(T) /\ e \in T /\ e \in S
      BY <2>1, <2>4
    <3>3. \A x \in T : (\E i \in DOMAIN q : q[i] = x) <=> x \in S /\ \E j \in 1..n : s[j] = x
      BY <2>1
    <3>4. Distinct(s) => Distinct(q)
      BY <2>1
    <3> HIDE DEF q
    <3>5. /\ p \in Seq(T) /\ Len(p) = Len(q) + 1
          /\ \A i \in 1..Len(q) : p[i] = q[i]
          /\ p[Len(q) + 1] = e
          /\ Len(q) \in Nat /\ DOMAIN q = 1..Len(q) /\ DOMAIN p = 1..(Len(q) + 1)
      BY <3>2
    <3>6. \A x \in T : (\E i \in DOMAIN p : p[i] = x) <=> x \in S /\ \E j \in 1..(n + 1) : s[j] = x
      <4> HIDE DEF p
      <4>1. \A x : (\E i \in DOMAIN p : p[i] = x) <=> x = e \/ \E i \in DOMAIN q : q[i] = x
        BY <3>5
      <4>2. \A x : (\E j \in 1..(n + 1) : s[j] = x) <=> x = e \/ \E j \in 1..n : s[j] = x
        OBVIOUS
      <4> HIDE DEF e
      <4> QED BY <3>2, <3>3, <4>1, <4>2
    <3>7. ASSUME Distinct(s) PROVE Distinct(p)
      <4>1. \A i \in DOMAIN q : q[i] # e
        <5> SUFFICES ASSUME NEW i \in DOMAIN q, q[i] = e PROVE FALSE
          OBVIOUS
        <5>1. PICK j \in 1..n : s[j] = e
          BY <3>2, <3>3
        <5> QED BY <3>7, <5>1
      <4> HIDE DEF p, e
      <4> QED BY <3>4, <3>5, <3>7, <4>1
    <3> HIDE DEF p, Distinct
    <3> QED BY <3>1, <3>5, <3>6, <3>7
  <2> QED BY <2>3, <2>4
<1> HIDE DEF Good
<1>4. Nat \subseteq Good
  BY <1>2, <1>3, NatInd
<1>5. Is(Len(s), f[Len(s)])
  BY <1>4 DEF Good
<1>6. DOMAIN s = 1..Len(s)
  OBVIOUS
<1> HIDE DEF Is
<1>7. Is(Len(s), Selected(s, S))
  BY <1>1, <1>5
<1> QED BY <1>6, <1>7 DEF Is
-----------------------------------------------------------------------------
(***************************************************************************)
(* The inductive invariant of the loop, on top of its types and of IInv.   *)
(***************************************************************************)
Distinct(q) == \A i, j \in DOMAIN q : IdOf[q[i]] = IdOf[q[j]] => i = j
OfCamera(cam, q) == \A i \in DOMAIN q : CameraOf[q[i]] = cam
IdsIn(q) == {IdOf[q[i]] : i \in DOMAIN q}

\* The loop will accept what the task of this snapshot brings.
Fits(t) == t.revision = revision[t.camera]

\* What waits in a queue is in flight, once.
PendingSound(cam) ==
    /\ OfCamera(cam, pending[cam])
    /\ Distinct(pending[cam])
    /\ IdsIn(pending[cam]) \subseteq inflight

\* A snapshot was sent with a revision its camera has had, and brings commands of
\* that camera; the loop waits for one of each camera at a time.
SnapshotSound(t) ==
    /\ t.revision <= revision[t.camera]
    /\ OfCamera(t.camera, t.commands)
    /\ Distinct(t.commands)
    /\ Fits(t) => t.camera \in sending
    /\ \A u \in snapshots : Fits(t) /\ Fits(u) /\ t.camera = u.camera => t = u

\* Commands are received between the collection of the snapshots and admission, and
\* those of a camera from one snapshot only.
IncomingSound ==
    /\ phase \notin {"snapshots", "send", "commands"} => incoming = << >>
    /\ Distinct(incoming)
    /\ phase = "snapshots" => \A t \in snapshots : Fits(t) =>
            \A i \in DOMAIN incoming : CameraOf[incoming[i]] # t.camera

\* The ids of the commands a worker was given and has not yet handed over.
HeldIds(cam) == IdsIn(queue[cam]) \cup {IdOf[x.request] : x \in returned[cam]}

\* A worker whose output the loop will accept was not aborted, and what it holds is
\* in flight and waits in no queue.  The loop has the handle of every worker it has
\* not aborted.  An aborted worker whose poll goes on has neither commands that
\* wait for it nor commands on their way.
WorkerKept(cam) ==
    /\ workerRevision[cam] <= revision[cam]
    /\ \A x \in returned[cam] : CameraOf[x.request] = cam
    /\ pc[cam] # "idle" /\ CurrentWorker(cam) =>
         /\ ~aborted[cam]
         /\ HeldIds(cam) \subseteq inflight
         /\ HeldIds(cam) \cap IdsIn(pending[cam]) = {}
    /\ pc[cam] # "idle" => cam \in handles \/ aborted[cam]
    /\ pending[cam] # << >> => ~aborted[cam]
    /\ Zombie(cam) => /\ \A i \in DOMAIN incoming : CameraOf[incoming[i]] # cam
                      /\ \A t \in snapshots : Fits(t) /\ t.camera = cam => t.outcome # "ok"

CancelReady ==
    /\ phase # "cancel" => toCancel = {}
    /\ \A r \in Requests : IdOf[r] \in toCancel => pc[CameraOf[r]] = "idle" \/ aborted[CameraOf[r]]

LInv ==
    /\ RuntimeTypeOK
    /\ \A cam \in Cameras : PendingSound(cam)
    /\ \A cam \in Cameras : Cardinality(inflight \cap IdsOf(cam)) <= MaxInflightPerCamera
    /\ \A t \in snapshots : SnapshotSound(t)
    /\ IncomingSound
    /\ \A cam \in Cameras : WorkerKept(cam)
    /\ CancelReady

-----------------------------------------------------------------------------
(***************************************************************************)
(* The initial state, and the loop when the process starts or ends.        *)
(***************************************************************************)
\* What a ledger holds a verdict on.
LEMMA VerdictRecords ==
    ASSUME NEW ledger \in Ledgers, NEW id \in Concluded(ledger)
    PROVE  /\ ledger[id].state \in Verdicts
           /\ ledger[id].request \in Requests
           /\ DedupUntil(ledger[id].request) \in Nat
  <1>1. ledger[id].state \in Verdicts /\ id \in Ids
    BY DEF Concluded
  <1>2. ledger[id].request \in Requests
    BY <1>1, LedgerRecords, VerdictsAreStates
  <1> QED BY <1>1, <1>2, LedgerAssumption DEF DedupUntil

LEMMA LoopStartsTypes ==
    ASSUME NEW where, NEW instances, NEW ledger, LoopStarts(where, instances, ledger),
           where \in {"select", "down"}, where = "down" <=> ~up', up' \in BOOLEAN,
           instances \in [Cameras -> Versions \cup {Unpaired}], ledger \in Ledgers,
           config' \in [Cameras -> Versions \cup {Unpaired}], rebuilt' \in BOOLEAN,
           edits' \in 0..MaxEdits, crashes' \in 0..MaxCrashes, panics' \in 0..MaxPanics,
           answered' \in [Ids -> SUBSET Verdicts]
    PROVE  RuntimeTypeOK'
  <1> USE DEF LoopStarts
  <1>1. results' \in [Ids -> Verdicts \cup {NoVerdict}]
    <2>1. \A id \in Unconfirmed(ledger) : ledger[id].state \in Verdicts
      BY DEF Unconfirmed
    <2> QED BY <2>1
  <1>2. completed' \in [Ids -> [verdict : Verdicts \cup {NoVerdict}, until : Nat]]
    <2>1. NotCompleted \in [verdict : Verdicts \cup {NoVerdict}, until : Nat]
      BY DEF NotCompleted
    <2> QED BY <2>1, VerdictRecords
  <1>3. phase' \in Phases \cup {"down"} /\ (phase' = "down" <=> ~up')
    BY DEF Phases
  <1>4. incoming' \in Seq(Requests) /\ pending' \in [Cameras -> Seq(Requests)]
    OBVIOUS
  <1>5. /\ revision' \in [Cameras -> Nat] /\ reserved' \in [Cameras -> Nat]
        /\ workerRevision' \in [Cameras -> Nat]
    OBVIOUS
  <1>6. /\ ticked' \in BOOLEAN /\ loaded' \in [Cameras -> Versions \cup {Unpaired}]
        /\ toCancel' \subseteq Ids /\ sending' \subseteq Cameras /\ inflight' \subseteq Ids
        /\ handles' \subseteq Cameras /\ snapshots' = {}
    OBVIOUS
  <1> HIDE DEF LoopStarts
  <1> QED BY <1>1, <1>2, <1>3, <1>4, <1>5, <1>6 DEF RuntimeTypeOK

\* A loop that starts or ends has nothing queued, sent or launched.
LEMMA LoopStartsSound ==
    ASSUME NEW where, NEW instances, NEW ledger, LoopStarts(where, instances, ledger),
           where \in {"select", "down"}, RuntimeTypeOK',
           \A cam \in Cameras : /\ pc'[cam] = "idle" /\ ~aborted'[cam]
                               /\ \A x \in returned'[cam] : CameraOf[x.request] = cam
    PROVE  LInv'
  <1> USE DEF LoopStarts
  <1>1. \A cam \in Cameras : PendingSound(cam)'
    BY DEF PendingSound, OfCamera, Distinct, IdsIn
  <1>2. \A cam \in Cameras : Cardinality(inflight' \cap IdsOf(cam)) <= MaxInflightPerCamera
    BY FS_EmptySet, RuntimeAssumption
  <1>3. \A t \in snapshots' : SnapshotSound(t)'
    OBVIOUS
  <1>4. IncomingSound'
    BY DEF IncomingSound, Distinct
  <1>5. \A cam \in Cameras : WorkerKept(cam)'
    <2> SUFFICES ASSUME NEW cam \in Cameras PROVE WorkerKept(cam)'
      OBVIOUS
    <2>1. pc'[cam] = "idle" /\ pending'[cam] = << >> /\ workerRevision'[cam] <= revision'[cam]
      OBVIOUS
    <2> QED BY <2>1 DEF WorkerKept, Zombie, Running
  <1>6. CancelReady'
    BY DEF CancelReady
  <1> QED BY <1>1, <1>2, <1>3, <1>4, <1>5, <1>6 DEF LInv

-----------------------------------------------------------------------------
(***************************************************************************)
(* Steps that leave the loop's own state alone.                            *)
(***************************************************************************)
\* What a worker that is under way may do: it goes on, or it ends.
WindsDown(cam) ==
    /\ pc'[cam] # "idle" => pc[cam] # "idle" /\ aborted'[cam] = aborted[cam]
    /\ aborted'[cam] => aborted[cam]
    /\ pc'[cam] \in Running => pc[cam] \in Running
    /\ HeldIds(cam)' \subseteq HeldIds(cam)
    /\ \A x \in returned'[cam] : CameraOf[x.request] = cam

LEMMA WorkerRests ==
    ASSUME NEW cam \in Cameras, \A x \in returned[cam] : CameraOf[x.request] = cam,
           pc'[cam] = pc[cam], aborted'[cam] = aborted[cam],
           queue'[cam] = queue[cam], returned'[cam] = returned[cam]
    PROVE  WindsDown(cam)
  BY DEF WindsDown, HeldIds, IdsIn

\* A worker hands its current command over.
LEMMA ReturnHolds ==
    ASSUME IInv, NEW cam \in Cameras, NEW v, NEW fresh, Return(cam, v, fresh), queue[cam] # << >>,
           \A x \in returned[cam] : CameraOf[x.request] = cam
    PROVE  /\ HeldIds(cam)' \subseteq HeldIds(cam)
           /\ \A x \in returned'[cam] : CameraOf[x.request] = cam
  <1> DEFINE q == queue[cam]
             this == [request |-> Current(cam), verdict |-> v, fresh |-> fresh]
  <1>1. q \in Seq(Requests) /\ q # << >> /\ OfCamera(cam, q)
    BY DEF IInv, TypeOK, WorkerSound, OfCamera
  <1>2. queue'[cam] = Tail(q) /\ returned'[cam] = returned[cam] \cup {this}
    BY DEF Return, IInv, TypeOK
  <1>3. Current(cam) = q[1]
    BY <1>1 DEF Current
  <1> HIDE DEF q
  <1>4. 1 \in DOMAIN q
    BY <1>1
  <1>5. IdsIn(Tail(q)) \subseteq IdsIn(q)
    <2>1. \A i \in DOMAIN Tail(q) : i + 1 \in DOMAIN q /\ Tail(q)[i] = q[i + 1]
      BY <1>1
    <2> QED BY <2>1 DEF IdsIn
  <1>6. this.request = q[1]
    BY <1>3
  <1> HIDE DEF this
  <1>7. IdOf[q[1]] \in IdsIn(q) /\ CameraOf[q[1]] = cam
    BY <1>1, <1>4 DEF IdsIn, OfCamera
  <1>8. queue[cam] = q
    BY DEF q
  <1> QED BY <1>2, <1>5, <1>6, <1>7, <1>8 DEF HeldIds

LEMMA WorkersWindDown ==
    ASSUME IInv, NEW c \in Cameras, WorkerStep(c), NEW cam \in Cameras,
           \A x \in returned[cam] : CameraOf[x.request] = cam
    PROVE  WindsDown(cam)
  <1> USE DEF Step
  <1>1. CASE c # cam
    <2>1. /\ pc'[cam] = pc[cam] /\ aborted'[cam] = aborted[cam]
          /\ queue'[cam] = queue[cam] /\ returned'[cam] = returned[cam]
      BY <1>1 DEF WorkerStep, Finish, Replay, CheckDeadline, Begin, Transmit, Answer, Complete,
                  DropAborted, Return, IInv, TypeOK
    <2> QED BY <2>1, WorkerRests
  <1>2. CASE c = cam /\ DropAborted(cam)
    <2>1. pc'[cam] = "idle" /\ ~aborted'[cam] /\ queue'[cam] = << >> /\ returned'[cam] = {}
      BY <1>2 DEF DropAborted, IInv, TypeOK
    <2> QED BY <2>1 DEF WindsDown, HeldIds, IdsIn, Running
  <1>3. CASE c = cam /\ ~DropAborted(cam)
    <2>1. pc[cam] \in Running /\ aborted'[cam] = aborted[cam]
      BY <1>2, <1>3 DEF WorkerStep, Finish, Replay, CheckDeadline, Begin, Transmit, Answer, Complete, Running
    <2>2. \/ UNCHANGED <<queue, returned>>
          \/ \E v, fresh : Return(cam, v, fresh) /\ queue[cam] # << >>
      <3>1. pc[cam] = "complete" => queue[cam] # << >>
        BY DEF IInv, WorkerSound, Engaged, Running
      <3> QED BY <1>3, <3>1 DEF WorkerStep, Finish, Replay, CheckDeadline, Begin, Transmit, Answer, Complete
    <2>3. /\ HeldIds(cam)' \subseteq HeldIds(cam)
          /\ \A x \in returned'[cam] : CameraOf[x.request] = cam
      <3>1. CASE UNCHANGED <<queue, returned>>
        BY <3>1 DEF HeldIds, IdsIn
      <3> QED BY <2>2, <3>1, ReturnHolds
    <2> QED BY <2>1, <2>3 DEF WindsDown, Running
  <1> QED BY <1>1, <1>2, <1>3

\* While its workers wind down and nothing else changes, the loop stays sound.
LEMMA LoopFrame ==
    ASSUME LInv, UNCHANGED loopVars, RuntimeTypeOK',
           \A cam \in Cameras : WindsDown(cam)
    PROVE  LInv'
  <1> USE DEF loopVars, passVars, snapshotVars, commandVars
  <1>1. \A cam \in Cameras : PendingSound(cam)'
    BY DEF LInv, PendingSound
  <1>2. \A cam \in Cameras : Cardinality(inflight' \cap IdsOf(cam)) <= MaxInflightPerCamera
    BY DEF LInv
  <1>3. \A t \in snapshots' : SnapshotSound(t)'
    BY DEF LInv, SnapshotSound, Fits
  <1>4. IncomingSound'
    BY DEF LInv, IncomingSound, Fits
  <1>5. ASSUME NEW cam \in Cameras PROVE WorkerKept(cam)'
    <2>1. WorkerKept(cam) /\ WindsDown(cam)
      BY DEF LInv
    <2>2. CurrentWorker(cam)' <=> CurrentWorker(cam)
      BY DEF CurrentWorker
    <2>3. Zombie(cam)' => Zombie(cam)
      BY <2>1 DEF WindsDown, Zombie
    <2> QED BY <2>1, <2>2, <2>3 DEF WorkerKept, WindsDown, Fits
  <1>6. CancelReady'
    <2>1. \A r \in Requests : CameraOf[r] \in Cameras
      BY LedgerAssumption
    <2> QED BY <2>1 DEF LInv, CancelReady, WindsDown
  <1> QED BY <1>1, <1>2, <1>3, <1>4, <1>5, <1>6 DEF LInv

-----------------------------------------------------------------------------
(***************************************************************************)
(* The process, the configuration, the clock and the workers.              *)
(***************************************************************************)
LEMMA HaltedLoop ==
    ASSUME LInv, Halted, LoopEnds, RuntimeTypeOK'
    PROVE  LInv'
  <1>1. \A cam \in Cameras : pc'[cam] = "idle" /\ ~aborted'[cam] /\ returned'[cam] = {}
    BY DEF Halted
  <1> QED BY <1>1, LoopStartsSound DEF LoopEnds

LEMMA HaltedTypes ==
    ASSUME LInv, Halted, LoopEnds,
           config' = config, rebuilt' = rebuilt, edits' = edits, panics' = panics,
           crashes' \in 0..MaxCrashes, answered' = answered
    PROVE  RuntimeTypeOK'
  <1>1. up' = FALSE /\ EmptyLedger \in Ledgers
    BY EmptyLedgerIsLedger DEF Halted
  <1>2. [cam \in Cameras |-> Unpaired] \in [Cameras -> Versions \cup {Unpaired}]
    OBVIOUS
  <1>3. /\ config' \in [Cameras -> Versions \cup {Unpaired}] /\ rebuilt' \in BOOLEAN
        /\ edits' \in 0..MaxEdits /\ panics' \in 0..MaxPanics
        /\ answered' \in [Ids -> SUBSET Verdicts]
    BY DEF LInv, RuntimeTypeOK
  <1> QED BY <1>1, <1>2, <1>3, LoopStartsTypes DEF LoopEnds

\* A pass that fails ends the run.
LEMMA PassEnds ==
    ASSUME LInv, Halted, LoopEnds, UNCHANGED environmentVars, answered' = answered
    PROVE  LInv'
  BY HaltedLoop, HaltedTypes DEF environmentVars, LInv, RuntimeTypeOK

LEMMA KillSound ==
    ASSUME IInv, LInv, Kill
    PROVE  [Next]_vars /\ LInv'
  <1>1. crashes' \in 0..MaxCrashes
    BY RuntimeAssumption DEF Kill, LInv, RuntimeTypeOK
  <1> QED BY <1>1, HaltedLoop, HaltedTypes DEF Kill, Halt, Next

LEMMA ReloadFailsSound ==
    ASSUME IInv, LInv, ReloadFails
    PROVE  [Next]_vars /\ LInv'
  BY PassEnds DEF ReloadFails, Halt, Next

LEMMA BootSound ==
    ASSUME IInv, LInv, Boot
    PROVE  [Next]_vars /\ LInv'
  <1>1. Open /\ Next
    BY DEF Boot, Next
  <1>2. TypeOK'
    BY <1>1, StepSound DEF IInv
  <1>3. ~up /\ \A cam \in Cameras : pc[cam] = "idle" /\ ~aborted[cam]
    BY <1>1 DEF Open, IInv, WorkerSound
  <1>4. \A cam \in Cameras : /\ pc'[cam] = "idle" /\ ~aborted'[cam]
                             /\ \A x \in returned'[cam] : CameraOf[x.request] = cam
    BY <1>1, <1>3 DEF Open, SaveFails, Halted, LInv, WorkerKept, workerVars
  <1>5. CASE up'
    <2>1. LoopStarts("select", config, mem')
      BY <1>5 DEF Boot
    <2>2. RuntimeTypeOK'
      <3>1. mem' \in Ledgers /\ up' \in BOOLEAN
        BY <1>2 DEF TypeOK
      <3> QED BY <1>5, <2>1, <3>1, LoopStartsTypes DEF Boot, LInv, RuntimeTypeOK
    <2>3. LInv'
      BY <1>4, <2>1, <2>2, LoopStartsSound
    <2> QED BY <1>1, <2>3
  <1>6. CASE ~up'
    <2>1. UNCHANGED loopVars
      BY <1>6 DEF Boot
    <2>2. RuntimeTypeOK'
      BY <1>2, <1>3, <1>6, <2>1 DEF Boot, LInv, RuntimeTypeOK, TypeOK, loopVars, passVars, snapshotVars, commandVars
    <2>3. SaveFails(Opened(disk, now))
      BY <1>1, <1>6 DEF Open
    <2>4. \A cam \in Cameras : WindsDown(cam)
      BY <1>4, <2>3 DEF SaveFails, Halted, WindsDown, HeldIds, IdsIn, Running
    <2>5. LInv'
      BY <2>1, <2>2, <2>4, LoopFrame
    <2> QED BY <1>1, <2>5
  <1> QED BY <1>2, <1>5, <1>6 DEF TypeOK

LEMMA AwaitConfigSound ==
    ASSUME IInv, LInv, UNCHANGED runtimeVars
    PROVE  [Next]_vars /\ LInv'
  <1> USE DEF runtimeVars, environmentVars
  <1>1. UNCHANGED vars /\ UNCHANGED loopVars
    OBVIOUS
  <1>2. RuntimeTypeOK'
    BY DEF LInv, RuntimeTypeOK, vars, loopVars, passVars, snapshotVars, commandVars
  <1>3. \A cam \in Cameras : WindsDown(cam)
    BY WorkerRests DEF LInv, WorkerKept, vars
  <1> QED BY <1>1, <1>2, <1>3, LoopFrame

LEMMA EditSound ==
    ASSUME IInv, LInv, NEW cam \in Cameras, NEW version \in Versions \cup {Unpaired},
           EditConfig(cam, version)
    PROVE  [Next]_vars /\ LInv'
  <1>1. UNCHANGED vars /\ UNCHANGED loopVars
    BY DEF EditConfig
  <1>2. RuntimeTypeOK'
    <2>1. edits' \in 0..MaxEdits /\ config' \in [Cameras -> Versions \cup {Unpaired}]
             /\ rebuilt' \in BOOLEAN
      BY RuntimeAssumption DEF EditConfig, LInv, RuntimeTypeOK
    <2> QED BY <1>1, <2>1
            DEF EditConfig, LInv, RuntimeTypeOK, vars, loopVars, passVars, snapshotVars, commandVars
  <1>3. \A c \in Cameras : WindsDown(c)
    BY <1>1, WorkerRests DEF LInv, WorkerKept, vars
  <1> QED BY <1>1, <1>2, <1>3, LoopFrame

LEMMA TimeSound ==
    ASSUME IInv, LInv, Time
    PROVE  [Next]_vars /\ LInv'
  <1>1. Tick /\ UNCHANGED loopVars
    BY DEF Time
  <1>2. RuntimeTypeOK'
    BY DEF Time, Tick, environmentVars, LInv, RuntimeTypeOK, loopVars, passVars, snapshotVars, commandVars
  <1>3. \A cam \in Cameras : WindsDown(cam)
    BY <1>1, WorkerRests DEF Tick, workerVars, LInv, WorkerKept
  <1> QED BY <1>1, <1>2, <1>3, LoopFrame DEF Next

LEMMA WorkSound ==
    ASSUME IInv, LInv, NEW cam \in Cameras, Work(cam)
    PROVE  [Next]_vars /\ LInv'
  <1>1. WorkerStep(cam) /\ UNCHANGED loopVars
    BY DEF Work
  <1>2. up' = up
    BY <1>1 DEF WorkerStep, Finish, Replay, CheckDeadline, Begin, Transmit, Answer, Complete, DropAborted
  <1>3. RuntimeTypeOK'
    BY <1>2 DEF Work, environmentVars, LInv, RuntimeTypeOK, loopVars, passVars, snapshotVars, commandVars
  <1>4. \A c \in Cameras : WindsDown(c)
    BY <1>1, WorkersWindDown DEF LInv, WorkerKept
  <1> QED BY <1>1, <1>3, <1>4, LoopFrame DEF Next

-----------------------------------------------------------------------------
(***************************************************************************)
(* The snapshot tasks.                                                     *)
(***************************************************************************)
LEMMA TaskEndsSound ==
    ASSUME IInv, LInv, NEW t \in snapshots, NEW outcome \in {"ok", "error", "panicked"},
           NEW commands \in Seq(Requests), TaskEnds(t, outcome, commands),
           OfCamera(t.camera, commands), Distinct(commands),
           outcome = "ok" => ~Zombie(t.camera),
           UNCHANGED <<vars, passVars, sending, reserved, commandVars>>,
           UNCHANGED <<config, rebuilt, edits, crashes>>,
           panics' \in 0..MaxPanics, answered' \in [Ids -> SUBSET Verdicts]
    PROVE  LInv'
  <1> USE DEF vars, passVars, commandVars
  <1> DEFINE n == [t EXCEPT !.outcome = outcome, !.commands = commands]
  <1>1. t \in Snapshot
    BY DEF LInv, RuntimeTypeOK
  <1>2. /\ n \in Snapshot
        /\ n.camera = t.camera /\ n.revision = t.revision
        /\ n.outcome = outcome /\ n.commands = commands
    BY <1>1 DEF Snapshot
  <1>3. snapshots' = (snapshots \ {t}) \cup {n}
    BY DEF TaskEnds
  <1> HIDE DEF n
  <1>4. RuntimeTypeOK'
    BY <1>2, <1>3 DEF LInv, RuntimeTypeOK
  <1>5. \A cam \in Cameras : PendingSound(cam)'
    BY DEF LInv, PendingSound
  <1>6. \A cam \in Cameras : Cardinality(inflight' \cap IdsOf(cam)) <= MaxInflightPerCamera
    BY DEF LInv
  <1>7. Fits(n) <=> Fits(t)
    BY <1>2 DEF Fits
  <1>8. \A u : Fits(u)' <=> Fits(u)
    BY DEF Fits
  <1>9. ASSUME NEW u \in snapshots' PROVE SnapshotSound(u)'
    <2>1. SnapshotSound(t) /\ \A s \in snapshots : SnapshotSound(s)
      BY DEF LInv
    <2>2. u.revision <= revision[u.camera] /\ (Fits(u) => u.camera \in sending)
      BY <1>2, <1>3, <1>7, <2>1 DEF SnapshotSound
    <2>3. OfCamera(u.camera, u.commands) /\ Distinct(u.commands)
      BY <1>2, <1>3, <2>1 DEF SnapshotSound
    <2>4. \A s \in snapshots' : Fits(s) /\ Fits(u) /\ s.camera = u.camera => s = u
      BY <1>2, <1>3, <1>7, <2>1 DEF SnapshotSound
    <2> QED BY <1>8, <2>2, <2>3, <2>4 DEF SnapshotSound
  <1>10. IncomingSound'
    <2>1. IncomingSound
      BY DEF LInv
    <2> QED BY <1>2, <1>3, <1>7, <1>8, <2>1 DEF IncomingSound
  <1>11. ASSUME NEW cam \in Cameras PROVE WorkerKept(cam)'
    <2>1. WorkerKept(cam)
      BY DEF LInv
    <2>2. (HeldIds(cam)' = HeldIds(cam)) /\ (CurrentWorker(cam)' <=> CurrentWorker(cam))
             /\ (Zombie(cam)' <=> Zombie(cam))
      BY DEF HeldIds, IdsIn, CurrentWorker, Zombie
    <2>3. Zombie(cam) => \A s \in snapshots' : Fits(s)' /\ s.camera = cam => s.outcome # "ok"
      BY <1>2, <1>3, <1>7, <1>8, <2>1 DEF WorkerKept
    <2> QED BY <2>1, <2>2, <2>3 DEF WorkerKept
  <1>12. CancelReady'
    BY DEF LInv, CancelReady
  <1> QED BY <1>4, <1>5, <1>6, <1>9, <1>10, <1>11, <1>12 DEF LInv

LEMMA NothingReceived ==
    ASSUME NEW cam
    PROVE  << >> \in Seq(Requests) /\ OfCamera(cam, << >>) /\ Distinct(<< >>)
  BY DEF OfCamera, Distinct

\* A response lists commands of the camera, each id once.
LEMMA DeliveriesSound ==
    ASSUME NEW t, NEW commands \in Deliveries(t)
    PROVE  /\ commands \in Seq(Requests)
           /\ OfCamera(t.camera, commands) /\ Distinct(commands)
           /\ \E n \in Nat : Len(commands) = n /\ n <= t.capacity
  <1> DEFINE due == {r \in Requests : /\ CameraOf[r] = t.camera
                                      /\ RedeliverAnswered \/ Heard(t)[IdOf[r]] = {}}
  <1>1. PICK S \in SUBSET due : /\ Cardinality(S) <= t.capacity
                                /\ \A r, s \in S : IdOf[r] = IdOf[s] => r = s
                                /\ commands \in SetToSeqs(S)
    BY DEF Deliveries
  <1>2. /\ commands \in [1..Cardinality(S) -> S]
        /\ \A i, j \in 1..Cardinality(S) : i # j => commands[i] # commands[j]
    BY <1>1 DEF SetToSeqs
  <1>3. Cardinality(S) \in Nat
    BY <1>1, LedgerAssumption, FS_Subset, FS_CardinalityType
  <1>4. commands \in Seq(S) /\ Len(commands) = Cardinality(S)
    BY <1>2, <1>3
  <1>5. commands \in Seq(Requests)
    BY <1>1, <1>4
  <1>6. OfCamera(t.camera, commands)
    BY <1>1, <1>2 DEF OfCamera
  <1>7. Distinct(commands)
    BY <1>1, <1>2 DEF Distinct
  <1> QED BY <1>1, <1>3, <1>4, <1>5, <1>6, <1>7

LEMMA HeardTypes ==
    ASSUME LInv
    PROVE  \A t : Heard(t) \in [Ids -> SUBSET Verdicts]
  BY DEF Heard, LInv, RuntimeTypeOK

LEMMA NetworkSound ==
    ASSUME IInv, LInv, Network
    PROVE  [Next]_vars /\ LInv'
  <1> USE DEF environmentVars
  <1>1. PICK t \in snapshots : SnapshotServed(t) \/ SnapshotLost(t) \/ SnapshotPanics(t)
    BY DEF Network
  <1>2. UNCHANGED vars
    BY <1>1 DEF SnapshotServed, SnapshotLost, SnapshotPanics
  <1>3. /\ answered \in [Ids -> SUBSET Verdicts] /\ Heard(t) \in [Ids -> SUBSET Verdicts]
        /\ panics \in 0..MaxPanics
    BY HeardTypes DEF LInv, RuntimeTypeOK
  <1>4. CASE SnapshotServed(t)
    <2>1. PICK commands \in Deliveries(t) : TaskEnds(t, "ok", commands)
      BY <1>4 DEF SnapshotServed
    <2>2. /\ commands \in Seq(Requests)
          /\ OfCamera(t.camera, commands) /\ Distinct(commands)
      BY DeliveriesSound
    <2>3. ~Zombie(t.camera) /\ answered' \in [Ids -> SUBSET Verdicts] /\ panics' \in 0..MaxPanics
      BY <1>3, <1>4 DEF SnapshotServed
    <2> QED BY <1>2, <1>4, <2>1, <2>2, <2>3, TaskEndsSound DEF SnapshotServed
  <1>5. CASE SnapshotLost(t)
    <2>1. answered' \in [Ids -> SUBSET Verdicts] /\ panics' \in 0..MaxPanics
      BY <1>3, <1>5 DEF SnapshotLost
    <2> QED BY <1>2, <1>5, <2>1, NothingReceived, TaskEndsSound DEF SnapshotLost
  <1>6. CASE SnapshotPanics(t)
    <2>1. answered' \in [Ids -> SUBSET Verdicts] /\ panics' \in 0..MaxPanics
      BY <1>3, <1>6, RuntimeAssumption DEF SnapshotPanics
    <2> QED BY <1>2, <1>6, <2>1, NothingReceived, TaskEndsSound DEF SnapshotPanics
  <1> QED BY <1>1, <1>4, <1>5, <1>6

-----------------------------------------------------------------------------
(***************************************************************************)
(* Reload and cancel.                                                      *)
(***************************************************************************)
\* No id belongs to two cameras.
LEMMA IdsApart ==
    /\ \A r \in Requests : IdOf[r] \in IdsOf(CameraOf[r]) /\ CameraOf[r] \in Cameras
    /\ \A c, d, id : id \in IdsOf(c) /\ id \in IdsOf(d) => c = d
    /\ \A cam : IdsOf(cam) \subseteq Ids
  BY LedgerAssumption DEF IdsOf

\* What waits for a camera, or is held by its worker, are ids of the camera.
LEMMA OwnIds ==
    ASSUME IInv, LInv, NEW cam \in Cameras
    PROVE  /\ IdsIn(pending[cam]) \subseteq IdsOf(cam)
           /\ HeldIds(cam) \subseteq IdsOf(cam)
  <1>1. pending[cam] \in Seq(Requests) /\ OfCamera(cam, pending[cam])
    BY DEF LInv, RuntimeTypeOK, PendingSound
  <1>2. queue[cam] \in Seq(Requests) /\ OfCamera(cam, queue[cam])
    BY DEF IInv, TypeOK, WorkerSound, OfCamera
  <1>3. \A x \in returned[cam] : x.request \in Requests /\ CameraOf[x.request] = cam
    BY DEF IInv, TypeOK, Results, LInv, WorkerKept
  <1>4. \A q \in Seq(Requests) : OfCamera(cam, q) => IdsIn(q) \subseteq IdsOf(cam)
    BY DEF IdsIn, OfCamera, IdsOf
  <1> QED BY <1>1, <1>2, <1>3, <1>4, IdsApart DEF HeldIds

LEMMA SubsetBounded ==
    ASSUME LInv, NEW cam \in Cameras, NEW ids, ids \subseteq inflight
    PROVE  Cardinality(ids \cap IdsOf(cam)) <= MaxInflightPerCamera
  <1> DEFINE before == inflight \cap IdsOf(cam)
             after == ids \cap IdsOf(cam)
  <1>1. IsFiniteSet(IdsOf(cam))
    <2> DEFINE own == {r \in Requests : CameraOf[r] = cam}
               f == [r \in own |-> IdOf[r]]
    <2>1. IsFiniteSet(own)
      BY LedgerAssumption, FS_Subset
    <2>2. f \in Surjection(own, IdsOf(cam))
      BY DEF Surjection, IdsOf
    <2> HIDE DEF own, f
    <2> QED BY <2>1, <2>2, FS_Surjection
  <1>2. IsFiniteSet(before) /\ after \in SUBSET before
    BY <1>1, FS_Subset
  <1> HIDE DEF before, after
  <1>3. Cardinality(after) <= Cardinality(before) /\ Cardinality(after) \in Nat /\ Cardinality(before) \in Nat
    BY <1>2, FS_Subset, FS_CardinalityType
  <1>4. Cardinality(before) <= MaxInflightPerCamera
    BY DEF LInv, before
  <1>5. Cardinality(after) <= MaxInflightPerCamera
    BY <1>3, <1>4, RuntimeAssumption
  <1> QED BY <1>5 DEF after

LEMMA ReloadSound ==
    ASSUME IInv, LInv, Reload
    PROVE  [Next]_vars /\ LInv'
  <1> DEFINE changed == {cam \in Cameras : config[cam] # loaded[cam]}
             canceled == Canceled(changed)
             paired(id) == \E cam \in Cameras : config[cam] # Unpaired /\ id \in IdsOf(cam)
  <1>1. /\ loaded' = config
        /\ revision' = [cam \in Cameras |-> revision[cam] + IF cam \in changed THEN 1 ELSE 0]
        /\ AbortWorkers(Interrupted(changed))
        /\ handles' = handles \ changed
        /\ pending' = [cam \in Cameras |-> IF cam \in changed THEN << >> ELSE pending[cam]]
        /\ sending' = sending \ changed
        /\ reserved' = [cam \in Cameras |-> IF cam \in changed THEN 0 ELSE reserved[cam]]
        /\ snapshots' = {t \in snapshots : t.camera \in changed => t.outcome # "waiting"}
        /\ inflight' = inflight \ canceled
        /\ toCancel' = {id \in canceled : paired(id)}
        /\ results' = [id \in Ids |-> IF paired(id) THEN results[id] ELSE NoVerdict]
    BY DEF Reload
  <1>2. /\ phase = "select" /\ phase' = IF toCancel' = {} THEN "snapshots" ELSE "cancel"
        /\ ticked' \in BOOLEAN
        /\ UNCHANGED <<environmentVars, incoming, workerRevision, completed, answered>>
    BY DEF Reload, Wake
  <1>3. changed \subseteq Cameras /\ canceled \subseteq inflight
           /\ \A id \in canceled : \E cam \in changed : id \in IdsOf(cam)
    BY DEF Canceled
  <1>4. /\ UNCHANGED <<now, up, mem, disk, pc, queue, verdict, returned, transmitted>>
        /\ aborted' = [cam \in Cameras |-> aborted[cam] \/ (cam \in changed \cap handles /\ pc[cam] # "idle")]
    BY <1>1 DEF AbortWorkers, Interrupted
  <1>5. Next
    <2>1. Interrupted(changed) \in SUBSET Cameras
      BY <1>3 DEF Interrupted
    <2> QED BY <1>1, <2>1 DEF Next, LoopStep
  <1> HIDE DEF changed, canceled
  <1>6. \A id \in inflight : id \notin inflight' => \E cam \in changed : id \in IdsOf(cam)
    BY <1>1, <1>3
  <1>7. ASSUME NEW cam \in Cameras, cam \notin changed, NEW ids, ids \subseteq inflight, ids \subseteq IdsOf(cam)
        PROVE  ids \subseteq inflight'
    BY <1>6, <1>7, IdsApart
  <1>8. RuntimeTypeOK'
    <2>1. /\ config \in [Cameras -> Versions \cup {Unpaired}]
          /\ revision \in [Cameras -> Nat] /\ pending \in [Cameras -> Seq(Requests)]
          /\ reserved \in [Cameras -> Nat] /\ results \in [Ids -> Verdicts \cup {NoVerdict}]
      BY DEF LInv, RuntimeTypeOK
    <2>2. revision' \in [Cameras -> Nat] /\ reserved' \in [Cameras -> Nat]
      BY <1>1, <2>1
    <2>3. pending' \in [Cameras -> Seq(Requests)]
      BY <1>1, <2>1
    <2>4. results' \in [Ids -> Verdicts \cup {NoVerdict}]
      BY <1>1, <2>1
    <2>5. /\ sending' \subseteq sending /\ handles' \subseteq handles /\ inflight' \subseteq inflight
          /\ toCancel' \subseteq inflight /\ snapshots' \subseteq snapshots
      BY <1>1, <1>3
    <2>6. phase' \in Phases /\ up' = up
      BY <1>2, <1>4 DEF Phases
    <2>7. loaded' \in [Cameras -> Versions \cup {Unpaired}]
      BY <1>1, <2>1
    <2>8. phase' # "down" /\ up
      BY <1>2, <2>6 DEF Phases, LInv, RuntimeTypeOK
    <2>9. RuntimeTypeOK
      BY DEF LInv
    <2> QED BY <1>2, <2>2, <2>3, <2>4, <2>5, <2>6, <2>7, <2>8, <2>9 DEF RuntimeTypeOK, environmentVars
  <1>9. ASSUME NEW cam \in Cameras PROVE PendingSound(cam)'
    <2>1. PendingSound(cam)
      BY DEF LInv
    <2>2. CASE cam \in changed
      BY <1>1, <2>2 DEF PendingSound, OfCamera, Distinct, IdsIn
    <2>3. CASE cam \notin changed
      <3>1. pending'[cam] = pending[cam]
        BY <1>1, <2>3
      <3>2. IdsIn(pending[cam]) \subseteq inflight'
        BY <1>7, <2>1, <2>3, OwnIds DEF PendingSound
      <3> QED BY <2>1, <3>1, <3>2 DEF PendingSound
    <2> QED BY <2>2, <2>3
  <1>10. \A cam \in Cameras : Cardinality(inflight' \cap IdsOf(cam)) <= MaxInflightPerCamera
    BY <1>1, SubsetBounded
  <1>11. ASSUME NEW t \in snapshots', Fits(t)'
         PROVE  Fits(t) /\ t.camera \notin changed
    <2>1. /\ t.revision <= revision[t.camera] /\ t.revision \in Nat
          /\ revision[t.camera] \in Nat /\ t.camera \in Cameras
      BY <1>1 DEF LInv, SnapshotSound, RuntimeTypeOK, Snapshot
    <2>2. t.revision = revision[t.camera] + IF t.camera \in changed THEN 1 ELSE 0
      BY <1>1, <1>11, <2>1 DEF Fits
    <2> QED BY <2>1, <2>2 DEF Fits
  <1>12. ASSUME NEW t \in snapshots' PROVE SnapshotSound(t)'
    <2>1. SnapshotSound(t) /\ snapshots' \subseteq snapshots /\ t \in Snapshot
      BY <1>1 DEF LInv, RuntimeTypeOK
    <2>2. t.revision <= revision'[t.camera]
      BY <1>1, <2>1 DEF SnapshotSound, Snapshot, LInv, RuntimeTypeOK
    <2>3. Fits(t)' => t.camera \in sending'
      BY <1>1, <1>11, <2>1 DEF SnapshotSound
    <2>4. \A u \in snapshots' : Fits(t)' /\ Fits(u)' /\ t.camera = u.camera => t = u
      BY <1>11, <2>1 DEF SnapshotSound
    <2> QED BY <2>1, <2>2, <2>3, <2>4 DEF SnapshotSound
  <1>13. incoming = << >> /\ IncomingSound'
    <2>1. incoming = << >> /\ incoming' = << >>
      BY <1>2 DEF LInv, IncomingSound
    <2> QED BY <2>1 DEF IncomingSound, Distinct
  <1>14. ASSUME NEW cam \in Cameras PROVE WorkerKept(cam)'
    <2>1. WorkerKept(cam) /\ HeldIds(cam)' = HeldIds(cam)
      BY <1>4 DEF LInv, HeldIds, IdsIn
    <2>2. workerRevision'[cam] <= revision'[cam] /\ (CurrentWorker(cam)' => cam \notin changed /\ CurrentWorker(cam))
      <3>1. workerRevision[cam] \in Nat /\ revision[cam] \in Nat
        BY DEF LInv, RuntimeTypeOK
      <3>2. revision'[cam] = revision[cam] + IF cam \in changed THEN 1 ELSE 0
        BY <1>1
      <3> QED BY <1>2, <2>1, <3>1, <3>2 DEF WorkerKept, CurrentWorker
    <2>3. ASSUME pc'[cam] # "idle", CurrentWorker(cam)'
          PROVE  /\ ~aborted'[cam]
                 /\ HeldIds(cam)' \subseteq inflight'
                 /\ HeldIds(cam)' \cap IdsIn(pending'[cam]) = {}
      <3>1. cam \notin changed /\ CurrentWorker(cam) /\ pc[cam] # "idle"
        BY <1>4, <2>2, <2>3
      <3>2. pending'[cam] = pending[cam] /\ ~aborted'[cam]
        BY <1>1, <1>4, <2>1, <3>1 DEF WorkerKept
      <3>3. HeldIds(cam) \subseteq inflight'
        BY <1>7, <2>1, <3>1, OwnIds DEF WorkerKept
      <3> QED BY <2>1, <3>1, <3>2, <3>3 DEF WorkerKept
    <2>4. pc'[cam] # "idle" => cam \in handles' \/ aborted'[cam]
      BY <1>1, <1>4, <2>1 DEF WorkerKept
    <2>5. pending'[cam] # << >> => ~aborted'[cam]
      BY <1>1, <1>4, <2>1 DEF WorkerKept
    <2>6. ASSUME Zombie(cam)', NEW t \in snapshots', Fits(t)', t.camera = cam
          PROVE  t.outcome # "ok"
      <3>1. Fits(t) /\ cam \notin changed /\ t \in snapshots
        BY <1>1, <1>11, <2>6
      <3>2. Zombie(cam)
        BY <1>4, <2>6, <3>1 DEF Zombie
      <3> QED BY <2>1, <2>6, <3>1, <3>2 DEF WorkerKept
    <2>7. \A i \in DOMAIN incoming' : CameraOf[incoming'[i]] # cam
      BY <1>2, <1>13
    <2> QED BY <1>4, <2>1, <2>2, <2>3, <2>4, <2>5, <2>6, <2>7 DEF WorkerKept
  <1>15. CancelReady'
    <2>1. phase' # "cancel" => toCancel' = {}
      BY <1>2
    <2>2. ASSUME NEW r \in Requests, IdOf[r] \in toCancel'
          PROVE  pc'[CameraOf[r]] = "idle" \/ aborted'[CameraOf[r]]
      <3>1. CameraOf[r] \in changed /\ CameraOf[r] \in Cameras
        BY <1>1, <1>3, <2>2, IdsApart
      <3>2. WorkerKept(CameraOf[r])
        BY <3>1 DEF LInv
      <3> QED BY <1>4, <3>1, <3>2 DEF WorkerKept
    <2> QED BY <2>1, <2>2 DEF CancelReady
  <1> QED BY <1>5, <1>8, <1>9, <1>10, <1>12, <1>13, <1>14, <1>15 DEF LInv

-----------------------------------------------------------------------------
\* A step that touches neither tasks, queues nor revisions.
LEMMA LoopRests ==
    ASSUME LInv, RuntimeTypeOK', IncomingSound', CancelReady', incoming' = incoming,
           UNCHANGED <<revision, sending, snapshots, inflight, pending, handles, workerRevision>>,
           \A cam \in Cameras : WindsDown(cam)
    PROVE  LInv'
  <1>1. \A cam \in Cameras : PendingSound(cam)'
    BY DEF LInv, PendingSound
  <1>2. \A cam \in Cameras : Cardinality(inflight' \cap IdsOf(cam)) <= MaxInflightPerCamera
    BY DEF LInv
  <1>3. \A t \in snapshots' : SnapshotSound(t)'
    BY DEF LInv, SnapshotSound, Fits
  <1>4. ASSUME NEW cam \in Cameras PROVE WorkerKept(cam)'
    <2>1. WorkerKept(cam) /\ WindsDown(cam)
      BY DEF LInv
    <2>2. CurrentWorker(cam)' <=> CurrentWorker(cam)
      BY DEF CurrentWorker
    <2>3. Zombie(cam)' => Zombie(cam)
      BY <2>1 DEF WindsDown, Zombie
    <2> QED BY <2>1, <2>2, <2>3 DEF WorkerKept, WindsDown, Fits
  <1> QED BY <1>1, <1>2, <1>3, <1>4 DEF LInv

\* The workers do not move.
LEMMA WorkersRest ==
    ASSUME LInv, UNCHANGED workerVars
    PROVE  \A cam \in Cameras : WindsDown(cam)
  BY WorkerRests DEF LInv, WorkerKept, workerVars

LEMMA CancelOneSound ==
    ASSUME IInv, LInv, NEW r \in Requests, CancelOne(r)
    PROVE  [Next]_vars /\ LInv'
  <1> DEFINE id == IdOf[r]
  <1>1. /\ phase = "cancel" /\ id \in toCancel /\ Cancel(r) /\ id \in Ids
        /\ UNCHANGED <<environmentVars, answered>>
    BY LedgerAssumption DEF CancelOne
  <1>2. Next
    BY <1>1 DEF Next, LoopStep
  <1>3. CASE ~up'
    <2>1. Halted
      BY <1>1, <1>3 DEF Cancel, SaveByLoop, Saved, SaveFails
    <2> QED BY <1>1, <1>2, <1>3, <2>1, PassEnds DEF CancelOne
  <1>4. CASE up'
    <2>1. /\ toCancel' = toCancel \ {id}
          /\ phase' = IF toCancel' = {} THEN "snapshots" ELSE "cancel"
          /\ results' = [results EXCEPT ![id] = mem'[id].state]
          /\ completed' = [completed EXCEPT ![id] =
                                [verdict |-> mem'[id].state, until |-> now + DedupGrace]]
          /\ UNCHANGED <<ticked, loaded, revision, incoming, snapshotVars,
                         inflight, pending, handles, workerRevision>>
      BY <1>4 DEF CancelOne
    <2>2. /\ mem[id].state # "absent"
          /\ mem' = Completed(mem, id, CancelVerdict(mem[id].state))
          /\ UNCHANGED <<up, workerVars>>
      BY <1>1, <1>4 DEF Cancel, SaveByLoop, Saved, SaveFails, Halted
    <2>3. mem \in Ledgers /\ now \in Nat /\ RuntimeTypeOK /\ up
      BY <1>4, <2>2 DEF IInv, TypeOK, LInv
    <2>4. mem'[id].state \in Verdicts
      <3>1. mem'[id].state = CancelVerdict(mem[id].state)
        BY <1>1, <2>2, <2>3, LedgerRecords DEF Completed, Ledgers, Record
      <3>2. mem[id].state \in States
        BY <1>1, <2>3, LedgerRecords
      <3> QED BY <2>2, <3>1, <3>2 DEF CancelVerdict, States, Verdicts, Failed
    <2>5. RuntimeTypeOK'
      <3>1. results' \in [Ids -> Verdicts \cup {NoVerdict}]
        BY <2>1, <2>3, <2>4 DEF RuntimeTypeOK
      <3>2. completed' \in [Ids -> [verdict : Verdicts \cup {NoVerdict}, until : Nat]]
        <4>1. now + DedupGrace \in Nat
          BY <2>3, LedgerAssumption
        <4> DEFINE entry == [verdict |-> mem'[id].state, until |-> now + DedupGrace]
        <4>2. entry \in [verdict : Verdicts \cup {NoVerdict}, until : Nat]
          BY <2>4, <4>1
        <4>3. completed' = [completed EXCEPT ![id] = entry]
          BY <2>1
        <4> HIDE DEF entry
        <4> QED BY <2>3, <4>2, <4>3 DEF RuntimeTypeOK
      <3>3. phase' \in Phases /\ phase' # "down" /\ up'
        BY <1>4, <2>1 DEF Phases
      <3>4. toCancel' \subseteq Ids
        BY <2>1, <2>3 DEF RuntimeTypeOK
      <3> QED BY <1>1, <2>1, <2>3, <3>1, <3>2, <3>3, <3>4
              DEF RuntimeTypeOK, environmentVars, snapshotVars
    <2>6. IncomingSound'
      <3>1. incoming' = << >>
        BY <1>1, <2>1 DEF LInv, IncomingSound
      <3> QED BY <3>1 DEF IncomingSound, Distinct
    <2>7. CancelReady'
      BY <2>1, <2>2 DEF LInv, CancelReady, workerVars
    <2>8. \A cam \in Cameras : WindsDown(cam)
      BY <2>2, WorkersRest
    <2>9. UNCHANGED <<revision, sending, snapshots, inflight, pending, handles, workerRevision>>
            /\ incoming' = incoming
      BY <2>1 DEF snapshotVars
    <2> QED BY <1>2, <2>5, <2>6, <2>7, <2>8, <2>9, LoopRests
  <1>5. up' \in BOOLEAN
    BY <1>2, StepSound DEF IInv, TypeOK
  <1> QED BY <1>3, <1>4, <1>5

LEMMA SnapshotsCollectedSound ==
    ASSUME IInv, LInv, SnapshotsCollected
    PROVE  [Next]_vars /\ LInv'
  <1> USE DEF SnapshotsCollected
  <1>1. phase' \in {"commands", "send"} /\ phase = "snapshots"
    BY DEF AfterSend
  <1>2. UNCHANGED <<revision, sending, snapshots, inflight, pending, handles, workerRevision>>
    BY DEF snapshotVars, commandVars
  <1>3. RuntimeTypeOK'
    BY <1>1 DEF LInv, RuntimeTypeOK, Phases, vars, environmentVars, snapshotVars, commandVars
  <1>4. IncomingSound'
    BY <1>1 DEF LInv, IncomingSound
  <1>5. CancelReady'
    BY <1>1, <1>2 DEF LInv, CancelReady, vars
  <1>6. \A cam \in Cameras : WindsDown(cam)
    BY WorkersRest DEF vars, workerVars
  <1> QED BY <1>2, <1>3, <1>4, <1>5, <1>6, LoopRests DEF vars

-----------------------------------------------------------------------------
(***************************************************************************)
(* Collection of snapshots.                                                *)
(***************************************************************************)
LEMMA ConcatElements ==
    ASSUME NEW S, NEW p \in Seq(S), NEW q \in Seq(S)
    PROVE  /\ p \o q \in Seq(S)
           /\ \A i \in DOMAIN (p \o q) :
                \/ i \in DOMAIN p /\ (p \o q)[i] = p[i]
                \/ /\ i \notin DOMAIN p
                   /\ i - Len(p) \in DOMAIN q
                   /\ (p \o q)[i] = q[i - Len(p)]
           /\ DOMAIN (p \o q) \subseteq Nat /\ Len(p) \in Nat
           /\ DOMAIN p \subseteq DOMAIN (p \o q)
           /\ \A i \in DOMAIN p : (p \o q)[i] = p[i]
           /\ \A j \in DOMAIN q : j + Len(p) \in DOMAIN (p \o q) /\ (p \o q)[j + Len(p)] = q[j]
  <1>1. /\ p \o q \in Seq(S) /\ Len(p \o q) = Len(p) + Len(q)
        /\ Len(p) \in Nat /\ Len(q) \in Nat
        /\ DOMAIN p = 1..Len(p) /\ DOMAIN q = 1..Len(q) /\ DOMAIN (p \o q) = 1..(Len(p) + Len(q))
    OBVIOUS
  <1>2. \A i \in 1..(Len(p) + Len(q)) :
            (p \o q)[i] = IF i <= Len(p) THEN p[i] ELSE q[i - Len(p)]
    OBVIOUS
  <1> QED BY <1>1, <1>2

\* A finished task is taken; if the loop waited for it, it may stop doing so.
LEMMA TaskTaken ==
    ASSUME LInv, NEW t \in snapshots, snapshots' = snapshots \ {t}, revision' = revision,
           \/ sending' = sending
           \/ Fits(t) /\ sending' = sending \ {t.camera}
    PROVE  /\ \A u \in snapshots' : SnapshotSound(u)' /\ (Fits(u)' <=> Fits(u)) /\ u \in snapshots
           /\ Fits(t) => \A u \in snapshots' : Fits(u) => u.camera # t.camera
  <1>1. \A u \in snapshots : SnapshotSound(u)
    BY DEF LInv
  <1>2. \A u : Fits(u)' <=> Fits(u)
    BY DEF Fits
  <1>3. ASSUME Fits(t), NEW u \in snapshots', Fits(u) PROVE u.camera # t.camera
    BY <1>1, <1>3 DEF SnapshotSound
  <1>4. ASSUME NEW u \in snapshots' PROVE SnapshotSound(u)'
    <2>1. SnapshotSound(u) /\ u \in snapshots
      BY <1>1
    <2>2. Fits(u) => u.camera \in sending'
      BY <1>3, <2>1 DEF SnapshotSound
    <2> QED BY <1>2, <2>1, <2>2 DEF SnapshotSound
  <1> QED BY <1>2, <1>3, <1>4

\* The loop's state after a task was taken.
LEMMA AfterTask ==
    ASSUME IInv, LInv, NEW t \in snapshots, t \in Finished, phase = "snapshots", up',
           snapshots' = snapshots \ {t},
           \/ sending' = sending /\ reserved' = reserved
           \/ Fits(t) /\ sending' = sending \ {t.camera} /\ reserved' = [reserved EXCEPT ![t.camera] = 0],
           \/ incoming' = incoming
           \/ Fits(t) /\ t.outcome = "ok" /\ incoming' = incoming \o t.commands,
           results' \in [Ids -> Verdicts \cup {NoVerdict}],
           UNCHANGED <<workerVars, environmentVars, phase, ticked, loaded, revision, toCancel,
                       inflight, pending, handles, workerRevision, completed, answered>>
    PROVE  LInv'
  <1>1. t \in Snapshot /\ SnapshotSound(t) /\ RuntimeTypeOK /\ IncomingSound
    BY DEF LInv, RuntimeTypeOK
  <1>2. /\ \A u \in snapshots' : SnapshotSound(u)' /\ (Fits(u)' <=> Fits(u)) /\ u \in snapshots
        /\ Fits(t) => \A u \in snapshots' : Fits(u) => u.camera # t.camera
    BY TaskTaken
  <1>3. t.camera \in Cameras /\ t.commands \in Seq(Requests) /\ incoming \in Seq(Requests)
    BY <1>1 DEF Snapshot, RuntimeTypeOK
  <1>4. RuntimeTypeOK'
    <2>1. incoming' \in Seq(Requests)
      <3>1. incoming \o t.commands \in Seq(Requests)
        BY <1>3, ConcatElements
      <3>2. incoming' = incoming \/ incoming' = incoming \o t.commands
        OBVIOUS
      <3> QED BY <1>3, <3>1, <3>2, Zenon
    <2>2. reserved' \in [Cameras -> Nat] /\ sending' \subseteq Cameras
      <3>1. reserved \in [Cameras -> Nat] /\ sending \subseteq Cameras
        BY <1>1 DEF RuntimeTypeOK
      <3>2. reserved' \in {reserved, [reserved EXCEPT ![t.camera] = 0]} /\ sending' \subseteq sending
        OBVIOUS
      <3>3. [reserved EXCEPT ![t.camera] = 0] \in [Cameras -> Nat]
        BY <3>1
      <3> QED BY <3>1, <3>2, <3>3
    <2>3. phase' \in Phases /\ phase' # "down"
      BY DEF Phases
    <2> QED BY <1>1, <1>2, <2>1, <2>2, <2>3 DEF RuntimeTypeOK, environmentVars
  <1>5. \A cam \in Cameras : PendingSound(cam)'
    BY DEF LInv, PendingSound
  <1>6. \A cam \in Cameras : Cardinality(inflight' \cap IdsOf(cam)) <= MaxInflightPerCamera
    BY DEF LInv
  <1>7. /\ \A i \in DOMAIN incoming' : \/ i \in DOMAIN incoming /\ incoming'[i] = incoming[i]
                                       \/ /\ Fits(t) /\ t.outcome = "ok"
                                          /\ i \notin DOMAIN incoming
                                          /\ i - Len(incoming) \in DOMAIN t.commands
                                          /\ incoming'[i] = t.commands[i - Len(incoming)]
        /\ DOMAIN incoming' \subseteq Nat /\ Len(incoming) \in Nat
    <2>1. CASE incoming' = incoming
      BY <1>3, <2>1
    <2>2. CASE Fits(t) /\ t.outcome = "ok" /\ incoming' = incoming \o t.commands
      BY <1>3, <2>2, ConcatElements
    <2> QED BY <2>1, <2>2
  <1>8. \A i \in DOMAIN incoming' : CameraOf[incoming'[i]] = t.camera =>
            \/ i \in DOMAIN incoming /\ incoming'[i] = incoming[i]
            \/ Fits(t) /\ t.outcome = "ok"
    BY <1>7
  <1>9. \A i \in DOMAIN incoming' : CameraOf[incoming'[i]] # t.camera =>
            i \in DOMAIN incoming /\ incoming'[i] = incoming[i]
    BY <1>1, <1>7 DEF SnapshotSound, OfCamera
  <1>10. IncomingSound'
    <2>1. \A u \in snapshots' : Fits(u) =>
             \A i \in DOMAIN incoming' : CameraOf[incoming'[i]] # u.camera
      <3> SUFFICES ASSUME NEW u \in snapshots', Fits(u), NEW i \in DOMAIN incoming'
                   PROVE  CameraOf[incoming'[i]] # u.camera
        OBVIOUS
      <3>1. i \in DOMAIN incoming => CameraOf[incoming[i]] # u.camera
        BY <1>1, <1>2 DEF IncomingSound
      <3>2. \A k \in DOMAIN t.commands : CameraOf[t.commands[k]] = t.camera
        BY <1>1 DEF SnapshotSound, OfCamera
      <3> QED BY <1>2, <1>7, <3>1, <3>2
    <2>2. Distinct(incoming')
      <3> SUFFICES ASSUME NEW i \in DOMAIN incoming', NEW j \in DOMAIN incoming',
                          IdOf[incoming'[i]] = IdOf[incoming'[j]]
                   PROVE  i = j
        BY DEF Distinct
      <3>1. incoming'[i] \in Requests /\ incoming'[j] \in Requests
        BY <1>4 DEF RuntimeTypeOK
      <3>2. CameraOf[incoming'[i]] = CameraOf[incoming'[j]]
        BY <3>1, LedgerAssumption
      <3>3. CASE i \in DOMAIN incoming /\ j \in DOMAIN incoming
        BY <1>1, <1>7, <3>3 DEF IncomingSound, Distinct
      <3>4. CASE i \notin DOMAIN incoming /\ j \notin DOMAIN incoming
        <4>1. /\ i - Len(incoming) \in DOMAIN t.commands /\ j - Len(incoming) \in DOMAIN t.commands
              /\ incoming'[i] = t.commands[i - Len(incoming)]
              /\ incoming'[j] = t.commands[j - Len(incoming)]
          BY <1>7, <3>4
        <4>2. i - Len(incoming) = j - Len(incoming)
          BY <1>1, <4>1 DEF SnapshotSound, Distinct
        <4>3. i \in Nat /\ j \in Nat
          BY <1>7
        <4> QED BY <1>7, <4>2, <4>3
      <3>5. CASE i \in DOMAIN incoming /\ j \notin DOMAIN incoming
        <4>1. Fits(t) /\ CameraOf[incoming'[j]] = t.camera
          BY <1>1, <1>7, <3>5 DEF SnapshotSound, OfCamera
        <4>2. CameraOf[incoming[i]] # t.camera
          BY <1>1, <3>5, <4>1 DEF IncomingSound
        <4> QED BY <1>7, <3>2, <3>5, <4>1, <4>2
      <3>6. CASE i \notin DOMAIN incoming /\ j \in DOMAIN incoming
        <4>1. Fits(t) /\ CameraOf[incoming'[i]] = t.camera
          BY <1>1, <1>7, <3>6 DEF SnapshotSound, OfCamera
        <4>2. CameraOf[incoming[j]] # t.camera
          BY <1>1, <3>6, <4>1 DEF IncomingSound
        <4> QED BY <1>7, <3>2, <3>6, <4>1, <4>2
      <3> QED BY <3>3, <3>4, <3>5, <3>6
    <2> QED BY <1>2, <2>1, <2>2 DEF IncomingSound
  <1>11. ASSUME NEW cam \in Cameras PROVE WorkerKept(cam)'
    <2>1. WorkerKept(cam)
      BY DEF LInv
    <2>2. /\ HeldIds(cam)' = HeldIds(cam) /\ (CurrentWorker(cam)' <=> CurrentWorker(cam))
          /\ (Zombie(cam)' <=> Zombie(cam))
      BY DEF HeldIds, IdsIn, CurrentWorker, Zombie, workerVars
    <2>3. ASSUME Zombie(cam), NEW i \in DOMAIN incoming', CameraOf[incoming'[i]] = cam
          PROVE  FALSE
      <3>1. ~(i \in DOMAIN incoming /\ incoming'[i] = incoming[i])
        BY <2>1, <2>3 DEF WorkerKept
      <3>2. t.camera = cam
        BY <1>9, <2>3, <3>1
      <3> QED BY <1>8, <2>1, <2>3, <3>1, <3>2 DEF WorkerKept
    <2>4. Zombie(cam) => \A u \in snapshots' : Fits(u)' /\ u.camera = cam => u.outcome # "ok"
      BY <1>2, <2>1 DEF WorkerKept
    <2> QED BY <2>1, <2>2, <2>3, <2>4 DEF WorkerKept, workerVars
  <1>12. CancelReady'
    BY DEF LInv, CancelReady, workerVars
  <1> QED BY <1>2, <1>4, <1>5, <1>6, <1>10, <1>11, <1>12 DEF LInv

LEMMA CollectSnapshotSound ==
    ASSUME IInv, LInv, NEW t \in snapshots, CollectSnapshot(t)
    PROVE  [Next]_vars /\ LInv'
  <1> USE DEF passVars, commandVars
  <1>1. /\ phase = "snapshots" /\ t \in Finished /\ UNCHANGED <<environmentVars, answered>>
        /\ up /\ RuntimeTypeOK /\ t \in Snapshot
    BY DEF CollectSnapshot, LInv, RuntimeTypeOK
  <1>2. CASE UNCHANGED <<vars, passVars, commandVars>> /\ snapshots' = snapshots \ {t}
             /\ \/ UNCHANGED <<sending, reserved>>
                \/ /\ revision[t.camera] = t.revision
                   /\ sending' = sending \ {t.camera} /\ reserved' = [reserved EXCEPT ![t.camera] = 0]
    <2>1. results' \in [Ids -> Verdicts \cup {NoVerdict}] /\ up' /\ UNCHANGED workerVars
      BY <1>1, <1>2 DEF RuntimeTypeOK, vars, workerVars
    <2>2. LInv'
      BY <1>1, <1>2, <2>1, AfterTask DEF Fits
    <2> QED BY <1>2, <2>2
  <1>3. CASE revision[t.camera] = t.revision /\ t.outcome = "ok"
    <2> DEFINE ids == {p[1] : p \in t.sent}
    <2>1. /\ Acknowledge(ids)
          /\ IF up'
             THEN /\ results' = [id \in Ids |-> IF id \in ids THEN NoVerdict ELSE results[id]]
                  /\ incoming' = incoming \o t.commands
                  /\ snapshots' = snapshots \ {t}
                  /\ sending' = sending \ {t.camera}
                  /\ reserved' = [reserved EXCEPT ![t.camera] = 0]
                  /\ UNCHANGED <<phase, ticked, loaded, revision, toCancel,
                                 inflight, pending, handles, workerRevision, completed>>
             ELSE LoopEnds
      BY <1>3 DEF CollectSnapshot
    <2>2. ids \in SUBSET Ids
      BY <1>1 DEF Snapshot
    <2> HIDE DEF ids
    <2>3. Next
      BY <2>1, <2>2 DEF Next, LoopStep
    <2>4. CASE ~up'
      <3>1. Halted
        BY <1>1, <2>1, <2>4 DEF Acknowledge, SaveByLoop, Saved, SaveFails
      <3> QED BY <1>1, <2>1, <2>3, <2>4, <3>1, PassEnds
    <2>5. CASE up'
      <3>1. UNCHANGED workerVars
        BY <2>1, <2>5 DEF Acknowledge, SaveByLoop, Saved, SaveFails, Halted
      <3>2. results' \in [Ids -> Verdicts \cup {NoVerdict}]
        BY <1>1, <2>1, <2>5 DEF RuntimeTypeOK
      <3>3. LInv'
        BY <1>1, <1>3, <2>1, <2>5, <3>1, <3>2, AfterTask DEF Fits
      <3> QED BY <2>3, <3>3
    <2>6. up' \in BOOLEAN
      BY <2>3, StepSound DEF IInv, TypeOK
    <2> QED BY <2>4, <2>5, <2>6
  <1> QED BY <1>2, <1>3 DEF CollectSnapshot

LEMMA CollectPanicSound ==
    ASSUME IInv, LInv, NEW t \in snapshots, CollectPanic(t)
    PROVE  [Next]_vars /\ LInv'
  <1> USE DEF CollectPanic
  <1>1. RuntimeTypeOK /\ snapshots' \subseteq snapshots /\ UNCHANGED commandVars
    BY DEF LInv, Finished
  <1>2. RuntimeTypeOK'
    <2>1. revision' \in [Cameras -> Nat] /\ reserved' \in [Cameras -> Nat]
      BY <1>1 DEF RuntimeTypeOK
    <2> QED BY <1>1, <2>1 DEF RuntimeTypeOK, vars, environmentVars, commandVars
  <1>3. \A cam \in Cameras : PendingSound(cam)'
    BY DEF LInv, PendingSound, commandVars
  <1>4. \A cam \in Cameras : Cardinality(inflight' \cap IdsOf(cam)) <= MaxInflightPerCamera
    BY DEF LInv, commandVars
  <1>5. ASSUME NEW u \in snapshots'
        PROVE  u.revision <= revision'[u.camera] /\ ~Fits(u)' /\ SnapshotSound(u)
    <2>1. SnapshotSound(u) /\ u \in Snapshot
      BY <1>1 DEF LInv, RuntimeTypeOK
    <2>2. u.camera \in Cameras /\ u.revision \in Nat /\ revision[u.camera] \in Nat
      BY <1>1, <2>1 DEF Snapshot, RuntimeTypeOK
    <2>3. revision'[u.camera] = revision[u.camera] + 1
      BY <2>2
    <2> QED BY <2>1, <2>2, <2>3 DEF SnapshotSound, Fits
  <1>6. \A u \in snapshots' : SnapshotSound(u)'
    BY <1>5 DEF SnapshotSound
  <1>7. IncomingSound'
    BY <1>5 DEF LInv, IncomingSound
  <1>8. ASSUME NEW cam \in Cameras PROVE WorkerKept(cam)'
    <2>1. WorkerKept(cam)
      BY DEF LInv
    <2>2. workerRevision[cam] \in Nat /\ revision[cam] \in Nat /\ workerRevision' = workerRevision
      BY <1>1 DEF RuntimeTypeOK, commandVars
    <2>3. workerRevision'[cam] <= revision'[cam] /\ ~CurrentWorker(cam)'
      BY <2>1, <2>2 DEF WorkerKept, CurrentWorker
    <2> QED BY <1>5, <2>1, <2>3 DEF WorkerKept, vars, commandVars, Zombie
  <1>9. CancelReady'
    BY DEF LInv, CancelReady, vars
  <1> QED BY <1>2, <1>3, <1>4, <1>6, <1>7, <1>8, <1>9 DEF LInv

-----------------------------------------------------------------------------
(***************************************************************************)
(* Capacity and the snapshots of a pass.                                   *)
(***************************************************************************)
LEMMA MinOfFour ==
    ASSUME NEW a \in Nat, NEW b \in Nat, NEW c \in Nat, NEW d \in Nat
    PROVE  LET m == Min({a, b, c, d})
           IN  m \in Nat /\ m <= a /\ m <= b /\ m <= c /\ m <= d
  BY DEF Min

LEMMA MonusType ==
    ASSUME NEW a \in Nat, NEW b \in Nat
    PROVE  /\ Monus(a, b) \in Nat
           /\ Monus(a, b) <= a
           /\ Monus(a, b) = 0 \/ Monus(a, b) + b = a
  BY DEF Monus

LEMMA HalfType ==
    ASSUME NEW a \in Nat
    PROVE  a \div 2 \in Nat /\ 2 * (a \div 2) <= a
  OBVIOUS

\* What Capacity counts.
LEMMA CountTypes ==
    ASSUME IInv, RuntimeTypeOK
    PROVE  /\ IsFiniteSet(inflight) /\ Cardinality(inflight) \in Nat
           /\ IsFiniteSet(Promised) /\ Cardinality(Promised) \in Nat
           /\ Len(incoming) \in Nat /\ Taken \in Nat
           /\ Receipts \in Nat
           /\ Remaining(mem) \in Nat /\ Cardinality(Present(mem)) \in Nat
           /\ \A cam : /\ Cardinality(inflight \cap IdsOf(cam)) \in Nat
                       /\ Cardinality({i \in DOMAIN incoming : CameraOf[incoming[i]] = cam}) \in Nat
  <1>1. IsFiniteSet(inflight)
    BY RuntimeAssumption, FS_Subset DEF RuntimeTypeOK
  <1>2. IsFiniteSet(Promised)
    <2>1. IsFiniteSet(1..MaxInflight)
      BY FS_Interval, RuntimeAssumption
    <2>2. IsFiniteSet(Cameras \X (1..MaxInflight))
      BY <2>1, FS_Product, RuntimeAssumption
    <2>3. Promised \in SUBSET (Cameras \X (1..MaxInflight))
      BY DEF Promised
    <2> QED BY <2>2, <2>3, FS_Subset
  <1>3. Cardinality(inflight) \in Nat /\ Cardinality(Promised) \in Nat
    BY <1>1, <1>2, FS_CardinalityType
  <1>4. Len(incoming) \in Nat /\ incoming \in Seq(Requests)
    BY DEF RuntimeTypeOK
  <1>5. Taken \in Nat
    BY <1>3, <1>4 DEF Taken
  <1>6. Receipts \in Nat
    <2>1. \A S \in SUBSET Ids : Cardinality(S) \in Nat
      BY RuntimeAssumption, FS_Subset, FS_CardinalityType
    <2> DEFINE concluded == {id \in Ids : completed[id].verdict # NoVerdict}
    <2>2. Cardinality(Known(results)) \in Nat /\ Cardinality(concluded) \in Nat
      BY <2>1 DEF Known
    <2> QED BY <2>2 DEF Receipts
  <1>7. Cardinality(Present(mem)) \in Nat
    BY RuntimeAssumption, FS_Subset, FS_CardinalityType DEF Present
  <1>8. Remaining(mem) \in Nat
    BY <1>7, LedgerAssumption DEF Remaining
  <1>9. ASSUME NEW cam
        PROVE  /\ Cardinality(inflight \cap IdsOf(cam)) \in Nat
               /\ Cardinality({i \in DOMAIN incoming : CameraOf[incoming[i]] = cam}) \in Nat
    <2>1. Cardinality(inflight \cap IdsOf(cam)) \in Nat
      BY <1>1, FS_Intersection, FS_CardinalityType
    <2>2. IsFiniteSet(1..Len(incoming)) /\ DOMAIN incoming = 1..Len(incoming)
      BY <1>4, FS_Interval
    <2> DEFINE own == {i \in DOMAIN incoming : CameraOf[incoming[i]] = cam}
    <2>3. own \in SUBSET (1..Len(incoming))
      BY <2>2
    <2>4. Cardinality(own) \in Nat
      BY <2>2, <2>3, FS_Subset, FS_CardinalityType
    <2> QED BY <2>1, <2>4
  <1> QED BY <1>1, <1>2, <1>3, <1>4, <1>5, <1>6, <1>7, <1>8, <1>9

\* The capacity promised to a snapshot is no more than each limit leaves.
LEMMA CapacityBounds ==
    ASSUME IInv, RuntimeTypeOK, NEW cam \in Cameras
    PROVE  LET own == Cardinality(inflight \cap IdsOf(cam))
                        + Cardinality({i \in DOMAIN incoming : CameraOf[incoming[i]] = cam})
           IN  /\ Capacity(cam) \in Nat
               /\ Capacity(cam) <= Monus(MaxInflight, Taken)
               /\ Capacity(cam) <= Monus(MaxInflightPerCamera, own)
               /\ Capacity(cam) <= Monus(MaxCommandRecords, 2 * Taken + Receipts) \div 2
               /\ Capacity(cam) <= Monus(Remaining(mem), Taken)
  <1> DEFINE own == Cardinality(inflight \cap IdsOf(cam))
                        + Cardinality({i \in DOMAIN incoming : CameraOf[incoming[i]] = cam})
             a == Monus(MaxInflight, Taken)
             b == Monus(MaxInflightPerCamera, own)
             left == Monus(MaxCommandRecords, 2 * Taken + Receipts)
             c == left \div 2
             d == Monus(Remaining(mem), Taken)
  <1>1. /\ MaxInflight \in Nat /\ MaxInflightPerCamera \in Nat /\ MaxCommandRecords \in Nat
    BY RuntimeAssumption
  <1>2. own \in Nat /\ Taken \in Nat /\ Receipts \in Nat /\ Remaining(mem) \in Nat
    <2>1. /\ Cardinality(inflight \cap IdsOf(cam)) \in Nat
          /\ Cardinality({i \in DOMAIN incoming : CameraOf[incoming[i]] = cam}) \in Nat
      BY CountTypes
    <2>2. Taken \in Nat /\ Receipts \in Nat /\ Remaining(mem) \in Nat
      BY CountTypes
    <2> QED BY <2>1, <2>2
  <1>3. 2 * Taken + Receipts \in Nat
    BY <1>2
  <1> HIDE DEF own
  <1>4. a \in Nat /\ b \in Nat /\ left \in Nat /\ d \in Nat
    BY <1>1, <1>2, <1>3, MonusType
  <1> HIDE DEF left
  <1>5. c \in Nat
    BY <1>4, HalfType
  <1>6. Capacity(cam) = Min({a, b, c, d})
    BY DEF Capacity, own, left
  <1> HIDE DEF a, b, c, d
  <1>7. LET m == Min({a, b, c, d})
        IN  m \in Nat /\ m <= a /\ m <= b /\ m <= c /\ m <= d
    BY <1>4, <1>5, MinOfFour
  <1> QED BY <1>6, <1>7 DEF a, b, c, d, left, own

LEMMA SendSnapshotSound ==
    ASSUME IInv, LInv, NEW cam \in Cameras, SendSnapshot(cam)
    PROVE  [Next]_vars /\ LInv'
  <1> USE DEF SendSnapshot
  <1> DEFINE sent == {<<id, results[id]>> : id \in Known(results) \cap IdsOf(cam)}
             n == [camera |-> cam, revision |-> revision[cam], sent |-> sent,
                   capacity |-> Capacity(cam), outcome |-> "waiting", commands |-> << >>]
  <1>1. RuntimeTypeOK /\ phase = "send" /\ cam \notin sending
    BY DEF LInv, Due
  <1>2. /\ phase' \in {"commands", "send"} /\ snapshots' = snapshots \cup {n}
        /\ sending' = sending \cup {cam}
        /\ reserved' = [reserved EXCEPT ![cam] = Capacity(cam)]
    BY DEF AfterSend
  <1>3. Capacity(cam) \in Nat
    BY <1>1, CapacityBounds
  <1>4. sent \in SUBSET (Ids \X Verdicts)
    <2>1. \A id \in Known(results) : id \in Ids /\ results[id] \in Verdicts
      BY <1>1 DEF Known, RuntimeTypeOK
    <2> QED BY <2>1
  <1> HIDE DEF sent
  <1>5. /\ n \in Snapshot
        /\ n.camera = cam /\ n.revision = revision[cam] /\ n.outcome = "waiting"
        /\ n.commands = << >>
    BY <1>1, <1>3, <1>4 DEF Snapshot, RuntimeTypeOK
  <1> HIDE DEF n
  <1>6. UNCHANGED <<vars, environmentVars, ticked, loaded, revision, toCancel, incoming,
                    commandVars, answered>>
    OBVIOUS
  <1>7. RuntimeTypeOK'
    <2>1. reserved' \in [Cameras -> Nat] /\ sending' \subseteq Cameras
      BY <1>1, <1>2, <1>3 DEF RuntimeTypeOK
    <2>2. \A t \in snapshots' : t \in Snapshot
      BY <1>1, <1>2, <1>5 DEF RuntimeTypeOK
    <2>3. phase' \in Phases /\ phase' # "down" /\ up
      BY <1>1, <1>2 DEF Phases, RuntimeTypeOK
    <2> QED BY <1>1, <1>6, <2>1, <2>2, <2>3 DEF RuntimeTypeOK, vars, environmentVars, commandVars
  <1>8. \A c \in Cameras : PendingSound(c)'
    BY <1>6 DEF LInv, PendingSound, commandVars
  <1>9. \A c \in Cameras : Cardinality(inflight' \cap IdsOf(c)) <= MaxInflightPerCamera
    BY <1>6 DEF LInv, commandVars
  <1>10. \A u : Fits(u)' <=> Fits(u)
    BY <1>6 DEF Fits
  <1>11. \A u \in snapshots : Fits(u) => u.camera # cam
    BY <1>1 DEF LInv, SnapshotSound
  <1>12. ASSUME NEW u \in snapshots' PROVE SnapshotSound(u)'
    <2>1. CASE u \in snapshots
      <3>1. SnapshotSound(u)
        BY <2>1 DEF LInv
      <3>2. \A s \in snapshots' : Fits(s) /\ Fits(u) /\ s.camera = u.camera => s = u
        BY <1>2, <1>5, <1>11, <2>1, <3>1 DEF SnapshotSound
      <3> QED BY <1>2, <1>6, <1>10, <3>1, <3>2 DEF SnapshotSound
    <2>2. CASE u = n
      <3>1. u.revision <= revision[u.camera] /\ u.camera \in sending'
        BY <1>1, <1>2, <1>5, <2>2 DEF RuntimeTypeOK
      <3>2. OfCamera(u.camera, u.commands) /\ Distinct(u.commands)
        BY <1>5, <2>2, NothingReceived
      <3>3. \A s \in snapshots' : Fits(s) /\ Fits(u) /\ s.camera = u.camera => s = u
        BY <1>2, <1>5, <1>11, <2>2
      <3> QED BY <1>6, <1>10, <3>1, <3>2, <3>3 DEF SnapshotSound
    <2> QED BY <1>2, <2>1, <2>2
  <1>13. IncomingSound'
    BY <1>1, <1>2, <1>6 DEF LInv, IncomingSound
  <1>14. ASSUME NEW c \in Cameras PROVE WorkerKept(c)'
    <2>1. WorkerKept(c)
      BY DEF LInv
    <2>2. (HeldIds(c)' = HeldIds(c)) /\ (CurrentWorker(c)' <=> CurrentWorker(c))
             /\ (Zombie(c)' <=> Zombie(c))
      BY <1>6 DEF HeldIds, IdsIn, CurrentWorker, Zombie, vars, commandVars
    <2>3. Zombie(c) => \A s \in snapshots' : Fits(s)' /\ s.camera = c => s.outcome # "ok"
      BY <1>2, <1>5, <1>10, <2>1 DEF WorkerKept
    <2> QED BY <1>6, <2>1, <2>2, <2>3 DEF WorkerKept, vars, commandVars
  <1>15. CancelReady'
    BY <1>1, <1>2, <1>6 DEF LInv, CancelReady, vars
  <1> QED BY <1>6, <1>7, <1>8, <1>9, <1>12, <1>13, <1>14, <1>15 DEF LInv

-----------------------------------------------------------------------------
(***************************************************************************)
(* Commands: collection of workers, admission, launch.                     *)
(***************************************************************************)
\* What the loop takes from a finished worker.
LEMMA WorkerOutput ==
    ASSUME IInv, RuntimeTypeOK, NEW cam \in Cameras
    PROVE  /\ WorkerResults(cam) \in [Ids -> Verdicts \cup {NoVerdict}]
           /\ \A x \in returned[cam] : [verdict |-> x.verdict, until |-> DedupUntil(x.request)]
                    \in [verdict : Verdicts \cup {NoVerdict}, until : Nat]
  <1>1. \A x \in returned[cam] : x.verdict \in Verdicts /\ x.request \in Requests
    BY DEF IInv, TypeOK, Results
  <1>2. \A r \in Requests : DedupUntil(r) \in Nat
    BY LedgerAssumption DEF DedupUntil
  <1>3. WorkerResults(cam) \in [Ids -> Verdicts \cup {NoVerdict}]
    <2>1. \A id \in Ids : results[id] \in Verdicts \cup {NoVerdict}
      BY DEF RuntimeTypeOK
    <2>2. ASSUME NEW id \in Ids
          PROVE  WorkerResults(cam)[id] \in Verdicts \cup {NoVerdict}
      <3>1. CASE \E x \in returned[cam] : IdOf[x.request] = id
        <4> DEFINE x == CHOOSE x \in returned[cam] : IdOf[x.request] = id
        <4>1. x \in returned[cam]
          BY <3>1
        <4>2. WorkerResults(cam)[id] = x.verdict
          BY <3>1 DEF WorkerResults
        <4> HIDE DEF x
        <4> QED BY <1>1, <4>1, <4>2
      <3>2. CASE ~\E x \in returned[cam] : IdOf[x.request] = id
        BY <2>1, <3>2 DEF WorkerResults
      <3> QED BY <3>1, <3>2
    <2> QED BY <2>2 DEF WorkerResults
  <1> QED BY <1>1, <1>2, <1>3

LEMMA CollectWorkerSound ==
    ASSUME IInv, LInv, NEW cam \in Cameras, CollectWorker(cam)
    PROVE  [Next]_vars /\ LInv'
  <1>1. /\ phase = "commands" /\ Collect(cam) /\ UNCHANGED <<environmentVars, answered>>
        /\ RuntimeTypeOK /\ up
    BY DEF CollectWorker, Collect, LInv
  <1>2. Next
    BY <1>1 DEF Next, LoopStep
  <1>3. CASE ~up'
    <2>1. Halted /\ LoopEnds
      BY <1>1, <1>3 DEF Collect, CollectWorker
    <2> QED BY <1>1, <1>2, <2>1, PassEnds
  <1>4. CASE up'
    <2>1. /\ pc[cam] = "done"
          /\ pc' = [pc EXCEPT ![cam] = "idle"]
          /\ queue' = [queue EXCEPT ![cam] = << >>]
          /\ aborted' = [aborted EXCEPT ![cam] = FALSE]
          /\ returned' = [returned EXCEPT ![cam] = {}]
          /\ up' = up
      BY <1>1, <1>4 DEF Collect, Halted
    <2>2. /\ pc'[cam] = "idle" /\ queue'[cam] = << >> /\ ~aborted'[cam] /\ returned'[cam] = {}
          /\ \A c \in Cameras : c # cam => /\ pc'[c] = pc[c] /\ queue'[c] = queue[c]
                                           /\ aborted'[c] = aborted[c] /\ returned'[c] = returned[c]
      BY <2>1 DEF IInv, TypeOK
    <2>3. \A c \in Cameras : WindsDown(c)
      <3>1. WindsDown(cam)
        BY <2>2 DEF WindsDown, HeldIds, IdsIn, Running
      <3>2. \A c \in Cameras : \A x \in returned[c] : CameraOf[x.request] = c
        BY DEF LInv, WorkerKept
      <3> QED BY <2>2, <3>1, <3>2, WorkerRests
    <2>4. CASE UNCHANGED loopVars
      <3>1. RuntimeTypeOK'
        BY <1>1, <2>1, <2>4 DEF RuntimeTypeOK, environmentVars, loopVars, passVars, snapshotVars, commandVars
      <3> QED BY <1>2, <2>3, <2>4, <3>1, LoopFrame
    <2>5. CASE ~UNCHANGED loopVars
      <3> DEFINE ids == {IdOf[x.request] : x \in returned[cam]}
      <3>1. /\ CurrentWorker(cam)
            /\ handles' = handles \ {cam}
            /\ inflight' = inflight \ ids
            /\ results' = WorkerResults(cam)
            /\ completed' = [id \in Ids |->
                              IF \E x \in returned[cam] : IdOf[x.request] = id /\ x.fresh
                              THEN LET x == CHOOSE x \in returned[cam] : IdOf[x.request] = id
                                   IN  [verdict |-> x.verdict, until |-> DedupUntil(x.request)]
                              ELSE completed[id]]
            /\ UNCHANGED <<passVars, snapshotVars, pending, workerRevision>>
        BY <1>4, <2>5 DEF CollectWorker
      <3>2. ids \subseteq HeldIds(cam) /\ HeldIds(cam) \subseteq IdsOf(cam)
        BY OwnIds DEF HeldIds
      <3> HIDE DEF ids
      <3>3. completed' \in [Ids -> [verdict : Verdicts \cup {NoVerdict}, until : Nat]]
        <4>1. \A id \in Ids : completed'[id] \in [verdict : Verdicts \cup {NoVerdict}, until : Nat]
          <5> SUFFICES ASSUME NEW id \in Ids
                       PROVE  completed'[id] \in [verdict : Verdicts \cup {NoVerdict}, until : Nat]
            OBVIOUS
          <5>1. CASE \E x \in returned[cam] : IdOf[x.request] = id /\ x.fresh
            <6> DEFINE x == CHOOSE x \in returned[cam] : IdOf[x.request] = id
            <6>1. x \in returned[cam]
              BY <5>1
            <6>2. completed'[id] = [verdict |-> x.verdict, until |-> DedupUntil(x.request)]
              BY <3>1, <5>1
            <6> HIDE DEF x
            <6> QED BY <1>1, <6>1, <6>2, WorkerOutput
          <5>2. CASE ~\E x \in returned[cam] : IdOf[x.request] = id /\ x.fresh
            <6>1. completed'[id] = completed[id]
              BY <3>1, <5>2
            <6> QED BY <1>1, <6>1 DEF RuntimeTypeOK
          <5> QED BY <5>1, <5>2
        <4> DEFINE entry(id) == IF \E x \in returned[cam] : IdOf[x.request] = id /\ x.fresh
                              THEN LET x == CHOOSE x \in returned[cam] : IdOf[x.request] = id
                                   IN  [verdict |-> x.verdict, until |-> DedupUntil(x.request)]
                              ELSE completed[id]
        <4>2. completed' = [id \in Ids |-> entry(id)]
          BY <3>1
        <4> HIDE DEF entry
        <4> QED BY <4>1, <4>2
      <3>4. RuntimeTypeOK'
        <4>1. results' \in [Ids -> Verdicts \cup {NoVerdict}]
          BY <1>1, <3>1, WorkerOutput
        <4>2. inflight' \subseteq Ids /\ handles' \subseteq Cameras
          BY <1>1, <3>1 DEF RuntimeTypeOK
        <4> QED BY <1>1, <2>1, <3>1, <3>3, <4>1, <4>2
                DEF RuntimeTypeOK, environmentVars, passVars, snapshotVars
      <3>5. ASSUME NEW c \in Cameras, NEW S, S \subseteq inflight, S \subseteq IdsOf(c),
                   c # cam \/ S \cap HeldIds(cam) = {}
            PROVE  S \subseteq inflight'
        BY <3>1, <3>2, <3>5, IdsApart
      <3>6. ASSUME NEW c \in Cameras PROVE PendingSound(c)'
        <4>1. PendingSound(c) /\ IdsIn(pending[c]) \subseteq IdsOf(c)
          BY OwnIds DEF LInv
        <4>2. c = cam => IdsIn(pending[c]) \cap HeldIds(cam) = {}
          BY <2>1, <3>1 DEF LInv, WorkerKept
        <4>3. IdsIn(pending[c]) \subseteq inflight'
          BY <3>5, <4>1, <4>2 DEF PendingSound
        <4> QED BY <3>1, <4>1, <4>3 DEF PendingSound
      <3>7. \A c \in Cameras : Cardinality(inflight' \cap IdsOf(c)) <= MaxInflightPerCamera
        BY <3>1, SubsetBounded
      <3>8. /\ UNCHANGED <<phase, ticked, loaded, revision, toCancel, incoming, sending, snapshots>>
        BY <3>1 DEF passVars, snapshotVars
      <3>9. \A t \in snapshots' : SnapshotSound(t)'
        BY <3>8 DEF LInv, SnapshotSound, Fits
      <3>10. IncomingSound'
        BY <3>8 DEF LInv, IncomingSound, Fits
      <3>11. ASSUME NEW c \in Cameras PROVE WorkerKept(c)'
        <4>1. WorkerKept(c) /\ WindsDown(c)
          BY <2>3 DEF LInv
        <4>2. (CurrentWorker(c)' <=> CurrentWorker(c)) /\ (Zombie(c)' => Zombie(c))
          BY <3>1, <3>8, <4>1 DEF CurrentWorker, WindsDown, Zombie
        <4>3. CASE c = cam
          BY <2>2, <3>1, <3>8, <4>1, <4>2, <4>3 DEF WorkerKept, WindsDown, Zombie, Running
        <4>4. CASE c # cam
          <5>1. HeldIds(c)' = HeldIds(c) /\ HeldIds(c) \subseteq IdsOf(c)
            BY <2>2, <4>4, OwnIds DEF HeldIds
          <5>2. pc[c] # "idle" /\ CurrentWorker(c) => HeldIds(c) \subseteq inflight'
            BY <3>5, <4>1, <4>4, <5>1 DEF WorkerKept
          <5> QED BY <2>2, <3>1, <3>8, <4>1, <4>2, <4>4, <5>1, <5>2 DEF WorkerKept, Fits
        <4> QED BY <4>3, <4>4
      <3>12. CancelReady'
        BY <1>1, <3>8 DEF LInv, CancelReady
      <3> QED BY <1>2, <3>4, <3>6, <3>7, <3>9, <3>10, <3>11, <3>12 DEF LInv
    <2> QED BY <2>4, <2>5
  <1>5. up' \in BOOLEAN
    BY <1>2, StepSound DEF IInv, TypeOK
  <1> QED BY <1>3, <1>4, <1>5

LEMMA LaunchOneSound ==
    ASSUME IInv, LInv, NEW cam \in Cameras, LaunchOne(cam)
    PROVE  [Next]_vars /\ LInv'
  <1> USE DEF LaunchOne, Launch
  <1> DEFINE q == pending[cam]
             n == Len(q)
  <1>1. /\ RuntimeTypeOK /\ phase = "launch" /\ q # << >>
        /\ PendingSound(cam) /\ q \in Seq(Requests)
    BY DEF LInv, RuntimeTypeOK, Ready
  <1>2. n \in Nat /\ n > 0 /\ DOMAIN q = 1..n
    BY <1>1
  <1>3. OfCamera(cam, q) /\ Distinct(q) /\ IdsIn(q) \subseteq inflight /\ IdsIn(q) \subseteq IdsOf(cam)
    BY <1>1, OwnIds DEF PendingSound
  <1> HIDE DEF q
  <1>4. n <= MaxBatch
    <2> DEFINE S == inflight \cap IdsOf(cam)
               f == [i \in 1..n |-> IdOf[q[i]]]
    <2>1. S \in SUBSET Ids
      BY IdsApart
    <2>2. IsFiniteSet(S) /\ Cardinality(S) \in Nat
      BY <2>1, RuntimeAssumption, FS_Subset, FS_CardinalityType
    <2>3. \A i \in 1..n : IdOf[q[i]] \in S
      BY <1>2, <1>3 DEF IdsIn
    <2> HIDE DEF S
    <2>4. f \in Injection(1..n, S)
      <3>1. f \in [1..n -> S]
        BY <2>3
      <3>2. \A i, j \in 1..n : f[i] = f[j] => i = j
        BY <1>2, <1>3 DEF Distinct
      <3> QED BY <3>1, <3>2 DEF Injection, IsInjective
    <2> HIDE DEF f
    <2>5. Cardinality(1..n) = n
      BY <1>2, FS_Interval
    <2>6. n <= Cardinality(S)
      BY <2>2, <2>4, <2>5, FS_Injection
    <2>7. Cardinality(S) <= MaxInflightPerCamera
      BY DEF LInv, S
    <2> QED BY <1>2, <2>2, <2>6, <2>7, RuntimeAssumption, ExecutionAssumption
  <1>5. q \in Batches(cam)
    <2> DEFINE own == {r \in Requests : CameraOf[r] = cam}
    <2>1. n \in 1..MaxBatch
      BY <1>2, <1>4, ExecutionAssumption
    <2>2. q \in [1..n -> own]
      BY <1>1, <1>2, <1>3 DEF OfCamera
    <2>3. \A i, j \in DOMAIN q : IdOf[q[i]] = IdOf[q[j]] => i = j
      BY <1>3 DEF Distinct
    <2> QED BY <2>1, <2>2, <2>3 DEF Batches
  <1>6. Next
    <2>1. Launch(cam, q)
      BY DEF q
    <2> QED BY <1>5, <2>1 DEF Next, LoopStep
  <1>7. /\ phase' \in {"select", "launch"} /\ up' = up
        /\ pending' = [pending EXCEPT ![cam] = << >>]
        /\ handles' = handles \cup {cam}
        /\ workerRevision' = [workerRevision EXCEPT ![cam] = revision[cam]]
        /\ UNCHANGED <<environmentVars, ticked, loaded, revision, toCancel, incoming, snapshotVars,
                       inflight, results, completed, answered>>
    BY DEF AfterLaunch
  <1>8. /\ pc' = [pc EXCEPT ![cam] = "replay"] /\ queue' = [queue EXCEPT ![cam] = q]
        /\ returned' = [returned EXCEPT ![cam] = {}] /\ aborted' = aborted
    BY DEF q
  <1>9. /\ pending'[cam] = << >> /\ workerRevision'[cam] = revision[cam]
        /\ queue'[cam] = q /\ returned'[cam] = {} /\ pc'[cam] = "replay"
        /\ \A c \in Cameras : c # cam =>
              /\ pending'[c] = pending[c] /\ workerRevision'[c] = workerRevision[c]
              /\ queue'[c] = queue[c] /\ returned'[c] = returned[c] /\ pc'[c] = pc[c]
    BY <1>1, <1>7, <1>8 DEF RuntimeTypeOK, IInv, TypeOK
  <1>10. RuntimeTypeOK'
    <2>1. pending' \in [Cameras -> Seq(Requests)]
      <3>1. << >> \in Seq(Requests)
        OBVIOUS
      <3> QED BY <1>1, <1>7, <3>1 DEF RuntimeTypeOK
    <2>2. workerRevision' \in [Cameras -> Nat]
      BY <1>1, <1>7 DEF RuntimeTypeOK
    <2>3. handles' \subseteq Cameras /\ phase' \in Phases /\ phase' # "down" /\ up
      BY <1>1, <1>7 DEF RuntimeTypeOK, Phases
    <2> QED BY <1>1, <1>7, <2>1, <2>2, <2>3 DEF RuntimeTypeOK, environmentVars, snapshotVars
  <1>11. ASSUME NEW c \in Cameras PROVE PendingSound(c)'
    <2>1. PendingSound(c) /\ inflight' = inflight
      BY <1>7 DEF LInv
    <2> QED BY <1>9, <2>1 DEF PendingSound, OfCamera, Distinct, IdsIn
  <1>12. \A c \in Cameras : Cardinality(inflight' \cap IdsOf(c)) <= MaxInflightPerCamera
    BY <1>7 DEF LInv
  <1>13. \A t \in snapshots' : SnapshotSound(t)'
    BY <1>7 DEF LInv, SnapshotSound, Fits, snapshotVars
  <1>14. IncomingSound'
    <2>1. incoming' = << >>
      BY <1>1, <1>7 DEF LInv, IncomingSound
    <2> QED BY <1>7, <2>1 DEF IncomingSound, Distinct
  <1>15. ASSUME NEW c \in Cameras PROVE WorkerKept(c)'
    <2>1. WorkerKept(c)
      BY DEF LInv
    <2>2. incoming' = << >>
      BY <1>1, <1>7 DEF LInv, IncomingSound
    <2>3. CASE c = cam
      <3>1. ~aborted'[c] /\ c \in handles'
        BY <1>1, <1>7, <1>8, <2>1, <2>3 DEF WorkerKept, q
      <3>2. HeldIds(c)' = IdsIn(q)
        BY <1>9, <2>3 DEF HeldIds
      <3>3. IdsIn(pending'[c]) = {}
        BY <1>9, <2>3 DEF IdsIn
      <3>4. workerRevision'[c] <= revision'[c]
        BY <1>1, <1>7, <1>9, <2>3 DEF RuntimeTypeOK
      <3>5. HeldIds(c)' \subseteq inflight' /\ HeldIds(c)' \cap IdsIn(pending'[c]) = {}
        BY <1>3, <1>7, <3>2, <3>3
      <3>6. \A x \in returned'[c] : CameraOf[x.request] = c
        BY <1>9, <2>3
      <3> QED BY <1>9, <2>3, <3>1, <3>4, <3>5, <3>6 DEF WorkerKept, Zombie
    <2>4. CASE c # cam
      <3>1. HeldIds(c)' = HeldIds(c) /\ (CurrentWorker(c)' <=> CurrentWorker(c))
             /\ (Zombie(c)' <=> Zombie(c))
        BY <1>7, <1>8, <1>9, <2>4 DEF HeldIds, CurrentWorker, Zombie
      <3> QED BY <1>7, <1>8, <1>9, <2>1, <2>2, <2>4, <3>1 DEF WorkerKept, Fits, snapshotVars
    <2> QED BY <2>3, <2>4
  <1>16. CancelReady'
    BY <1>1, <1>7 DEF LInv, CancelReady
  <1> QED BY <1>6, <1>10, <1>11, <1>12, <1>13, <1>14, <1>15, <1>16 DEF LInv

\* What enqueue_device_commands lets through stays within the limits.
LEMMA WithinLimits ==
    ASSUME RuntimeTypeOK, ~EnqueueOverflows
    PROVE  LET ids == inflight \cup {IdOf[r] : r \in Fresh}
           IN  \A cam \in Cameras : Cardinality(ids \cap IdsOf(cam)) <= MaxInflightPerCamera
  <1> DEFINE ids == inflight \cup {IdOf[r] : r \in Fresh}
  <1> SUFFICES ASSUME NEW cam \in Cameras
               PROVE  Cardinality(ids \cap IdsOf(cam)) <= MaxInflightPerCamera
    OBVIOUS
  <1>1. ~(Cardinality(ids \cap IdsOf(cam)) > MaxInflightPerCamera)
    BY DEF EnqueueOverflows
  <1>2. (ids \cap IdsOf(cam)) \in SUBSET Ids
    BY IdsApart
  <1>3. Cardinality(ids \cap IdsOf(cam)) \in Nat
    BY <1>2, RuntimeAssumption, FS_Subset, FS_CardinalityType
  <1> HIDE DEF ids
  <1> QED BY <1>1, <1>3, RuntimeAssumption

\* What is queued for a camera: the fresh commands of the batch that are its own.
LEMMA QueuedCommands ==
    ASSUME RuntimeTypeOK, Distinct(incoming), NEW cam \in Cameras
    PROVE  LET q == Selected(incoming, {r \in Fresh : CameraOf[r] = cam})
           IN  /\ q \in Seq(Requests)
               /\ OfCamera(cam, q) /\ Distinct(q)
               /\ \A i \in DOMAIN q : q[i] \in Fresh
  <1> DEFINE S == {r \in Fresh : CameraOf[r] = cam}
             q == Selected(incoming, S)
  <1>1. incoming \in Seq(Requests)
    BY DEF RuntimeTypeOK
  <1>2. /\ q \in Seq(Requests)
        /\ \A x \in Requests : (\E i \in DOMAIN q : q[i] = x)
                     <=> x \in S /\ \E j \in DOMAIN incoming : incoming[j] = x
        /\ (\A i, j \in DOMAIN incoming : incoming[i] = incoming[j] => i = j)
             => \A i, j \in DOMAIN q : q[i] = q[j] => i = j
    BY <1>1, SelectedElements
  <1>3. \A i, j \in DOMAIN incoming : incoming[i] = incoming[j] => i = j
    BY DEF Distinct
  <1> HIDE DEF q
  <1>4. \A i \in DOMAIN q : q[i] \in Requests
    BY <1>2
  <1>5. \A i \in DOMAIN q : q[i] \in S /\ \E j \in DOMAIN incoming : incoming[j] = q[i]
    BY <1>2, <1>4
  <1>6. ASSUME NEW i \in DOMAIN q, NEW j \in DOMAIN q, IdOf[q[i]] = IdOf[q[j]]
        PROVE  i = j
    <2>1. PICK k \in DOMAIN incoming : incoming[k] = q[i]
      BY <1>5
    <2>2. PICK l \in DOMAIN incoming : incoming[l] = q[j]
      BY <1>5
    <2>3. k = l
      BY <1>6, <2>1, <2>2 DEF Distinct
    <2> QED BY <1>2, <1>3, <2>1, <2>2, <2>3
  <1>7. OfCamera(cam, q) /\ Distinct(q) /\ \A i \in DOMAIN q : q[i] \in Fresh
    BY <1>5, <1>6 DEF OfCamera, Distinct
  <1> QED BY <1>2, <1>7 DEF q

\* A queue with fresh commands appended.
LEMMA QueueGrows ==
    ASSUME NEW cam \in Cameras, NEW p \in Seq(Requests), NEW q \in Seq(Requests),
           OfCamera(cam, p), Distinct(p), OfCamera(cam, q), Distinct(q),
           IdsIn(p) \cap IdsIn(q) = {}
    PROVE  /\ p \o q \in Seq(Requests)
           /\ OfCamera(cam, p \o q) /\ Distinct(p \o q)
           /\ IdsIn(p \o q) = IdsIn(p) \cup IdsIn(q)
           /\ p \o q = << >> => p = << >>
           /\ p \o q # << >> => p # << >> \/ \E i \in DOMAIN q : TRUE
  <1> DEFINE pq == p \o q
  <1>1. /\ pq \in Seq(Requests)
        /\ \A i \in DOMAIN pq : \/ i \in DOMAIN p /\ pq[i] = p[i]
                                \/ /\ i \notin DOMAIN p
                                   /\ i - Len(p) \in DOMAIN q
                                   /\ pq[i] = q[i - Len(p)]
        /\ DOMAIN pq \subseteq Nat /\ Len(p) \in Nat
        /\ DOMAIN p \subseteq DOMAIN pq
        /\ \A i \in DOMAIN p : pq[i] = p[i]
        /\ \A j \in DOMAIN q : j + Len(p) \in DOMAIN pq /\ pq[j + Len(p)] = q[j]
    BY ConcatElements
  <1>2. pq = << >> => p = << >>
    OBVIOUS
  <1>3. pq # << >> => p # << >> \/ \E i \in DOMAIN q : TRUE
    <2>1. DOMAIN q = {} => q = << >>
      OBVIOUS
    <2>2. << >> \o << >> = << >>
      OBVIOUS
    <2> QED BY <2>1, <2>2
  <1> HIDE DEF pq
  <1>4. OfCamera(cam, pq)
    BY <1>1 DEF OfCamera
  <1>5. ASSUME NEW i \in DOMAIN pq, NEW j \in DOMAIN pq, IdOf[pq[i]] = IdOf[pq[j]]
        PROVE  i = j
    <2>1. CASE i \in DOMAIN p /\ j \in DOMAIN p
      BY <1>1, <1>5, <2>1 DEF Distinct
    <2>2. CASE i \notin DOMAIN p /\ j \notin DOMAIN p
      <3>1. i - Len(p) = j - Len(p)
        BY <1>1, <1>5, <2>2 DEF Distinct
      <3>2. i \in Nat /\ j \in Nat /\ Len(p) \in Nat
        BY <1>1
      <3> QED BY <3>1, <3>2
    <2>3. CASE i \in DOMAIN p /\ j \notin DOMAIN p
      <3>1. IdOf[pq[i]] \in IdsIn(p) /\ IdOf[pq[j]] \in IdsIn(q)
        BY <1>1, <2>3 DEF IdsIn
      <3> QED BY <1>5, <3>1
    <2>4. CASE i \notin DOMAIN p /\ j \in DOMAIN p
      <3>1. IdOf[pq[j]] \in IdsIn(p) /\ IdOf[pq[i]] \in IdsIn(q)
        BY <1>1, <2>4 DEF IdsIn
      <3> QED BY <1>5, <3>1
    <2> QED BY <2>1, <2>2, <2>3, <2>4
  <1>6. IdsIn(pq) \subseteq IdsIn(p) \cup IdsIn(q)
    BY <1>1 DEF IdsIn
  <1>7. IdsIn(p) \subseteq IdsIn(pq)
    BY <1>1 DEF IdsIn
  <1>8. IdsIn(q) \subseteq IdsIn(pq)
    BY <1>1 DEF IdsIn
  <1>9. Distinct(pq)
    BY <1>5 DEF Distinct
  <1> QED BY <1>1, <1>2, <1>3, <1>4, <1>6, <1>7, <1>8, <1>9 DEF pq

LEMMA EnqueueSound ==
    ASSUME IInv, LInv, EnqueueAndAdmit
    PROVE  [Next]_vars /\ LInv'
  <1>1. /\ phase = "commands" /\ UNCHANGED <<environmentVars, answered>> /\ up
        /\ RuntimeTypeOK /\ IncomingSound /\ incoming \in Seq(Requests)
    BY DEF EnqueueAndAdmit, LInv, RuntimeTypeOK
  <1>2. CASE Halt /\ LoopEnds
    BY <1>1, <1>2, PassEnds DEF Halt, Next
  <1>3. CASE ~EnqueueOverflows /\ Admit(Batch)
    <2>1. Batch \in SUBSET Requests
      BY <1>1 DEF Batch
    <2>2. Next
      BY <1>3, <2>1 DEF Next, LoopStep
    <2>3. CASE ~up'
      <3>1. Halted
        BY <1>1, <1>3, <2>3 DEF Admit, SaveByLoop, Saved, SaveFails
      <3>2. LoopEnds
        BY <2>3 DEF EnqueueAndAdmit, LoopEnds, Halt, Halted
      <3> QED BY <1>1, <2>2, <3>1, <3>2, PassEnds
    <2>4. CASE up'
      <3> DEFINE fresh == {IdOf[r] : r \in Fresh}
                 q(cam) == Selected(incoming, {r \in Fresh : CameraOf[r] = cam})
      <3>1. /\ incoming' = << >>
            /\ completed' = [id \in Ids |-> IF id \in Live THEN completed[id] ELSE NotCompleted]
            /\ results' = [id \in Ids |-> IF \E r \in Resent : IdOf[r] = id
                                          THEN completed[id].verdict ELSE results[id]]
            /\ inflight' = inflight \cup fresh
            /\ pending' = [cam \in Cameras |-> pending[cam] \o q(cam)]
            /\ phase' = AfterLaunch(pending', handles)
            /\ ticked' = FALSE
            /\ UNCHANGED <<loaded, revision, toCancel, snapshotVars, handles, workerRevision>>
        BY <2>4 DEF EnqueueAndAdmit, Halt, Halted
      <3>2. UNCHANGED workerVars /\ \A r \in Batch : ~aborted[CameraOf[r]]
        BY <1>3, <2>4 DEF Admit, SaveByLoop, Saved, SaveFails, Halted
      <3>3. /\ Fresh \subseteq Batch /\ Fresh \subseteq Requests
            /\ fresh \subseteq Ids /\ fresh \cap inflight = {}
        <4>1. Fresh \subseteq Batch /\ \A r \in Fresh : IdOf[r] \notin inflight
          BY DEF Fresh
        <4> QED BY <2>1, <4>1, LedgerAssumption
      <3>4. ASSUME NEW cam \in Cameras
            PROVE  /\ q(cam) \in Seq(Requests) /\ OfCamera(cam, q(cam)) /\ Distinct(q(cam))
                   /\ \A i \in DOMAIN q(cam) : q(cam)[i] \in Fresh
                   /\ IdsIn(q(cam)) \subseteq fresh
        <4>1. /\ q(cam) \in Seq(Requests) /\ OfCamera(cam, q(cam)) /\ Distinct(q(cam))
              /\ \A i \in DOMAIN q(cam) : q(cam)[i] \in Fresh
          BY <1>1, QueuedCommands DEF IncomingSound
        <4> HIDE DEF q
        <4> QED BY <4>1 DEF IdsIn
      <3> HIDE DEF q, fresh
      <3>5. ASSUME NEW cam \in Cameras
            PROVE  /\ pending'[cam] \in Seq(Requests)
                   /\ OfCamera(cam, pending'[cam]) /\ Distinct(pending'[cam])
                   /\ IdsIn(pending'[cam]) = IdsIn(pending[cam]) \cup IdsIn(q(cam))
                   /\ pending'[cam] # << >> => ~aborted[cam]
        <4>1. PendingSound(cam) /\ pending[cam] \in Seq(Requests) /\ WorkerKept(cam)
          BY DEF LInv, RuntimeTypeOK
        <4>2. pending'[cam] = pending[cam] \o q(cam)
          BY <3>1
        <4>3. IdsIn(pending[cam]) \cap IdsIn(q(cam)) = {}
          BY <3>3, <3>4, <4>1 DEF PendingSound
        <4>4. /\ pending'[cam] \in Seq(Requests)
              /\ OfCamera(cam, pending'[cam]) /\ Distinct(pending'[cam])
              /\ IdsIn(pending'[cam]) = IdsIn(pending[cam]) \cup IdsIn(q(cam))
              /\ pending'[cam] # << >> => pending[cam] # << >> \/ \E i \in DOMAIN q(cam) : TRUE
          BY <3>4, <4>1, <4>2, <4>3, QueueGrows DEF PendingSound
        <4>5. ASSUME NEW i \in DOMAIN q(cam) PROVE ~aborted[cam]
          <5>1. q(cam)[i] \in Batch /\ CameraOf[q(cam)[i]] = cam
            BY <3>3, <3>4, <4>5 DEF OfCamera
          <5> QED BY <3>2, <5>1
        <4>6. pending[cam] # << >> => ~aborted[cam]
          BY <4>1 DEF WorkerKept
        <4> QED BY <4>4, <4>5, <4>6
      <3>6. RuntimeTypeOK'
        <4>1. pending' \in [Cameras -> Seq(Requests)]
          <5> DEFINE f(cam) == pending[cam] \o q(cam)
          <5>1. pending' = [cam \in Cameras |-> f(cam)] /\ \A cam \in Cameras : f(cam) \in Seq(Requests)
            BY <3>1, <3>5
          <5> HIDE DEF f
          <5> QED BY <5>1
        <4>2. completed' \in [Ids -> [verdict : Verdicts \cup {NoVerdict}, until : Nat]]
          <5>1. NotCompleted \in [verdict : Verdicts \cup {NoVerdict}, until : Nat]
            BY DEF NotCompleted
          <5> QED BY <1>1, <3>1, <5>1 DEF RuntimeTypeOK
        <4>3. results' \in [Ids -> Verdicts \cup {NoVerdict}]
          BY <1>1, <3>1 DEF RuntimeTypeOK
        <4>4. phase' \in Phases /\ phase' # "down"
          BY <3>1 DEF AfterLaunch, Phases
        <4>5. inflight' \subseteq Ids /\ incoming' \in Seq(Requests) /\ ticked' \in BOOLEAN
          <5>1. << >> \in Seq(Requests) /\ inflight \subseteq Ids
            BY <1>1 DEF RuntimeTypeOK
          <5> QED BY <3>1, <3>3, <5>1, Zenon
        <4> QED BY <1>1, <2>4, <3>1, <4>1, <4>2, <4>3, <4>4, <4>5
                DEF RuntimeTypeOK, environmentVars, snapshotVars
      <3>7. ASSUME NEW cam \in Cameras PROVE PendingSound(cam)'
        <4>1. IdsIn(pending'[cam]) \subseteq inflight'
          BY <3>1, <3>4, <3>5 DEF LInv, PendingSound
        <4> QED BY <3>5, <4>1 DEF PendingSound
      <3>8. \A cam \in Cameras : Cardinality(inflight' \cap IdsOf(cam)) <= MaxInflightPerCamera
        BY <1>1, <1>3, <3>1, WithinLimits DEF fresh
      <3>9. \A t \in snapshots' : SnapshotSound(t)'
        BY <3>1 DEF LInv, SnapshotSound, Fits, snapshotVars
      <3>10. IncomingSound'
        <4>1. phase' # "snapshots"
          BY <3>1 DEF AfterLaunch
        <4> QED BY <3>1, <4>1 DEF IncomingSound, Distinct
      <3>11. ASSUME NEW cam \in Cameras PROVE WorkerKept(cam)'
        <4>1. WorkerKept(cam) /\ PendingSound(cam)
          BY DEF LInv
        <4>2. /\ HeldIds(cam)' = HeldIds(cam) /\ (CurrentWorker(cam)' <=> CurrentWorker(cam))
              /\ (Zombie(cam)' <=> Zombie(cam))
          BY <3>1, <3>2 DEF HeldIds, IdsIn, CurrentWorker, Zombie, workerVars
        <4>3. ASSUME pc[cam] # "idle", CurrentWorker(cam)
              PROVE  /\ HeldIds(cam) \subseteq inflight'
                     /\ HeldIds(cam) \cap IdsIn(pending'[cam]) = {}
          <5>1. HeldIds(cam) \subseteq inflight /\ HeldIds(cam) \cap IdsIn(pending[cam]) = {}
            BY <4>1, <4>3 DEF WorkerKept
          <5> QED BY <3>1, <3>3, <3>4, <3>5, <5>1
        <4> QED BY <3>1, <3>2, <3>5, <4>1, <4>2, <4>3 DEF WorkerKept, workerVars, snapshotVars, Fits
      <3>12. CancelReady'
        BY <1>1, <3>1 DEF LInv, CancelReady
      <3> QED BY <2>2, <3>6, <3>7, <3>8, <3>9, <3>10, <3>11, <3>12 DEF LInv
    <2>5. up' \in BOOLEAN
      BY <2>2, StepSound DEF IInv, TypeOK
    <2> QED BY <2>3, <2>4, <2>5
  <1> QED BY <1>2, <1>3 DEF EnqueueAndAdmit

-----------------------------------------------------------------------------
(***************************************************************************)
(* Every step of the program.                                              *)
(***************************************************************************)
LEMMA PassSound ==
    ASSUME IInv, LInv, Pass
    PROVE  [Next]_vars /\ LInv'
  <1>1. CASE Reload
    BY <1>1, ReloadSound
  <1>2. CASE ReloadFails
    BY <1>2, ReloadFailsSound
  <1>3. CASE \E r \in Requests : CancelOne(r)
    BY <1>3, CancelOneSound
  <1>4. CASE \E t \in snapshots : CollectSnapshot(t) \/ CollectPanic(t)
    BY <1>4, CollectSnapshotSound, CollectPanicSound
  <1>5. CASE SnapshotsCollected
    BY <1>5, SnapshotsCollectedSound
  <1>6. CASE \E cam \in Cameras : SendSnapshot(cam)
    BY <1>6, SendSnapshotSound
  <1>7. CASE \E cam \in Cameras : CollectWorker(cam)
    BY <1>7, CollectWorkerSound
  <1>8. CASE EnqueueAndAdmit
    BY <1>8, EnqueueSound
  <1>9. CASE \E cam \in Cameras : LaunchOne(cam)
    BY <1>9, LaunchOneSound
  <1> QED BY <1>1, <1>2, <1>3, <1>4, <1>5, <1>6, <1>7, <1>8, <1>9 DEF Pass

LEMMA RuntimeStepSound ==
    ASSUME IInv, LInv, [RuntimeNext]_runtimeVars
    PROVE  [Next]_vars /\ LInv'
  <1>1. CASE Boot
    BY <1>1, BootSound
  <1>2. CASE AwaitConfig \/ UNCHANGED runtimeVars
    BY <1>2, AwaitConfigSound DEF AwaitConfig
  <1>3. CASE Kill
    BY <1>3, KillSound
  <1>4. CASE Time
    BY <1>4, TimeSound
  <1>5. CASE \E cam \in Cameras : \E version \in Versions \cup {Unpaired} : EditConfig(cam, version)
    BY <1>5, EditSound
  <1>6. CASE \E cam \in Cameras : Work(cam)
    BY <1>6, WorkSound
  <1>7. CASE Network
    BY <1>7, NetworkSound
  <1>8. CASE Pass
    BY <1>8, PassSound
  <1> QED BY <1>1, <1>2, <1>3, <1>4, <1>5, <1>6, <1>7, <1>8 DEF RuntimeNext

LEMMA RuntimeInitSound == RuntimeInit => Init /\ LInv
  <1> SUFFICES ASSUME RuntimeInit PROVE LInv
    BY DEF RuntimeInit
  <1> USE DEF RuntimeInit
  <1>1. /\ up = FALSE /\ \A cam \in Cameras : pc[cam] = "idle" /\ ~aborted[cam] /\ returned[cam] = {}
    BY DEF Init
  <1>2. RuntimeTypeOK
    <2>1. edits \in 0..MaxEdits /\ crashes \in 0..MaxCrashes /\ panics \in 0..MaxPanics
      BY RuntimeAssumption
    <2>2. /\ incoming \in Seq(Requests) /\ pending \in [Cameras -> Seq(Requests)]
      OBVIOUS
    <2>3. /\ results \in [Ids -> Verdicts \cup {NoVerdict}]
          /\ completed \in [Ids -> [verdict : Verdicts \cup {NoVerdict}, until : Nat]]
      BY DEF NotCompleted
    <2>4. /\ loaded \in [Cameras -> Versions \cup {Unpaired}]
          /\ revision \in [Cameras -> Nat] /\ reserved \in [Cameras -> Nat]
          /\ workerRevision \in [Cameras -> Nat]
          /\ answered \in [Ids -> SUBSET Verdicts]
      OBVIOUS
    <2> QED BY <1>1, <2>1, <2>2, <2>3, <2>4 DEF RuntimeTypeOK, Phases
  <1>3. \A cam \in Cameras : PendingSound(cam)
    BY DEF PendingSound, OfCamera, Distinct, IdsIn
  <1>4. \A cam \in Cameras : Cardinality(inflight \cap IdsOf(cam)) <= MaxInflightPerCamera
    BY FS_EmptySet, RuntimeAssumption
  <1>5. IncomingSound
    BY DEF IncomingSound, Distinct
  <1>6. \A cam \in Cameras : WorkerKept(cam)
    BY <1>1 DEF WorkerKept, Zombie, Running
  <1>7. CancelReady
    BY DEF CancelReady
  <1> QED BY <1>2, <1>3, <1>4, <1>5, <1>6, <1>7 DEF LInv

-----------------------------------------------------------------------------
(***************************************************************************)
(* The theorems.                                                           *)
(***************************************************************************)
\* Whatever the Server answers and however late, whatever the operator edits,
\* wherever a task panics, a write fails or the process ends: what the loop keeps
\* of its cameras, snapshots and workers stays consistent.
THEOREM LoopInvariant == RuntimeSpec => [](IInv /\ LInv)
  <1>1. RuntimeInit => IInv /\ LInv
    BY RuntimeInitSound, InitSound
  <1>2. IInv /\ LInv /\ [RuntimeNext]_runtimeVars => (IInv /\ LInv)'
    BY RuntimeStepSound, StepSound
  <1> QED BY <1>1, <1>2, PTL DEF RuntimeSpec

\* Every variable of the run loop keeps its type.
THEOREM RuntimeTypesHold == RuntimeSpec => []RuntimeTypeOK
  <1>1. LInv => RuntimeTypeOK
    BY DEF LInv
  <1> QED BY <1>1, LoopInvariant, PTL

\* The run loop, with its configuration, its snapshots and its workers, implements
\* CommandExecution: it only ever makes a call on the ledger or on a worker that
\* CommandExecution has, with arguments and at a moment it allows (pass of run,
\* launch_queued_command_tasks).  What is proved of CommandExecution holds of it.
THEOREM LoopImplementsExecution == RuntimeSpec => Spec
  <1>1. IInv /\ LInv /\ [RuntimeNext]_runtimeVars => [Next]_vars
    BY RuntimeStepSound
  <1>2. RuntimeInit => Init
    BY DEF RuntimeInit
  <1> QED BY <1>1, <1>2, LoopInvariant, PTL DEF RuntimeSpec, Spec

\* The program as a whole sends a command to its camera at most once, through
\* crashes, redelivery, edits of the configuration and lost responses.
THEOREM ProgramSendsAtMostOnce == RuntimeSpec => []AtMostOnce
  BY LoopImplementsExecution, SentAtMostOnce, PTL

\* The program as a whole implements CommandContract.
THEOREM ProgramImplementsContract == RuntimeSpec => ImplementsContract
  BY LoopImplementsExecution, ContractImplemented, PTL

\* No command is canceled while its worker may go on to act on it, and nothing is
\* admitted or launched beside a worker that was aborted and has not ended.
THEOREM CallsKeepContract == RuntimeSpec => []LoopKeepsContract
  <1>1. IInv /\ LInv => LoopKeepsContract
    <2> SUFFICES ASSUME IInv, LInv PROVE LoopKeepsContract
      OBVIOUS
    <2>1. \A r \in Requests : IdOf[r] \in toCancel => pc[CameraOf[r]] = "idle" \/ aborted[CameraOf[r]]
      BY DEF LInv, CancelReady
    <2>2. ASSUME phase = "commands", EndedWorkers = {}, NEW r \in Batch
          PROVE  ~aborted[CameraOf[r]]
      <3>1. PICK i \in DOMAIN incoming : r = incoming[i]
        BY <2>2 DEF Batch
      <3>2. r \in Requests
        BY <3>1 DEF LInv, RuntimeTypeOK
      <3>3. CameraOf[r] \in Cameras
        BY <3>2, LedgerAssumption
      <3> DEFINE cam == CameraOf[r]
      <3>4. ~Zombie(cam)
        BY <3>1, <3>3 DEF LInv, WorkerKept
      <3>5. pc[cam] \in Running \cup Ended \cup {"idle"} /\ pc[cam] \notin Ended
        BY <2>2, <3>3 DEF IInv, TypeOK, EndedWorkers
      <3>6. pc[cam] = "idle" => ~aborted[cam]
        BY <3>3 DEF IInv, WorkerSound
      <3> QED BY <3>4, <3>5, <3>6 DEF Zombie
    <2>3. ASSUME phase = "launch", NEW cam \in Ready(pending, handles)
          PROVE  pc[cam] = "idle"
      <3>1. cam \in Cameras /\ pending[cam] # << >> /\ cam \notin handles
        BY <2>3 DEF Ready
      <3> QED BY <3>1 DEF LInv, WorkerKept
    <2> QED BY <2>1, <2>2, <2>3 DEF LoopKeepsContract
  <1> QED BY <1>1, LoopInvariant, PTL

-----------------------------------------------------------------------------
\* As long as no snapshot task has panicked, every command in flight waits in a
\* queue or is held by a worker whose output the loop will accept.
Owned(cam, id) ==
    /\ id \in IdsOf(cam)
    /\ \/ id \in IdsIn(pending[cam])
       \/ /\ pc[cam] # "idle" /\ cam \in handles /\ ~aborted[cam]
          /\ CurrentWorker(cam)
          /\ id \in HeldIds(cam) \/ pc[cam] = "failed"

OInv ==
    /\ panics = 0 => \A id \in inflight : \E cam \in Cameras : Owned(cam, id)
    /\ \A cam \in Cameras : pc[cam] = "done" => queue[cam] = << >>
    /\ \A t \in snapshots : t.outcome = "panicked" => panics > 0


-----------------------------------------------------------------------------
(***************************************************************************)
(* No command in flight is lost.                                           *)
(***************************************************************************)
\* The worker of cam is as it was.
Rests(cam) ==
    /\ pc'[cam] = pc[cam] /\ aborted'[cam] = aborted[cam]
    /\ queue'[cam] = queue[cam] /\ returned'[cam] = returned[cam]

\* The loop's record of commands is as it was.
CommandsRest ==
    UNCHANGED <<inflight, pending, handles, revision, workerRevision, panics>>

LEMMA OwnedRests ==
    ASSUME NEW cam \in Cameras, NEW id, Owned(cam, id), Rests(cam),
           pending'[cam] = pending[cam], cam \in handles => cam \in handles',
           revision'[cam] = revision[cam], workerRevision'[cam] = workerRevision[cam]
    PROVE  Owned(cam, id)'
  BY DEF Owned, Rests, HeldIds, IdsIn, CurrentWorker

LEMMA OwnedFrame ==
    ASSUME OInv, CommandsRest, \A cam \in Cameras : Rests(cam),
           \A t \in snapshots' : t.outcome = "panicked" => panics > 0
    PROVE  OInv'
  <1>1. ASSUME panics' = 0, NEW id \in inflight' PROVE \E cam \in Cameras : Owned(cam, id)'
    <2>1. PICK cam \in Cameras : Owned(cam, id)
      BY <1>1 DEF OInv, CommandsRest
    <2> QED BY <2>1, OwnedRests DEF CommandsRest
  <1>2. \A cam \in Cameras : pc'[cam] = "done" => queue'[cam] = << >>
    BY DEF OInv, Rests
  <1> QED BY <1>1, <1>2 DEF OInv, CommandsRest

\* Nothing is in flight when the loop starts or ends.
LEMMA OwnedNothing ==
    ASSUME inflight' = {}, snapshots' = {}, \A cam \in Cameras : pc'[cam] = "idle"
    PROVE  OInv'
  BY DEF OInv

LEMMA HaltedOwns ==
    ASSUME Halted, LoopEnds
    PROVE  OInv'
  BY OwnedNothing DEF Halted, LoopEnds, LoopStarts

LEMMA ReturnKeepsIds ==
    ASSUME IInv, NEW cam \in Cameras, NEW v, NEW fresh, Return(cam, v, fresh), queue[cam] # << >>
    PROVE  HeldIds(cam) \subseteq HeldIds(cam)'
  <1> DEFINE q == queue[cam]
             this == [request |-> Current(cam), verdict |-> v, fresh |-> fresh]
  <1>1. q \in Seq(Requests) /\ q # << >>
    BY DEF IInv, TypeOK
  <1>2. queue'[cam] = Tail(q) /\ returned'[cam] = returned[cam] \cup {this}
    BY DEF Return, IInv, TypeOK
  <1>3. Current(cam) = q[1]
    BY <1>1 DEF Current
  <1> HIDE DEF q
  <1>4. IdsIn(q) \subseteq IdsIn(Tail(q)) \cup {IdOf[q[1]]}
    <2>1. \A i \in DOMAIN q : i = 1 \/ (i - 1 \in DOMAIN Tail(q) /\ Tail(q)[i - 1] = q[i])
      <3>1. /\ DOMAIN q = 1..Len(q) /\ DOMAIN Tail(q) = 1..(Len(q) - 1) /\ Len(q) \in Nat
            /\ \A j \in 1..(Len(q) - 1) : Tail(q)[j] = q[j + 1]
        BY <1>1
      <3>2. ASSUME NEW i \in 1..Len(q), i # 1
            PROVE  i - 1 \in 1..(Len(q) - 1) /\ (i - 1) + 1 = i
        BY <3>1, <3>2
      <3> QED BY <3>1, <3>2
    <2>2. ASSUME NEW x \in IdsIn(q) PROVE x \in IdsIn(Tail(q)) \cup {IdOf[q[1]]}
      <3>1. PICK i \in DOMAIN q : x = IdOf[q[i]]
        BY <2>2 DEF IdsIn
      <3>2. CASE i = 1
        BY <3>1, <3>2
      <3>3. CASE i # 1
        <4>1. i - 1 \in DOMAIN Tail(q) /\ x = IdOf[Tail(q)[i - 1]]
          BY <2>1, <3>1, <3>3
        <4> QED BY <4>1 DEF IdsIn
      <3> QED BY <3>2, <3>3
    <2> QED BY <2>2
  <1>5. this.request = q[1]
    BY <1>3
  <1> HIDE DEF this
  <1>6. queue[cam] = q
    BY DEF q
  <1> QED BY <1>2, <1>4, <1>5, <1>6 DEF HeldIds

LEMMA WorkOwns ==
    ASSUME IInv, OInv, NEW c \in Cameras, WorkerStep(c), UNCHANGED loopVars, panics' = panics
    PROVE  OInv'
  <1> USE DEF Step
  <1>1. \A cam \in Cameras : cam # c => Rests(cam)
    BY DEF Rests, WorkerStep, Finish, Replay, CheckDeadline, Begin, Transmit, Answer, Complete,
                  DropAborted, Return, IInv, TypeOK
  <1>2. CASE DropAborted(c)
    <2>1. aborted[c] /\ pc'[c] = "idle"
      BY <1>2 DEF DropAborted, Zombie, IInv, TypeOK
    <2>2. ASSUME panics' = 0, NEW id \in inflight' PROVE \E cam \in Cameras : Owned(cam, id)'
      <3>1. PICK cam \in Cameras : Owned(cam, id)
        BY <2>2 DEF OInv, loopVars, commandVars
      <3>2. CASE cam # c
        BY <1>1, <3>1, <3>2, OwnedRests DEF loopVars, commandVars, passVars
      <3>3. CASE cam = c
        BY <2>1, <3>1, <3>3 DEF Owned, loopVars, commandVars
      <3> QED BY <3>2, <3>3
    <2>3. \A cam \in Cameras : pc'[cam] = "done" => queue'[cam] = << >>
      BY <1>1, <2>1 DEF OInv, Rests
    <2> QED BY <2>2, <2>3 DEF OInv, loopVars, snapshotVars
  <1>3. CASE ~DropAborted(c)
    <2>1. /\ pc[c] \in Running /\ aborted'[c] = aborted[c] /\ pc'[c] # "idle"
          /\ pc'[c] = "done" => queue'[c] = << >>
      <3>1. \/ Finish(c) \/ Replay(c) \/ CheckDeadline(c) \/ Begin(c)
            \/ Transmit(c) \/ Answer(c) \/ Complete(c)
        BY <1>3 DEF WorkerStep
      <3>2. pc \in [Cameras -> Running \cup Ended \cup {"idle"}]
        BY DEF IInv, TypeOK
      <3>3. aborted'[c] = aborted[c] /\ pc[c] \in Running
        BY <3>1 DEF Finish, Replay, CheckDeadline, Begin, Transmit, Answer, Complete, Running
      <3>4. \/ pc'[c] = "done" /\ queue'[c] = << >>
            \/ pc'[c] \in {"replay", "deadline", "begin", "send", "reply", "complete", "failed"}
        BY <3>1, <3>2 DEF Finish, Replay, CheckDeadline, Begin, Transmit, Answer, Complete
      <3> QED BY <3>3, <3>4
    <2>2. HeldIds(c) \subseteq HeldIds(c)'
      <3>1. \/ UNCHANGED <<queue, returned>>
            \/ \E v, fresh : Return(c, v, fresh) /\ queue[c] # << >>
        <4>1. pc[c] = "complete" => queue[c] # << >>
          BY DEF IInv, WorkerSound, Engaged, Running
        <4> QED BY <1>3, <4>1 DEF WorkerStep, Finish, Replay, CheckDeadline, Begin, Transmit, Answer, Complete
      <3>2. CASE UNCHANGED <<queue, returned>>
        BY <3>2 DEF HeldIds, IdsIn
      <3> QED BY <3>1, <3>2, ReturnKeepsIds
    <2>3. ASSUME panics' = 0, NEW id \in inflight' PROVE \E cam \in Cameras : Owned(cam, id)'
      <3>1. PICK cam \in Cameras : Owned(cam, id)
        BY <2>3 DEF OInv, loopVars, commandVars
      <3>2. CASE cam # c
        BY <1>1, <3>1, <3>2, OwnedRests DEF loopVars, commandVars, passVars
      <3>3. CASE cam = c
        <4>1. pc[c] # "failed"
          BY <2>1 DEF Running
        <4>2. (CurrentWorker(c)' <=> CurrentWorker(c)) /\ pending' = pending /\ handles' = handles
          BY DEF CurrentWorker, loopVars, commandVars, passVars
        <4> QED BY <2>1, <2>2, <3>1, <3>3, <4>1, <4>2 DEF Owned
      <3> QED BY <3>2, <3>3
    <2>4. \A cam \in Cameras : pc'[cam] = "done" => queue'[cam] = << >>
      BY <1>1, <2>1 DEF OInv, Rests
    <2> QED BY <2>3, <2>4 DEF OInv, loopVars, snapshotVars
  <1> QED BY <1>2, <1>3

LEMMA ReloadOwns ==
    ASSUME IInv, LInv, OInv, Reload
    PROVE  OInv'
  <1> DEFINE changed == {cam \in Cameras : config[cam] # loaded[cam]}
  <1>1. /\ revision' = [cam \in Cameras |-> revision[cam] + IF cam \in changed THEN 1 ELSE 0]
        /\ AbortWorkers(Interrupted(changed))
        /\ handles' = handles \ changed
        /\ pending' = [cam \in Cameras |-> IF cam \in changed THEN << >> ELSE pending[cam]]
        /\ snapshots' = {t \in snapshots : t.camera \in changed => t.outcome # "waiting"}
        /\ inflight' = inflight \ Canceled(changed)
        /\ UNCHANGED <<environmentVars, workerRevision>>
    BY DEF Reload
  <1> HIDE DEF changed
  <1>2. /\ UNCHANGED <<pc, queue, returned>>
        /\ aborted' = [cam \in Cameras |-> aborted[cam] \/ (cam \in changed \cap handles /\ pc[cam] # "idle")]
    BY <1>1 DEF AbortWorkers, Interrupted
  <1>3. ASSUME panics' = 0, NEW id \in inflight' PROVE \E cam \in Cameras : Owned(cam, id)'
    <2>1. id \in inflight /\ \A cam \in changed : id \notin IdsOf(cam)
      BY <1>1, <1>3 DEF Canceled
    <2>2. PICK cam \in Cameras : Owned(cam, id)
      BY <1>1, <1>3, <2>1 DEF OInv, environmentVars
    <2>3. cam \notin changed
      BY <2>1, <2>2 DEF Owned
    <2>4. Rests(cam)
      <3>1. aborted[cam] \in BOOLEAN
        BY DEF IInv, TypeOK
      <3> QED BY <1>2, <2>3, <3>1 DEF Rests
    <2>5. revision'[cam] = revision[cam]
      BY <1>1, <2>3 DEF LInv, RuntimeTypeOK
    <2> QED BY <1>1, <2>2, <2>3, <2>4, <2>5, OwnedRests
  <1>4. \A cam \in Cameras : pc'[cam] = "done" => queue'[cam] = << >>
    BY <1>2 DEF OInv
  <1>5. \A t \in snapshots' : t.outcome = "panicked" => panics' > 0
    BY <1>1 DEF OInv, environmentVars
  <1> QED BY <1>3, <1>4, <1>5 DEF OInv

LEMMA CollectWorkerOwns ==
    ASSUME IInv, LInv, OInv, NEW cam \in Cameras, CollectWorker(cam)
    PROVE  OInv'
  <1>1. Collect(cam) /\ panics' = panics
    BY DEF CollectWorker, environmentVars
  <1>2. CASE ~up'
    <2>1. Halted /\ LoopEnds
      BY <1>1, <1>2 DEF Collect, CollectWorker, LInv, RuntimeTypeOK
    <2> QED BY <2>1, HaltedOwns
  <1>3. CASE up'
    <2>1. /\ pc[cam] = "done" /\ queue[cam] = << >>
          /\ pc'[cam] = "idle"
          /\ \A c \in Cameras : c # cam => Rests(c)
      BY <1>1, <1>3 DEF Collect, Halted, Rests, IInv, TypeOK, OInv
    <2>2. snapshots' = snapshots /\ pending' = pending /\ revision' = revision
             /\ workerRevision' = workerRevision
             /\ \A c \in Cameras : c # cam => (c \in handles => c \in handles')
      BY <1>3 DEF CollectWorker, loopVars, passVars, snapshotVars, commandVars
    <2>3. inflight' \subseteq inflight
      BY <1>3 DEF CollectWorker, loopVars, commandVars
    <2>4. CurrentWorker(cam) => inflight' = inflight \ {IdOf[x.request] : x \in returned[cam]}
      BY <1>3 DEF CollectWorker
    <2>5. ASSUME panics' = 0, NEW id \in inflight' PROVE \E c \in Cameras : Owned(c, id)'
      <3>1. PICK c \in Cameras : Owned(c, id)
        BY <1>1, <2>3, <2>5 DEF OInv
      <3>2. CASE c # cam
        BY <2>1, <2>2, <3>1, <3>2, OwnedRests
      <3>3. CASE c = cam
        <4>1. CASE id \in IdsIn(pending[cam])
          BY <2>2, <3>1, <3>3, <4>1 DEF Owned
        <4>2. CASE id \notin IdsIn(pending[cam])
          <5>1. CurrentWorker(cam) /\ id \in HeldIds(cam)
            BY <2>1, <3>1, <3>3, <4>2 DEF Owned
          <5>2. id \in {IdOf[x.request] : x \in returned[cam]}
            BY <2>1, <5>1 DEF HeldIds, IdsIn
          <5> QED BY <2>4, <2>5, <5>1, <5>2
        <4> QED BY <4>1, <4>2
      <3> QED BY <3>2, <3>3
    <2>6. \A c \in Cameras : pc'[c] = "done" => queue'[c] = << >>
      BY <2>1 DEF OInv, Rests
    <2> QED BY <1>1, <2>2, <2>5, <2>6 DEF OInv
  <1>4. up' \in BOOLEAN
    <2>1. Next
      BY <1>1 DEF Next, LoopStep
    <2> QED BY <2>1, StepSound DEF IInv, TypeOK
  <1> QED BY <1>2, <1>3, <1>4

LEMMA QueuedFresh ==
    ASSUME RuntimeTypeOK, NEW cam \in Cameras, NEW r \in Fresh, CameraOf[r] = cam
    PROVE  IdOf[r] \in IdsIn(Selected(incoming, {s \in Fresh : CameraOf[s] = cam}))
  <1> DEFINE S == {s \in Fresh : CameraOf[s] = cam}
             q == Selected(incoming, S)
  <1>1. incoming \in Seq(Requests)
    BY DEF RuntimeTypeOK
  <1>2. /\ q \in Seq(Requests)
        /\ \A x \in Requests : (\E i \in DOMAIN q : q[i] = x)
                     <=> x \in S /\ \E j \in DOMAIN incoming : incoming[j] = x
        /\ (\A i, j \in DOMAIN incoming : incoming[i] = incoming[j] => i = j)
             => \A i, j \in DOMAIN q : q[i] = q[j] => i = j
    BY <1>1, SelectedElements
  <1>3. r \in S /\ r \in Requests /\ \E j \in DOMAIN incoming : incoming[j] = r
    BY <1>1 DEF Fresh, Batch
  <1> HIDE DEF q, S
  <1>4. PICK i \in DOMAIN q : q[i] = r
    BY <1>2, <1>3
  <1>5. IdOf[r] \in IdsIn(q)
    BY <1>4 DEF IdsIn
  <1> QED BY <1>5 DEF q, S

LEMMA EnqueueOwns ==
    ASSUME IInv, LInv, OInv, EnqueueAndAdmit
    PROVE  OInv'
  <1>1. CASE Halt /\ LoopEnds
    BY <1>1, HaltedOwns DEF Halt
  <1>2. CASE Admit(Batch) /\ ~up'
    <2>1. Halted /\ LoopEnds
      BY <1>2 DEF EnqueueAndAdmit, Halt, Admit, SaveByLoop, Saved, SaveFails, LInv, RuntimeTypeOK
    <2> QED BY <2>1, HaltedOwns
  <1>3. CASE Admit(Batch) /\ up'
    <2> DEFINE fresh == {IdOf[r] : r \in Fresh}
               q(cam) == Selected(incoming, {r \in Fresh : CameraOf[r] = cam})
    <2>1. /\ inflight' = inflight \cup fresh
          /\ pending' = [cam \in Cameras |-> pending[cam] \o q(cam)]
          /\ UNCHANGED <<environmentVars, revision, snapshots, handles, workerRevision>>
      BY <1>3 DEF EnqueueAndAdmit, Halt, Halted, snapshotVars
    <2>2. \A cam \in Cameras : Rests(cam)
      BY <1>3 DEF Admit, SaveByLoop, Saved, SaveFails, Halted, Rests, workerVars
    <2>3. incoming \in Seq(Requests) /\ Fresh \subseteq Batch /\ Distinct(incoming)
      BY DEF LInv, RuntimeTypeOK, Fresh, IncomingSound
    <2>4. ASSUME NEW cam \in Cameras
          PROVE  /\ q(cam) \in Seq(Requests) /\ pending[cam] \in Seq(Requests)
                 /\ \A r \in Fresh : CameraOf[r] = cam => IdOf[r] \in IdsIn(q(cam))
      BY <2>3, QueuedFresh, QueuedCommands DEF LInv, RuntimeTypeOK
    <2> HIDE DEF q
    <2>5. ASSUME NEW cam \in Cameras
          PROVE  /\ IdsIn(pending[cam]) \subseteq IdsIn(pending'[cam])
                 /\ IdsIn(q(cam)) \subseteq IdsIn(pending'[cam])
      <3> DEFINE p == pending[cam]
                 new == q(cam)
                 pq == p \o new
      <3>1. p \in Seq(Requests) /\ new \in Seq(Requests) /\ pending'[cam] = pq
        BY <2>1, <2>4
      <3>2. /\ DOMAIN p \subseteq DOMAIN pq
            /\ \A i \in DOMAIN p : pq[i] = p[i]
            /\ \A j \in DOMAIN new : j + Len(p) \in DOMAIN pq /\ pq[j + Len(p)] = new[j]
        BY <3>1, ConcatElements
      <3> HIDE DEF p, new, pq
      <3>3. IdsIn(p) \subseteq IdsIn(pq)
        BY <3>2 DEF IdsIn
      <3>4. IdsIn(new) \subseteq IdsIn(pq)
        BY <3>2 DEF IdsIn
      <3> QED BY <3>1, <3>3, <3>4 DEF p, new
    <2>6. ASSUME panics' = 0, NEW id \in inflight' PROVE \E cam \in Cameras : Owned(cam, id)'
      <3>1. CASE id \in inflight
        <4>1. PICK cam \in Cameras : Owned(cam, id)
          BY <2>1, <2>6, <3>1 DEF OInv, environmentVars
        <4>2. /\ IdsIn(pending[cam]) \subseteq IdsIn(pending'[cam])
              /\ HeldIds(cam)' = HeldIds(cam) /\ (CurrentWorker(cam)' <=> CurrentWorker(cam))
          <5>1. IdsIn(pending[cam]) \subseteq IdsIn(pending'[cam])
            BY <2>5
          <5>2. HeldIds(cam)' = HeldIds(cam)
            BY <2>2 DEF HeldIds, IdsIn, Rests
          <5>3. CurrentWorker(cam)' <=> CurrentWorker(cam)
            BY <2>1 DEF CurrentWorker
          <5> QED BY <5>1, <5>2, <5>3
        <4> QED BY <2>1, <2>2, <4>1, <4>2 DEF Owned, Rests
      <3>2. CASE id \notin inflight
        <4>1. PICK r \in Fresh : id = IdOf[r]
          BY <2>1, <3>2
        <4>2. r \in Requests
          BY <2>3 DEF Batch
        <4>3. CameraOf[r] \in Cameras /\ id \in IdsOf(CameraOf[r])
          BY <4>1, <4>2, IdsApart
        <4>4. id \in IdsIn(pending'[CameraOf[r]])
          BY <2>4, <2>5, <4>1, <4>3
        <4> QED BY <4>3, <4>4 DEF Owned
      <3> QED BY <3>1, <3>2
    <2>7. \A cam \in Cameras : pc'[cam] = "done" => queue'[cam] = << >>
      BY <2>2 DEF OInv, Rests
    <2> QED BY <2>1, <2>6, <2>7 DEF OInv, environmentVars
  <1>4. up' \in BOOLEAN
    <2>1. [Next]_vars
      BY EnqueueSound
    <2> QED BY <2>1, StepSound DEF IInv, TypeOK
  <1> QED BY <1>1, <1>2, <1>3, <1>4 DEF EnqueueAndAdmit

LEMMA LaunchOneOwns ==
    ASSUME IInv, LInv, OInv, NEW cam \in Cameras, LaunchOne(cam)
    PROVE  OInv'
  <1> USE DEF LaunchOne, Launch
  <1>1. /\ pc[cam] = "idle" /\ pending[cam] # << >>
        /\ pc'[cam] = "replay" /\ queue'[cam] = pending[cam] /\ aborted' = aborted
        /\ workerRevision'[cam] = revision[cam] /\ revision' = revision
        /\ handles' = handles \cup {cam} /\ inflight' = inflight /\ panics' = panics
        /\ snapshots' = snapshots
    BY DEF Ready, IInv, TypeOK, LInv, RuntimeTypeOK, environmentVars, snapshotVars
  <1>2. \A c \in Cameras : c # cam => /\ Rests(c) /\ pending'[c] = pending[c]
                                      /\ workerRevision'[c] = workerRevision[c]
    BY DEF Rests, IInv, TypeOK, LInv, RuntimeTypeOK
  <1>3. ~aborted[cam]
    BY <1>1 DEF LInv, WorkerKept
  <1>4. ASSUME panics' = 0, NEW id \in inflight' PROVE \E c \in Cameras : Owned(c, id)'
    <2>1. PICK c \in Cameras : Owned(c, id)
      BY <1>1, <1>4 DEF OInv
    <2>2. CASE c # cam
      BY <1>1, <1>2, <2>1, <2>2, OwnedRests
    <2>3. CASE c = cam
      <3>1. id \in IdsIn(pending[cam]) /\ id \in IdsOf(cam)
        BY <1>1, <2>1, <2>3 DEF Owned
      <3>2. id \in HeldIds(cam)'
        BY <1>1, <3>1 DEF HeldIds, IdsIn
      <3> QED BY <1>1, <1>3, <3>1, <3>2 DEF Owned, CurrentWorker
    <2> QED BY <2>2, <2>3
  <1>5. \A c \in Cameras : pc'[c] = "done" => queue'[c] = << >>
    BY <1>1, <1>2 DEF OInv, Rests
  <1> QED BY <1>1, <1>4, <1>5 DEF OInv

LEMMA NetworkOwns ==
    ASSUME IInv, LInv, OInv, Network
    PROVE  OInv'
  <1> USE DEF passVars, commandVars, environmentVars
  <1>1. PICK t \in snapshots : SnapshotServed(t) \/ SnapshotLost(t) \/ SnapshotPanics(t)
    BY DEF Network
  <1>2. \A cam \in Cameras : Rests(cam)
    BY <1>1 DEF SnapshotServed, SnapshotLost, SnapshotPanics, Rests, vars
  <1>3. t \in Snapshot /\ panics \in Nat
    BY RuntimeAssumption DEF LInv, RuntimeTypeOK
  <1>4. CASE SnapshotPanics(t)
    <2>1. panics' > 0
      BY <1>3, <1>4 DEF SnapshotPanics
    <2> QED BY <1>2, <2>1 DEF OInv, Rests
  <1>5. CASE SnapshotServed(t) \/ SnapshotLost(t)
    <2>1. PICK outcome \in {"ok", "error"} : \E commands : TaskEnds(t, outcome, commands)
      BY <1>5 DEF SnapshotServed, SnapshotLost
    <2>2. CommandsRest
      BY <1>5 DEF SnapshotServed, SnapshotLost, CommandsRest
    <2>3. \A u \in snapshots' : u.outcome = "panicked" => u \in snapshots
      BY <1>3, <2>1 DEF TaskEnds, Snapshot
    <2> QED BY <1>2, <2>2, <2>3, OwnedFrame DEF OInv
  <1> QED BY <1>1, <1>4, <1>5

LEMMA CollectOwns ==
    ASSUME IInv, LInv, OInv, NEW t \in snapshots, CollectSnapshot(t) \/ CollectPanic(t)
    PROVE  OInv'
  <1> USE DEF passVars, commandVars, environmentVars
  <1>1. CASE CollectPanic(t)
    <2>1. panics' > 0
      BY <1>1 DEF CollectPanic, OInv
    <2>2. \A cam \in Cameras : Rests(cam)
      BY <1>1 DEF CollectPanic, Rests, vars
    <2> QED BY <2>1, <2>2 DEF OInv, Rests
  <1>2. CASE CollectSnapshot(t) /\ LoopEnds /\ ~up'
    <2>1. up
      BY <1>2 DEF CollectSnapshot, LInv, RuntimeTypeOK
    <2>2. Acknowledge({p[1] : p \in t.sent})
      BY <1>2, <2>1 DEF CollectSnapshot, vars
    <2>3. Halted
      BY <1>2, <2>1, <2>2 DEF Acknowledge, SaveByLoop, Saved, SaveFails
    <2> QED BY <1>2, <2>3, HaltedOwns
  <1>3. CASE CollectSnapshot(t) /\ (up' \/ UNCHANGED vars)
    <2>1. CommandsRest /\ snapshots' \subseteq snapshots
      <3>1. up
        BY <1>3 DEF CollectSnapshot, LInv, RuntimeTypeOK
      <3>2. up'
        BY <1>3, <3>1 DEF vars
      <3> QED BY <1>3, <3>2 DEF CollectSnapshot, CommandsRest
    <2>2. \A cam \in Cameras : Rests(cam)
      BY <1>3 DEF CollectSnapshot, Acknowledge, SaveByLoop, Saved, SaveFails, Halted, Rests, vars, workerVars
    <2> QED BY <2>1, <2>2, OwnedFrame DEF OInv
  <1>4. up' \in BOOLEAN
    <2>1. [Next]_vars
      BY CollectSnapshotSound, CollectPanicSound
    <2> QED BY <2>1, StepSound DEF IInv, TypeOK
  <1> QED BY <1>1, <1>2, <1>3, <1>4 DEF CollectSnapshot

LEMMA CancelOneOwns ==
    ASSUME IInv, LInv, OInv, NEW r \in Requests, CancelOne(r)
    PROVE  OInv'
  <1>1. Cancel(r) /\ panics' = panics
    BY DEF CancelOne, environmentVars
  <1>2. CASE ~up'
    <2>1. Halted /\ LoopEnds
      BY <1>1, <1>2 DEF CancelOne, Cancel, SaveByLoop, Saved, SaveFails
    <2> QED BY <2>1, HaltedOwns
  <1>3. CASE up'
    <2>1. CommandsRest /\ snapshots' = snapshots
      BY <1>1, <1>3 DEF CancelOne, CommandsRest, snapshotVars
    <2>2. \A cam \in Cameras : Rests(cam)
      BY <1>1, <1>3 DEF Cancel, SaveByLoop, Saved, SaveFails, Halted, Rests, workerVars
    <2> QED BY <2>1, <2>2, OwnedFrame DEF OInv
  <1>4. up' \in BOOLEAN
    <2>1. [Next]_vars
      BY CancelOneSound
    <2> QED BY <2>1, StepSound DEF IInv, TypeOK
  <1> QED BY <1>2, <1>3, <1>4

LEMMA BootOwns ==
    ASSUME IInv, LInv, OInv, Boot
    PROVE  OInv'
  <1>1. Open /\ panics' = panics /\ ~up
    BY DEF Boot, Open
  <1>2. CASE LoopStarts("select", config, mem')
    <2>1. \A cam \in Cameras : pc'[cam] = "idle"
      BY <1>1 DEF Open, SaveFails, Halted, workerVars, IInv
    <2> QED BY <1>2, <2>1, OwnedNothing DEF LoopStarts
  <1>3. CASE UNCHANGED loopVars
    <2>1. \A cam \in Cameras : pc'[cam] = "idle"
      BY <1>1 DEF Open, SaveFails, Halted, workerVars, IInv
    <2>2. ASSUME panics' = 0, NEW id \in inflight' PROVE \E cam \in Cameras : Owned(cam, id)'
      <3>1. PICK cam \in Cameras : Owned(cam, id)
        BY <1>1, <1>3, <2>2 DEF OInv, loopVars, commandVars
      <3>2. id \in IdsIn(pending[cam])
        BY <1>1, <3>1 DEF Owned, IInv
      <3> QED BY <1>3, <3>1, <3>2 DEF Owned, loopVars, commandVars
    <2> QED BY <1>1, <1>3, <2>1, <2>2 DEF OInv, loopVars, snapshotVars
  <1> QED BY <1>2, <1>3 DEF Boot

LEMMA OwnershipKept ==
    ASSUME IInv, LInv, OInv, [RuntimeNext]_runtimeVars
    PROVE  OInv'
  <1> USE DEF loopVars, passVars, snapshotVars, commandVars, environmentVars
  <1>1. CASE AwaitConfig \/ UNCHANGED runtimeVars \/ Time \/ SnapshotsCollected
             \/ (\E cam \in Cameras : \E version \in Versions \cup {Unpaired} : EditConfig(cam, version))
    <2>1. CommandsRest /\ snapshots' = snapshots
      BY <1>1 DEF CommandsRest, AwaitConfig, runtimeVars, Time, SnapshotsCollected, EditConfig
    <2>2. \A cam \in Cameras : Rests(cam)
      BY <1>1 DEF Rests, AwaitConfig, runtimeVars, Time, Tick, SnapshotsCollected, EditConfig, vars, workerVars
    <2> QED BY <2>1, <2>2, OwnedFrame DEF OInv
  <1>2. CASE Kill \/ ReloadFails
    BY <1>2, HaltedOwns DEF Kill, ReloadFails, Halt
  <1>3. CASE \E cam \in Cameras : SendSnapshot(cam)
    <2>1. CommandsRest /\ \A cam \in Cameras : Rests(cam)
      BY <1>3 DEF SendSnapshot, CommandsRest, Rests, vars
    <2>2. \A t \in snapshots' : t.outcome = "panicked" => t \in snapshots
      BY <1>3 DEF SendSnapshot
    <2> QED BY <2>1, <2>2, OwnedFrame DEF OInv
  <1>4. CASE \E cam \in Cameras : Work(cam)
    BY <1>4, WorkOwns DEF Work
  <1>5. CASE Boot
    BY <1>5, BootOwns
  <1>6. CASE Network
    BY <1>6, NetworkOwns
  <1>7. CASE Reload
    BY <1>7, ReloadOwns
  <1>8. CASE \E r \in Requests : CancelOne(r)
    BY <1>8, CancelOneOwns
  <1>9. CASE \E t \in snapshots : CollectSnapshot(t) \/ CollectPanic(t)
    BY <1>9, CollectOwns
  <1>10. CASE \E cam \in Cameras : CollectWorker(cam)
    BY <1>10, CollectWorkerOwns
  <1>11. CASE EnqueueAndAdmit
    BY <1>11, EnqueueOwns
  <1>12. CASE \E cam \in Cameras : LaunchOne(cam)
    BY <1>12, LaunchOneOwns
  <1> QED BY <1>1, <1>2, <1>3, <1>4, <1>5, <1>6, <1>7, <1>8, <1>9, <1>10, <1>11, <1>12
          DEF RuntimeNext, Pass

\* As long as no snapshot task panics, the loop loses no command in flight: it is in
\* a queue, or with a worker whose output the loop will take or whose error it will
\* see.
THEOREM NoCommandLost == RuntimeSpec => []InflightOwned
  <1>1. RuntimeInit => OInv
    BY DEF RuntimeInit, Init, OInv
  <1>2. IInv /\ LInv /\ OInv /\ [RuntimeNext]_runtimeVars => OInv'
    BY OwnershipKept
  <1>3. OInv => InflightOwned
    BY DEF OInv, InflightOwned, Owned, HeldIds, IdsIn, CurrentWorker
  <1> QED BY <1>1, <1>2, <1>3, LoopInvariant, PTL DEF RuntimeSpec

=============================================================================
