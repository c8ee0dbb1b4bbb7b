--------------------------- MODULE CapacityProofs -----------------------------
(***************************************************************************)
(* Proofs about EdgeRuntime: capacity, and what may end a run.             *)
(***************************************************************************)
EXTENDS EvidenceProofs

(***************************************************************************)
(* The inductive invariant.  Every command that is in flight, received or  *)
(* promised to a snapshot, or that is still to be canceled, has its place  *)
(* within each of the limits, and room for its two receipts; a response    *)
(* the loop will accept was promised what it holds.                        *)
(***************************************************************************)
Places(s, cam) == {i \in DOMAIN s : CameraOf[s[i]] = cam}
OwnIncoming(cam) == Places(incoming, cam)
OwnTaken(cam) == Cardinality(inflight \cap IdsOf(cam)) + Cardinality(OwnIncoming(cam))
Load == 2 * (Taken + Cardinality(toCancel)) + Receipts
RecordsTaken == Cardinality(Present(mem)) + Cardinality(Promised) + Len(incoming)

WithinPromise(t) ==
    /\ Len(t.commands) <= t.capacity
    /\ Fits(t) => t.capacity <= reserved[t.camera]

CInv ==
    /\ Taken <= MaxInflight
    /\ Load <= MaxCommandRecords
    /\ RecordsTaken <= MaxRecords
    /\ \A cam \in Cameras : /\ OwnTaken(cam) + reserved[cam] <= MaxInflightPerCamera
                            /\ reserved[cam] <= MaxInflight
    /\ \A t \in snapshots : WithinPromise(t)

-----------------------------------------------------------------------------
(***************************************************************************)
(* Counting.                                                               *)
(***************************************************************************)
\* Ids are finitely many.
LEMMA CountIds ==
    ASSUME NEW A, A \subseteq Ids
    PROVE  IsFiniteSet(A) /\ Cardinality(A) \in Nat
  BY RuntimeAssumption, FS_Subset, FS_CardinalityType

LEMMA CountLess ==
    ASSUME NEW B, IsFiniteSet(B), NEW A, A \subseteq B
    PROVE  /\ IsFiniteSet(A) /\ Cardinality(A) \in Nat /\ Cardinality(B) \in Nat
           /\ Cardinality(A) <= Cardinality(B)
  BY FS_Subset, FS_CardinalityType

LEMMA CountUnion ==
    ASSUME NEW A, NEW B, IsFiniteSet(A), IsFiniteSet(B)
    PROVE  /\ IsFiniteSet(A \cup B)
           /\ Cardinality(A \cup B) \in Nat /\ Cardinality(A) \in Nat /\ Cardinality(B) \in Nat
           /\ Cardinality(A \cup B) <= Cardinality(A) + Cardinality(B)
           /\ A \cap B = {} => Cardinality(A \cup B) = Cardinality(A) + Cardinality(B)
  <1>1. Cardinality(A \cup B) = Cardinality(A) + Cardinality(B) - Cardinality(A \cap B)
    BY FS_Union
  <1>2. IsFiniteSet(A \cup B) /\ IsFiniteSet(A \cap B)
    BY FS_Union, FS_Intersection
  <1>3. /\ Cardinality(A \cup B) \in Nat /\ Cardinality(A) \in Nat /\ Cardinality(B) \in Nat
        /\ Cardinality(A \cap B) \in Nat
    BY <1>2, FS_CardinalityType
  <1>4. A \cap B = {} => Cardinality(A \cap B) = 0
    BY FS_EmptySet
  <1> QED BY <1>1, <1>2, <1>3, <1>4

LEMMA CountTo ==
    ASSUME NEW n \in Nat
    PROVE  IsFiniteSet(1..n) /\ Cardinality(1..n) = n
  <1>1. IsFiniteSet(1..n) /\ Cardinality(1..n) = IF 1 > n THEN 0 ELSE n - 1 + 1
    BY FS_Interval
  <1>2. n = 0 \/ (~(1 > n) /\ n - 1 + 1 = n)
    OBVIOUS
  <1> QED BY <1>1, <1>2

\* Some of the places of a sequence of commands: as many as they are, or fewer,
\* are the ids there.
LEMMA CountPlaces ==
    ASSUME NEW q \in Seq(Requests), NEW I, I \subseteq DOMAIN q
    PROVE  /\ IsFiniteSet(I) /\ Cardinality(I) \in Nat
           /\ Cardinality(I) <= Len(q)
           /\ IsFiniteSet({IdOf[q[i]] : i \in I})
           /\ Cardinality({IdOf[q[i]] : i \in I}) \in Nat
           /\ Cardinality({IdOf[q[i]] : i \in I}) <= Cardinality(I)
  <1> DEFINE ids == {IdOf[q[i]] : i \in I}
             f == [i \in I |-> IdOf[q[i]]]
  <1>1. DOMAIN q = 1..Len(q) /\ Len(q) \in Nat
    OBVIOUS
  <1>2. IsFiniteSet(1..Len(q)) /\ Cardinality(1..Len(q)) = Len(q)
    BY <1>1, CountTo
  <1>3. IsFiniteSet(I) /\ Cardinality(I) \in Nat /\ Cardinality(I) <= Len(q)
    BY <1>1, <1>2, CountLess
  <1>4. f \in Surjection(I, ids)
    BY DEF Surjection
  <1> HIDE DEF f, ids
  <1>5. IsFiniteSet(ids) /\ Cardinality(ids) <= Cardinality(I)
    BY <1>3, <1>4, FS_Surjection
  <1>6. Cardinality(ids) \in Nat
    BY <1>5, FS_CardinalityType
  <1> QED BY <1>3, <1>5, <1>6 DEF ids

\* The slots promised to snapshots.
Slots(res) == {slot \in Cameras \X (1..MaxInflight) : slot[2] <= res[slot[1]]}

LEMMA SlotsFinite ==
    ASSUME NEW res
    PROVE  IsFiniteSet(Slots(res)) /\ Cardinality(Slots(res)) \in Nat
  <1>1. IsFiniteSet(1..MaxInflight)
    BY FS_Interval, RuntimeAssumption
  <1>2. IsFiniteSet(Cameras \X (1..MaxInflight))
    BY <1>1, FS_Product, RuntimeAssumption
  <1>3. Slots(res) \subseteq Cameras \X (1..MaxInflight)
    BY DEF Slots
  <1> QED BY <1>2, <1>3, CountLess

LEMMA SlotsShrink ==
    ASSUME NEW res \in [Cameras -> Nat], NEW less \in [Cameras -> Nat],
           \A cam \in Cameras : less[cam] <= res[cam]
    PROVE  Cardinality(Slots(less)) <= Cardinality(Slots(res))
  <1>1. Slots(less) \subseteq Slots(res)
    <2> SUFFICES ASSUME NEW cam \in Cameras, NEW n \in 1..MaxInflight, n <= less[cam]
                 PROVE  n <= res[cam]
      BY DEF Slots
    <2>1. n \in Nat /\ less[cam] \in Nat /\ res[cam] \in Nat /\ less[cam] <= res[cam]
      BY RuntimeAssumption
    <2> QED BY <2>1
  <1> QED BY <1>1, SlotsFinite, CountLess

\* The slots of one camera.
LEMMA OwnSlots ==
    ASSUME NEW cam, NEW n \in Nat
    PROVE  IsFiniteSet({cam} \X (1..n)) /\ Cardinality({cam} \X (1..n)) = n
  <1>1. IsFiniteSet({cam}) /\ Cardinality({cam}) = 1
    BY FS_Singleton
  <1>2. IsFiniteSet(1..n) /\ Cardinality(1..n) = n
    BY CountTo
  <1> DEFINE A == {cam}
             B == 1..n
  <1>3. IsFiniteSet(A) /\ IsFiniteSet(B) /\ Cardinality(A) = 1 /\ Cardinality(B) = n
    BY <1>1, <1>2
  <1> HIDE DEF A, B
  <1>4. IsFiniteSet(A \X B) /\ Cardinality(A \X B) = Cardinality(A) * Cardinality(B)
    BY <1>3, FS_Product
  <1>5. IsFiniteSet(A \X B) /\ Cardinality(A \X B) = n
    BY <1>3, <1>4
  <1> QED BY <1>5 DEF A, B

LEMMA SlotsFreed ==
    ASSUME NEW res \in [Cameras -> Nat], NEW cam \in Cameras, res[cam] <= MaxInflight
    PROVE  Cardinality(Slots([res EXCEPT ![cam] = 0])) + res[cam] = Cardinality(Slots(res))
  <1> DEFINE own == {cam} \X (1..res[cam])
             rest == [res EXCEPT ![cam] = 0]
  <1>1. res[cam] \in Nat /\ MaxInflight \in Nat /\ rest \in [Cameras -> Nat]
    BY RuntimeAssumption
  <1>2. IsFiniteSet(own) /\ Cardinality(own) = res[cam]
    BY <1>1, OwnSlots
  <1>3. Slots(res) = Slots(rest) \cup own
    <2>1. own \subseteq Slots(res)
      BY <1>1 DEF Slots
    <2>2. ASSUME NEW c \in Cameras, NEW n \in 1..MaxInflight
          PROVE  <<c, n>> \in Slots(res) <=> <<c, n>> \in Slots(rest) \/ <<c, n>> \in own
      <3>1. n \in Nat /\ n > 0
        BY <1>1
      <3>2. CASE c = cam
        <4>1. <<c, n>> \in Slots(res) <=> n <= res[cam]
          BY <3>2 DEF Slots
        <4>2. rest[cam] = 0
          OBVIOUS
        <4>3. <<c, n>> \notin Slots(rest)
          BY <3>1, <3>2, <4>2 DEF Slots
        <4>4. <<c, n>> \in own <=> n <= res[cam]
          BY <1>1, <3>1, <3>2
        <4> QED BY <4>1, <4>3, <4>4
      <3>3. CASE c # cam
        <4>1. rest[c] = res[c] /\ <<c, n>> \notin own
          BY <3>3
        <4> HIDE DEF own, rest
        <4>2. <<c, n>> \in Slots(res) <=> n <= res[c]
          BY DEF Slots
        <4>3. <<c, n>> \in Slots(rest) <=> n <= rest[c]
          BY DEF Slots
        <4> QED BY <4>1, <4>2, <4>3
      <3> QED BY <3>2, <3>3
    <2>3. Slots(res) \subseteq Cameras \X (1..MaxInflight) /\ Slots(rest) \subseteq Cameras \X (1..MaxInflight)
      BY DEF Slots
    <2> HIDE DEF own, rest
    <2>4. \A slot \in Cameras \X (1..MaxInflight) :
             slot \in Slots(res) <=> slot \in Slots(rest) \/ slot \in own
      BY <2>2
    <2> QED BY <2>1, <2>3, <2>4
  <1>4. Slots(rest) \cap own = {}
    <2>1. ASSUME NEW slot \in Slots(rest), slot[1] = cam PROVE FALSE
      <3>1. slot[2] \in 1..MaxInflight /\ slot[2] <= rest[cam]
        BY <2>1 DEF Slots
      <3> QED BY <1>1, <3>1
    <2> QED BY <2>1
  <1> HIDE DEF own, rest
  <1>5. IsFiniteSet(Slots(rest))
    BY SlotsFinite
  <1>6. Cardinality(Slots(rest) \cup own) = Cardinality(Slots(rest)) + Cardinality(own)
    BY <1>2, <1>4, <1>5, CountUnion
  <1> QED BY <1>2, <1>3, <1>6 DEF rest

LEMMA SlotsPromised ==
    ASSUME NEW res \in [Cameras -> Nat], NEW cam \in Cameras, NEW n \in Nat
    PROVE  Cardinality(Slots([res EXCEPT ![cam] = n])) <= Cardinality(Slots(res)) + n
  <1> DEFINE own == {cam} \X (1..n)
             more == [res EXCEPT ![cam] = n]
  <1>1. IsFiniteSet(own) /\ Cardinality(own) = n
    BY OwnSlots
  <1>2. Slots(more) \subseteq Slots(res) \cup own
    <2> SUFFICES ASSUME NEW c \in Cameras, NEW k \in 1..MaxInflight, k <= more[c]
                 PROVE  <<c, k>> \in Slots(res) \cup own
      BY DEF Slots
    <2>1. CASE c = cam
      BY <2>1, RuntimeAssumption
    <2>2. CASE c # cam
      BY <2>2 DEF Slots
    <2> QED BY <2>1, <2>2
  <1> HIDE DEF own, more
  <1>3. IsFiniteSet(Slots(res)) /\ Cardinality(Slots(res)) \in Nat /\ Cardinality(Slots(more)) \in Nat
    BY SlotsFinite
  <1>4. /\ IsFiniteSet(Slots(res) \cup own)
        /\ Cardinality(Slots(res) \cup own) <= Cardinality(Slots(res)) + n
        /\ Cardinality(Slots(res) \cup own) \in Nat
    BY <1>1, <1>3, CountUnion
  <1>5. Cardinality(Slots(more)) <= Cardinality(Slots(res) \cup own)
    BY <1>2, <1>4, CountLess
  <1> QED BY <1>3, <1>4, <1>5 DEF more

-----------------------------------------------------------------------------
(***************************************************************************)
(* What the invariant counts, before a step and after it.                  *)
(***************************************************************************)
Counts ==
    /\ MaxInflight \in Nat /\ MaxInflightPerCamera \in Nat
    /\ MaxCommandRecords \in Nat /\ MaxRecords \in Nat
    /\ IsFiniteSet(inflight) /\ Cardinality(inflight) \in Nat
    /\ Cardinality(Promised) \in Nat /\ Promised = Slots(reserved)
    /\ Len(incoming) \in Nat
    /\ Taken = Cardinality(inflight) + Cardinality(Promised) + Len(incoming) /\ Taken \in Nat
    /\ Receipts \in Nat /\ Cardinality(toCancel) \in Nat /\ IsFiniteSet(toCancel)
    /\ Load = 2 * (Taken + Cardinality(toCancel)) + Receipts /\ Load \in Nat
    /\ IsFiniteSet(Present(mem)) /\ Cardinality(Present(mem)) \in Nat
    /\ RecordsTaken = Cardinality(Present(mem)) + Cardinality(Promised) + Len(incoming)
    /\ RecordsTaken \in Nat
    /\ reserved \in [Cameras -> Nat] /\ \A cam \in Cameras : reserved[cam] \in Nat
    /\ \A cam \in Cameras : /\ OwnTaken(cam) \in Nat
                            /\ Cardinality(inflight \cap IdsOf(cam)) \in Nat
                            /\ Cardinality(OwnIncoming(cam)) \in Nat
    /\ \A t \in snapshots : /\ Len(t.commands) \in Nat /\ t.capacity \in Nat
                            /\ t.camera \in Cameras /\ t.commands \in Seq(Requests)

LEMMA CountsHold == IInv /\ LInv => Counts
  <1> SUFFICES ASSUME IInv, LInv PROVE Counts
    OBVIOUS
  <1>1. RuntimeTypeOK
    BY DEF LInv
  <1>2. /\ IsFiniteSet(inflight) /\ Cardinality(inflight) \in Nat
        /\ Cardinality(Promised) \in Nat
        /\ Len(incoming) \in Nat /\ Taken \in Nat /\ Receipts \in Nat
        /\ \A cam : /\ Cardinality(inflight \cap IdsOf(cam)) \in Nat
                    /\ Cardinality(OwnIncoming(cam)) \in Nat
    BY <1>1, CountTypes DEF OwnIncoming, Places
  <1>3. /\ MaxInflight \in Nat /\ MaxInflightPerCamera \in Nat
        /\ MaxCommandRecords \in Nat /\ MaxRecords \in Nat
    BY RuntimeAssumption, LedgerAssumption
  <1>4. Promised = Slots(reserved)
    BY DEF Promised, Slots
  <1>5. Cardinality(toCancel) \in Nat /\ IsFiniteSet(toCancel)
    BY <1>1, CountIds DEF RuntimeTypeOK
  <1>6. IsFiniteSet(Present(mem)) /\ Cardinality(Present(mem)) \in Nat
    BY CountIds DEF Present
  <1>7. reserved \in [Cameras -> Nat] /\ \A cam \in Cameras : reserved[cam] \in Nat
    BY <1>1 DEF RuntimeTypeOK
  <1>8. \A t \in snapshots : /\ Len(t.commands) \in Nat /\ t.capacity \in Nat
                             /\ t.camera \in Cameras /\ t.commands \in Seq(Requests)
    BY <1>1 DEF RuntimeTypeOK, Snapshot
  <1>9. \A cam \in Cameras : OwnTaken(cam) \in Nat
    BY <1>2 DEF OwnTaken
  <1>10. Taken = Cardinality(inflight) + Cardinality(Promised) + Len(incoming)
    BY DEF Taken
  <1>11. Load = 2 * (Taken + Cardinality(toCancel)) + Receipts /\ Load \in Nat
    BY <1>2, <1>5 DEF Load
  <1>12. /\ RecordsTaken = Cardinality(Present(mem)) + Cardinality(Promised) + Len(incoming)
         /\ RecordsTaken \in Nat
    BY <1>2, <1>6 DEF RecordsTaken
  <1> QED BY <1>2, <1>3, <1>4, <1>5, <1>6, <1>7, <1>8, <1>9, <1>10, <1>11, <1>12 DEF Counts

LEMMA CountsHoldNext == (IInv /\ LInv => Counts)'
  BY CountsHold, PTL

\* Nothing that counts grows.
LEMMA CapacityKept ==
    ASSUME Counts, Counts', CInv,
           Taken' <= Taken, Load' <= Load, RecordsTaken' <= RecordsTaken,
           \A cam \in Cameras : /\ OwnTaken(cam)' + reserved'[cam] <= OwnTaken(cam) + reserved[cam]
                               /\ reserved'[cam] <= reserved[cam],
           \A t \in snapshots' : WithinPromise(t)'
    PROVE  CInv'
  <1>1. Taken' <= MaxInflight /\ Load' <= MaxCommandRecords /\ RecordsTaken' <= MaxRecords
    <2>1. /\ Taken \in Nat /\ Load \in Nat /\ RecordsTaken \in Nat
          /\ MaxInflight \in Nat /\ MaxCommandRecords \in Nat /\ MaxRecords \in Nat
      BY DEF Counts
    <2>2. Taken' \in Nat /\ Load' \in Nat /\ RecordsTaken' \in Nat
      BY DEF Counts
    <2>3. Taken <= MaxInflight /\ Load <= MaxCommandRecords /\ RecordsTaken <= MaxRecords
      BY DEF CInv
    <2> HIDE DEF Counts, CInv
    <2> QED BY <2>1, <2>2, <2>3
  <1>2. ASSUME NEW cam \in Cameras
        PROVE  /\ OwnTaken(cam)' + reserved'[cam] <= MaxInflightPerCamera
               /\ reserved'[cam] <= MaxInflight
    <2>1. /\ OwnTaken(cam) \in Nat /\ reserved[cam] \in Nat
          /\ OwnTaken(cam)' \in Nat /\ reserved'[cam] \in Nat
          /\ MaxInflightPerCamera \in Nat /\ MaxInflight \in Nat
      BY DEF Counts
    <2>2. OwnTaken(cam) + reserved[cam] <= MaxInflightPerCamera /\ reserved[cam] <= MaxInflight
      BY DEF CInv
    <2>3. OwnTaken(cam)' + reserved'[cam] <= OwnTaken(cam) + reserved[cam]
      OBVIOUS
    <2> QED BY <2>1, <2>2, <2>3
  <1> QED BY <1>1, <1>2 DEF CInv

\* Nothing that counts changes, but that records may go.
LEMMA CapacityFrame ==
    ASSUME Counts, Counts', CInv,
           UNCHANGED <<inflight, incoming, reserved, toCancel, results, completed>>,
           Present(mem') \subseteq Present(mem),
           \A t \in snapshots' : WithinPromise(t)'
    PROVE  CInv'
  <1>1. Cardinality(Present(mem')) <= Cardinality(Present(mem))
    BY CountLess DEF Counts
  <1>2. Promised' = Promised /\ Receipts' = Receipts
    BY DEF Promised, Receipts, Known
  <1>3. Taken' = Taken /\ Load' = Load
    BY <1>2 DEF Taken, Load
  <1>4. RecordsTaken' <= RecordsTaken
    <2>1. Cardinality(Present(mem)) \in Nat /\ Cardinality(Promised) \in Nat /\ Len(incoming) \in Nat
      BY DEF Counts
    <2>2. Cardinality(Present(mem)') \in Nat
      BY DEF Counts
    <2> QED BY <1>1, <1>2, <2>1, <2>2 DEF RecordsTaken
  <1>5. \A cam \in Cameras : OwnTaken(cam)' = OwnTaken(cam)
    BY DEF OwnTaken, OwnIncoming
  <1>6. Taken' <= Taken /\ Load' <= Load
    <2>1. Taken \in Nat /\ Load \in Nat
      BY DEF Counts
    <2> QED BY <1>3, <2>1
  <1>7. \A cam \in Cameras : /\ OwnTaken(cam)' + reserved'[cam] <= OwnTaken(cam) + reserved[cam]
                             /\ reserved'[cam] <= reserved[cam]
    <2>1. \A cam \in Cameras : OwnTaken(cam) \in Nat /\ reserved[cam] \in Nat
      BY DEF Counts
    <2> QED BY <1>5, <2>1
  <1> QED BY <1>4, <1>6, <1>7, CapacityKept

\* The snapshots are as they were, or fewer.
LEMMA PromisesStay ==
    ASSUME CInv, snapshots' \subseteq snapshots, reserved' = reserved, revision' = revision
    PROVE  \A t \in snapshots' : WithinPromise(t)'
  BY DEF CInv, WithinPromise, Fits

-----------------------------------------------------------------------------
(***************************************************************************)
(* The process starts or ends; the workers; the Server.                    *)
(***************************************************************************)
\* The limit on the loop's records leaves room for two receipts of each record of
\* the ledger: 4096 and 2048 in the code.
Roomy == 2 * MaxRecords <= MaxCommandRecords

LEMMA StartsWithin ==
    ASSUME Roomy, NEW where, NEW instances, NEW ledger, LoopStarts(where, instances, ledger),
           Loadable(ledger), mem' = ledger, Counts'
    PROVE  CInv'
  <1> USE DEF LoopStarts
  <1>1. Cardinality(Present(ledger)) \in Nat /\ Cardinality(Present(ledger)) <= MaxRecords
        /\ IsFiniteSet(Present(ledger))
    BY CountIds DEF Loadable, Present
  <1>2. Receipts' <= 2 * Cardinality(Present(ledger)) /\ Receipts' \in Nat
    <2> DEFINE concluded == {id \in Ids : completed'[id].verdict # NoVerdict}
    <2>1. Known(results') \subseteq Present(ledger)
      BY DEF Known, Unconfirmed, Present, Verdicts, Failed
    <2>2. concluded \subseteq Present(ledger)
      BY DEF NotCompleted, Concluded, Present, Verdicts, Failed
    <2>3. Receipts' = Cardinality(Known(results')) + Cardinality(concluded)
      BY DEF Receipts, Known
    <2> HIDE DEF concluded, LoopStarts
    <2>4. /\ Cardinality(Known(results')) <= Cardinality(Present(ledger))
          /\ Cardinality(concluded) <= Cardinality(Present(ledger))
          /\ Cardinality(Known(results')) \in Nat /\ Cardinality(concluded) \in Nat
      BY <1>1, <2>1, <2>2, CountLess
    <2> QED BY <1>1, <2>3, <2>4
  <1>3. Promised' = {}
    <2>1. \A slot \in Cameras \X (1..MaxInflight) : ~(slot[2] <= 0)
      BY RuntimeAssumption
    <2>2. \A slot \in Cameras \X (1..MaxInflight) : reserved'[slot[1]] = 0
      OBVIOUS
    <2> QED BY <2>1, <2>2 DEF Promised
  <1>4. Cardinality({}) = 0
    BY FS_EmptySet
  <1>5. inflight' = {} /\ toCancel' = {} /\ incoming' = << >> /\ snapshots' = {}
        /\ \A cam \in Cameras : reserved'[cam] = 0
    OBVIOUS
  <1> HIDE DEF LoopStarts
  <1>6. Taken' = 0
    BY <1>3, <1>4, <1>5 DEF Taken
  <1>7. Load' <= MaxCommandRecords
    <2>1. Load' = Receipts'
      BY <1>2, <1>4, <1>5, <1>6 DEF Load
    <2> QED BY <1>1, <1>2, <2>1, RuntimeAssumption, LedgerAssumption DEF Roomy
  <1>8. RecordsTaken' <= MaxRecords
    BY <1>1, <1>3, <1>4, <1>5 DEF RecordsTaken
  <1>9. ASSUME NEW cam \in Cameras PROVE OwnTaken(cam)' = 0
    <2>1. OwnIncoming(cam)' = {} /\ inflight' \cap IdsOf(cam) = {}
      BY <1>5 DEF OwnIncoming, Places
    <2> QED BY <1>4, <2>1 DEF OwnTaken
  <1> QED BY <1>5, <1>6, <1>7, <1>8, <1>9, RuntimeAssumption DEF CInv

LEMMA EndsWithin ==
    ASSUME Roomy, Halted, LoopEnds, Counts'
    PROVE  CInv'
  BY EmptyLoadable, StartsWithin DEF Halted, LoopEnds

LEMMA BootWithin ==
    ASSUME Roomy, IInv, LInv, DInv', Counts, Counts', CInv, Boot
    PROVE  CInv'
  <1>1. CASE LoopStarts("select", config, mem')
    <2>1. Loadable(mem')
      BY DEF DInv
    <2> QED BY <1>1, <2>1, StartsWithin
  <1>2. CASE UNCHANGED loopVars /\ ~up'
    <2>1. mem' = mem
      BY <1>2 DEF Boot, Open, SaveFails, Halted, IInv
    <2>2. \A t \in snapshots' : WithinPromise(t)'
      BY <1>2, PromisesStay DEF loopVars, snapshotVars, passVars
    <2> QED BY <1>2, <2>1, <2>2, CapacityFrame DEF loopVars, snapshotVars, passVars, commandVars
  <1> QED BY <1>1, <1>2 DEF Boot

\* A worker makes no record.
LEMMA WorkerRecords ==
    ASSUME IInv, NEW cam \in Cameras, WorkerStep(cam)
    PROVE  Present(mem') \subseteq Present(mem)
  <1> DEFINE id == IdOf[Current(cam)]
  <1>1. \/ mem' = mem
        \/ pc[cam] \in Engaged /\ \E v : mem' = [mem EXCEPT ![id].state = v] /\ mem[id].state # "absent"
    BY DEF WorkerStep, Finish, Replay, CheckDeadline, Begin, Transmit, Answer, Complete, DropAborted,
           Begun, Completed, Engaged, Running
  <1>2. mem \in [Ids -> Record]
    BY LedgersReady DEF Ledgers
  <1>3. ASSUME pc[cam] \in Engaged, NEW v, mem' = [mem EXCEPT ![id].state = v], mem[id].state # "absent"
        PROVE  Present(mem') \subseteq Present(mem)
    <2>1. id \in Ids
      BY <1>3, CurrentCommand
    <2> HIDE DEF id
    <2>2. \A other \in Ids : other # id => mem'[other] = mem[other]
      BY <1>2, <1>3
    <2> QED BY <1>3, <2>1, <2>2 DEF Present
  <1> QED BY <1>1, <1>3

LEMMA WorkWithin ==
    ASSUME IInv, LInv, Counts, Counts', CInv, NEW cam \in Cameras, Work(cam)
    PROVE  CInv'
  <1>1. UNCHANGED loopVars /\ WorkerStep(cam)
    BY DEF Work
  <1>2. \A t \in snapshots' : WithinPromise(t)'
    BY <1>1, PromisesStay DEF loopVars, snapshotVars, passVars
  <1> QED BY <1>1, <1>2, WorkerRecords, CapacityFrame DEF loopVars, snapshotVars, passVars, commandVars

LEMMA NetworkWithin ==
    ASSUME IInv, LInv, Counts, Counts', CInv, Network
    PROVE  CInv'
  <1> USE DEF passVars, commandVars, environmentVars
  <1>1. PICK t \in snapshots : SnapshotServed(t) \/ SnapshotLost(t) \/ SnapshotPanics(t)
    BY DEF Network
  <1>2. UNCHANGED <<mem, inflight, incoming, reserved, toCancel, results, completed, revision>>
    BY <1>1 DEF SnapshotServed, SnapshotLost, SnapshotPanics, vars
  <1>3. t \in Snapshot
    BY DEF LInv, RuntimeTypeOK
  <1>4. PICK outcome, commands :
            /\ TaskEnds(t, outcome, commands)
            /\ commands = << >> \/ commands \in Deliveries(t)
    BY <1>1 DEF SnapshotServed, SnapshotLost, SnapshotPanics
  <1>5. Len(commands) <= t.capacity
    <2>1. CASE commands = << >>
      BY <1>3, <2>1 DEF Snapshot
    <2>2. CASE commands \in Deliveries(t)
      BY <2>2, DeliveriesSound
    <2> QED BY <1>4, <2>1, <2>2
  <1>6. ASSUME NEW u \in snapshots' PROVE WithinPromise(u)'
    <2>1. CASE u \in snapshots
      BY <1>2, <2>1 DEF CInv, WithinPromise, Fits
    <2>2. CASE u = [t EXCEPT !.outcome = outcome, !.commands = commands]
      <3>1. u.camera = t.camera /\ u.revision = t.revision /\ u.capacity = t.capacity
            /\ u.commands = commands
        BY <1>3, <2>2 DEF Snapshot
      <3>2. WithinPromise(t)
        BY DEF CInv
      <3> QED BY <1>2, <1>5, <3>1, <3>2 DEF WithinPromise, Fits
    <2> QED BY <1>4, <2>1, <2>2 DEF TaskEnds
  <1> QED BY <1>2, <1>6, CapacityFrame

-----------------------------------------------------------------------------
(***************************************************************************)
(* Reload and cancel.                                                      *)
(***************************************************************************)
\* Fewer commands, promises and receipts.
LEMMA Smaller ==
    ASSUME Counts, Counts', mem' = mem, incoming' = incoming,
           Cardinality(inflight') <= Cardinality(inflight),
           Cardinality(inflight') + Cardinality(toCancel') <= Cardinality(inflight) + Cardinality(toCancel),
           Cardinality(Promised') <= Cardinality(Promised),
           Receipts' <= Receipts
    PROVE  Taken' <= Taken /\ Load' <= Load /\ RecordsTaken' <= RecordsTaken
  <1> DEFINE i0 == Cardinality(inflight)
             i1 == Cardinality(inflight')
             p0 == Cardinality(Promised)
             p1 == Cardinality(Promised')
             c0 == Cardinality(toCancel)
             c1 == Cardinality(toCancel')
             n == Len(incoming)
             m == Cardinality(Present(mem))
  <1>1. {i0, p0, c0, n, m, Receipts} \subseteq Nat
    BY DEF Counts
  <1>2. {i1, p1, c1, Receipts'} \subseteq Nat
    BY DEF Counts
  <1>3. /\ Taken = i0 + p0 + n
        /\ Load = 2 * (Taken + c0) + Receipts
        /\ RecordsTaken = m + p0 + n
    BY DEF Taken, Load, RecordsTaken
  <1>4. /\ Taken' = i1 + p1 + n
        /\ RecordsTaken' = m + p1 + n
    BY DEF Taken, RecordsTaken
  <1>5. Load' = 2 * (Taken' + c1) + Receipts'
    BY DEF Load
  <1>6. i1 <= i0 /\ i1 + c1 <= i0 + c0 /\ p1 <= p0 /\ Receipts' <= Receipts
    OBVIOUS
  <1> HIDE DEF i0, i1, p0, p1, c0, c1, n, m
  <1>7. Taken' <= Taken
    BY <1>1, <1>2, <1>3, <1>4, <1>6
  <1>8. RecordsTaken' <= RecordsTaken
    BY <1>1, <1>2, <1>3, <1>4, <1>6
  <1>9. Load' <= Load
    BY <1>1, <1>2, <1>3, <1>4, <1>5, <1>6
  <1> QED BY <1>7, <1>8, <1>9

LEMMA ReloadWithin ==
    ASSUME IInv, LInv, Counts, Counts', CInv, Reload
    PROVE  CInv'
  <1> DEFINE changed == {cam \in Cameras : config[cam] # loaded[cam]}
             canceled == Canceled(changed)
  <1>1. /\ mem' = mem /\ incoming' = incoming /\ completed' = completed
        /\ inflight' = inflight \ canceled
        /\ toCancel' \subseteq canceled
        /\ \A id \in Ids : results'[id] # NoVerdict => results[id] # NoVerdict
        /\ \A cam \in Cameras : reserved'[cam] = reserved[cam] \/ reserved'[cam] = 0
    BY DEF Reload, AbortWorkers
  <1>2. /\ reserved' = [cam \in Cameras |-> IF cam \in changed THEN 0 ELSE reserved[cam]]
        /\ revision' = [cam \in Cameras |-> revision[cam] + IF cam \in changed THEN 1 ELSE 0]
        /\ snapshots' \subseteq snapshots
        /\ toCancel = {}
    BY DEF Reload, LInv, CancelReady
  <1>3. canceled \subseteq inflight
    BY DEF Canceled
  <1> HIDE DEF canceled, changed
  <1>4. Cardinality(inflight') + Cardinality(toCancel') <= Cardinality(inflight) + Cardinality(toCancel)
    <2>0. IsFiniteSet(inflight) /\ inflight' \subseteq inflight
      BY <1>1 DEF Counts
    <2>1. IsFiniteSet(inflight') /\ IsFiniteSet(canceled) /\ inflight' \cap canceled = {}
      <3>1. IsFiniteSet(inflight')
        BY <2>0, CountLess
      <3>2. IsFiniteSet(canceled)
        BY <2>0, <1>3, CountLess
      <3>3. inflight' \cap canceled = {}
        BY <1>1
      <3> QED BY <3>1, <3>2, <3>3
    <2>2. inflight' \cup canceled = inflight
      BY <1>1, <1>3
    <2>3. Cardinality(inflight') + Cardinality(canceled) = Cardinality(inflight)
          /\ Cardinality(inflight') \in Nat /\ Cardinality(canceled) \in Nat
      BY <2>1, <2>2, CountUnion
    <2>4. Cardinality(toCancel') <= Cardinality(canceled) /\ Cardinality(toCancel') \in Nat
      BY <1>1, <2>1, CountLess
    <2>5. Cardinality(toCancel) = 0
      BY <1>2, FS_EmptySet
    <2> QED BY <2>3, <2>4, <2>5
  <1>5. Cardinality(Promised') <= Cardinality(Promised)
    <2>0. \A cam \in Cameras : reserved[cam] \in Nat
      BY DEF Counts
    <2>1. \A cam \in Cameras : reserved'[cam] <= reserved[cam]
      BY <1>1, <2>0
    <2>2. Promised = Slots(reserved) /\ Promised' = Slots(reserved')
          /\ reserved \in [Cameras -> Nat] /\ reserved' \in [Cameras -> Nat]
      BY DEF Counts
    <2> QED BY <2>1, <2>2, SlotsShrink
  <1>6. Receipts' <= Receipts
    <2>1. Known(results') \subseteq Known(results)
      BY <1>1 DEF Known
    <2>2. Cardinality(Known(results')) <= Cardinality(Known(results))
          /\ Cardinality(Known(results')) \in Nat /\ Cardinality(Known(results)) \in Nat
      BY <2>1, CountIds, CountLess DEF Known
    <2> DEFINE concluded == {id \in Ids : completed[id].verdict # NoVerdict}
    <2>3. Cardinality(concluded) \in Nat
      BY CountIds
    <2>4. Receipts' = Cardinality(Known(results')) + Cardinality(concluded)
          /\ Receipts = Cardinality(Known(results)) + Cardinality(concluded)
      BY <1>1 DEF Receipts, Known
    <2> HIDE DEF concluded
    <2> QED BY <2>2, <2>3, <2>4
  <1>7. Taken' <= Taken /\ Load' <= Load /\ RecordsTaken' <= RecordsTaken
    <2>1. Cardinality(inflight') <= Cardinality(inflight)
      <3>1. IsFiniteSet(inflight) /\ inflight' \subseteq inflight
        BY <1>1 DEF Counts
      <3> QED BY <3>1, CountLess
    <2> QED BY <1>1, <1>4, <1>5, <1>6, <2>1, Smaller
  <1>8. ASSUME NEW cam \in Cameras
        PROVE  OwnTaken(cam)' + reserved'[cam] <= OwnTaken(cam) + reserved[cam]
               /\ reserved'[cam] <= reserved[cam]
    <2>1. inflight' \cap IdsOf(cam) \subseteq inflight \cap IdsOf(cam)
          /\ IsFiniteSet(inflight \cap IdsOf(cam))
      BY <1>1, FS_Intersection DEF Counts
    <2>2. Cardinality(inflight' \cap IdsOf(cam)) <= Cardinality(inflight \cap IdsOf(cam))
          /\ Cardinality(inflight' \cap IdsOf(cam)) \in Nat
      BY <2>1, CountLess
    <2>3. OwnTaken(cam)' = Cardinality(inflight' \cap IdsOf(cam)) + Cardinality(OwnIncoming(cam))
      BY <1>1 DEF OwnTaken, OwnIncoming
    <2>4. /\ Cardinality(inflight \cap IdsOf(cam)) \in Nat /\ Cardinality(OwnIncoming(cam)) \in Nat
          /\ reserved[cam] \in Nat
      BY DEF Counts
    <2> QED BY <1>1, <2>2, <2>3, <2>4 DEF OwnTaken
  <1>9. ASSUME NEW t \in snapshots' PROVE WithinPromise(t)'
    <2>1. t \in snapshots /\ WithinPromise(t) /\ t.revision <= revision[t.camera] /\ t \in Snapshot
          /\ revision \in [Cameras -> Nat]
      BY <1>2 DEF CInv, LInv, SnapshotSound, RuntimeTypeOK
    <2>2. t.revision \in Nat /\ t.camera \in Cameras
      BY <2>1 DEF Snapshot
    <2>3. CASE t.camera \in changed
      <3>1. revision'[t.camera] = revision[t.camera] + 1
        BY <1>2, <2>2, <2>3
      <3>2. ~Fits(t)'
        BY <2>1, <2>2, <3>1 DEF Fits
      <3> QED BY <2>1, <3>2 DEF WithinPromise
    <2>4. CASE t.camera \notin changed
      <3>1. revision'[t.camera] = revision[t.camera] + 0 /\ reserved'[t.camera] = reserved[t.camera]
        BY <1>2, <2>2, <2>4
      <3>2. Fits(t)' => Fits(t)
        BY <2>1, <2>2, <3>1 DEF Fits
      <3> QED BY <2>1, <3>1, <3>2 DEF WithinPromise
    <2> QED BY <2>3, <2>4
  <1> QED BY <1>7, <1>8, <1>9, CapacityKept

\* The ids with a recent verdict.
Verdicted(entries) == {id \in Ids : entries[id].verdict # NoVerdict}

\* Verdicts on the ids S, and on no others, were noted.
LEMMA ReceiptsGrow ==
    ASSUME NEW S, S \subseteq Ids,
           Known(results') \subseteq Known(results) \cup S,
           Verdicted(completed') \subseteq Verdicted(completed) \cup S
    PROVE  /\ Receipts' <= Receipts + 2 * Cardinality(S)
           /\ Receipts' \in Nat /\ Receipts \in Nat /\ Cardinality(S) \in Nat
  <1> DEFINE k0 == Known(results)
             k1 == Known(results')
             v0 == Verdicted(completed)
             v1 == Verdicted(completed')
  <1>1. IsFiniteSet(k0) /\ IsFiniteSet(k1) /\ IsFiniteSet(v0) /\ IsFiniteSet(v1) /\ IsFiniteSet(S)
    BY CountIds DEF Known, Verdicted
  <1>2. Receipts = Cardinality(k0) + Cardinality(v0)
    BY DEF Receipts, Verdicted
  <1>3. Receipts' = Cardinality(k1) + Cardinality(v1)
    BY DEF Receipts, Verdicted, Known
  <1>4. k1 \subseteq k0 \cup S /\ v1 \subseteq v0 \cup S
    OBVIOUS
  <1> HIDE DEF k0, k1, v0, v1
  <1>5. ASSUME NEW A, NEW B, IsFiniteSet(A), IsFiniteSet(B), B \subseteq A \cup S
        PROVE  Cardinality(B) <= Cardinality(A) + Cardinality(S)
               /\ Cardinality(B) \in Nat /\ Cardinality(A) \in Nat /\ Cardinality(S) \in Nat
    <2>1. /\ IsFiniteSet(A \cup S) /\ Cardinality(A \cup S) <= Cardinality(A) + Cardinality(S)
          /\ Cardinality(A \cup S) \in Nat /\ Cardinality(A) \in Nat /\ Cardinality(S) \in Nat
      BY <1>1, <1>5, CountUnion
    <2>2. Cardinality(B) <= Cardinality(A \cup S) /\ Cardinality(B) \in Nat
      BY <1>5, <2>1, CountLess
    <2> QED BY <2>1, <2>2
  <1>6. /\ Cardinality(k1) <= Cardinality(k0) + Cardinality(S)
        /\ Cardinality(k1) \in Nat /\ Cardinality(k0) \in Nat /\ Cardinality(S) \in Nat
    BY <1>1, <1>4, <1>5
  <1>7. /\ Cardinality(v1) <= Cardinality(v0) + Cardinality(S)
        /\ Cardinality(v1) \in Nat /\ Cardinality(v0) \in Nat
    BY <1>1, <1>4, <1>5
  <1> QED BY <1>2, <1>3, <1>6, <1>7

\* Commands turn into receipts, two for each.
LEMMA CommandsConclude ==
    ASSUME Counts, Counts', CInv,
           UNCHANGED <<incoming, reserved, revision>>,
           snapshots' \subseteq snapshots, inflight' \subseteq inflight,
           Present(mem') \subseteq Present(mem),
           NEW n \in Nat,
           Cardinality(inflight') + Cardinality(toCancel') + n
                <= Cardinality(inflight) + Cardinality(toCancel),
           Receipts' <= Receipts + 2 * n
    PROVE  CInv'
  <1> DEFINE i0 == Cardinality(inflight)
             i1 == Cardinality(inflight')
             p == Cardinality(Promised)
             c0 == Cardinality(toCancel)
             c1 == Cardinality(toCancel')
             l == Len(incoming)
             m0 == Cardinality(Present(mem))
             m1 == Cardinality(Present(mem'))
  <1>1. {i0, p, c0, l, m0, Receipts} \subseteq Nat
    BY DEF Counts
  <1>2. {i1, c1, m1, Receipts'} \subseteq Nat
    BY DEF Counts
  <1>3. /\ Taken = i0 + p + l
        /\ Load = 2 * (Taken + c0) + Receipts
        /\ RecordsTaken = m0 + p + l
    BY DEF Taken, Load, RecordsTaken
  <1>4. /\ Taken' = i1 + p + l
        /\ RecordsTaken' = m1 + p + l
    BY DEF Taken, RecordsTaken, Promised
  <1>5. Load' = 2 * (Taken' + c1) + Receipts'
    BY DEF Load
  <1>6. i1 <= i0 /\ m1 <= m0
    <2>1. IsFiniteSet(inflight) /\ IsFiniteSet(Present(mem))
      BY DEF Counts
    <2> QED BY <2>1, CountLess
  <1>7. i1 + c1 + n <= i0 + c0
    OBVIOUS
  <1> HIDE DEF i0, i1, p, c0, c1, l, m0, m1
  <1>8. Taken' <= Taken
    BY <1>1, <1>2, <1>3, <1>4, <1>6
  <1>9. RecordsTaken' <= RecordsTaken
    BY <1>1, <1>2, <1>3, <1>4, <1>6
  <1>10. Load' <= Load
    BY <1>1, <1>2, <1>3, <1>4, <1>5, <1>7
  <1>11. ASSUME NEW cam \in Cameras
         PROVE  OwnTaken(cam)' + reserved'[cam] <= OwnTaken(cam) + reserved[cam]
                /\ reserved'[cam] <= reserved[cam]
    <2>1. inflight' \cap IdsOf(cam) \subseteq inflight \cap IdsOf(cam)
          /\ IsFiniteSet(inflight \cap IdsOf(cam))
      BY FS_Intersection DEF Counts
    <2>2. Cardinality(inflight' \cap IdsOf(cam)) <= Cardinality(inflight \cap IdsOf(cam))
          /\ Cardinality(inflight' \cap IdsOf(cam)) \in Nat
      BY <2>1, CountLess
    <2>3. OwnTaken(cam)' = Cardinality(inflight' \cap IdsOf(cam)) + Cardinality(OwnIncoming(cam))
      BY DEF OwnTaken, OwnIncoming
    <2>4. /\ Cardinality(inflight \cap IdsOf(cam)) \in Nat /\ Cardinality(OwnIncoming(cam)) \in Nat
          /\ reserved[cam] \in Nat
      BY DEF Counts
    <2> QED BY <2>2, <2>3, <2>4 DEF OwnTaken
  <1>12. \A t \in snapshots' : WithinPromise(t)'
    BY PromisesStay
  <1> QED BY <1>8, <1>9, <1>10, <1>11, <1>12, CapacityKept

LEMMA CancelOneWithin ==
    ASSUME Roomy, IInv, LInv, Counts, Counts', CInv, up' \in BOOLEAN,
           NEW r \in Requests, CancelOne(r)
    PROVE  CInv'
  <1> DEFINE id == IdOf[r]
  <1>1. id \in toCancel /\ Cancel(r) /\ id \in Ids
    BY LedgerAssumption DEF CancelOne
  <1>2. CASE ~up'
    <2>1. Halted /\ LoopEnds
      BY <1>1, <1>2 DEF CancelOne, Cancel, SaveByLoop, Saved, SaveFails
    <2> QED BY <2>1, EndsWithin
  <1>3. CASE up'
    <2>1. /\ toCancel' = toCancel \ {id}
          /\ results' = [results EXCEPT ![id] = mem'[id].state]
          /\ completed' = [completed EXCEPT ![id] =
                                [verdict |-> mem'[id].state, until |-> now + DedupGrace]]
          /\ UNCHANGED <<revision, incoming, snapshotVars, inflight>>
      BY <1>3 DEF CancelOne
    <2>2. /\ mem[id].state # "absent"
          /\ mem' = Completed(mem, id, CancelVerdict(mem[id].state))
      BY <1>1, <1>3 DEF Cancel, SaveByLoop, Saved, SaveFails, Halted
    <2>3. RuntimeTypeOK /\ IsFiniteSet(toCancel)
      BY DEF LInv, Counts
    <2> HIDE DEF id
    <2>4. Present(mem') \subseteq Present(mem)
      <3>1. mem \in [Ids -> Record]
        BY LedgersReady DEF Ledgers
      <3>2. \A other \in Ids : other # id => mem'[other] = mem[other]
        BY <2>2, <3>1 DEF Completed
      <3> QED BY <2>2, <3>2 DEF Present
    <2>5. Known(results') \subseteq Known(results) \cup {id}
      BY <2>1, <2>3 DEF Known, RuntimeTypeOK
    <2>6. Verdicted(completed') \subseteq Verdicted(completed) \cup {id}
      <3>1. \A other \in Ids : other # id => completed'[other] = completed[other]
        BY <2>1, <2>3 DEF RuntimeTypeOK
      <3> QED BY <3>1 DEF Verdicted
    <2>7. Receipts' <= Receipts + 2 * Cardinality({id}) /\ Cardinality({id}) = 1
      BY <1>1, <2>5, <2>6, ReceiptsGrow, FS_Singleton
    <2>8. Cardinality(toCancel') = Cardinality(toCancel) - 1
      BY <1>1, <2>1, <2>3, FS_RemoveElement
    <2>9. Cardinality(inflight') + Cardinality(toCancel') + 1 <= Cardinality(inflight) + Cardinality(toCancel)
      <3>1. Cardinality(inflight) \in Nat /\ Cardinality(toCancel) \in Nat /\ inflight' = inflight
        BY <2>1 DEF Counts
      <3> QED BY <2>8, <3>1
    <2>10. Receipts' <= Receipts + 2 * 1
      BY <2>7
    <2>11. UNCHANGED <<incoming, reserved, revision, snapshots, inflight>>
      BY <2>1 DEF snapshotVars
    <2> QED BY <2>4, <2>9, <2>10, <2>11, CommandsConclude
  <1> QED BY <1>2, <1>3

-----------------------------------------------------------------------------
(***************************************************************************)
(* Finished workers and finished snapshots.                                *)
(***************************************************************************)
LEMMA CollectWorkerWithin ==
    ASSUME Roomy, IInv, LInv, Counts, Counts', CInv, up' \in BOOLEAN,
           NEW cam \in Cameras, CollectWorker(cam)
    PROVE  CInv'
  <1>1. Collect(cam) /\ phase = "commands"
    BY DEF CollectWorker
  <1>2. CASE ~up'
    <2>1. Halted /\ LoopEnds
      BY <1>1, <1>2 DEF Collect, CollectWorker
    <2> QED BY <2>1, EndsWithin
  <1>3. CASE up'
    <2>1. mem' = mem /\ pc[cam] = "done"
      BY <1>1, <1>3 DEF Collect, Halted
    <2>2. CASE UNCHANGED loopVars
      <3>1. \A t \in snapshots' : WithinPromise(t)'
        BY <2>2, PromisesStay DEF loopVars, snapshotVars, passVars
      <3> QED BY <2>1, <2>2, <3>1, CapacityFrame DEF loopVars, snapshotVars, passVars, commandVars
    <2>3. CASE ~UNCHANGED loopVars
      <3> DEFINE ids == {IdOf[x.request] : x \in returned[cam]}
      <3>1. /\ CurrentWorker(cam)
            /\ inflight' = inflight \ ids
            /\ results' = WorkerResults(cam)
            /\ completed' = [id \in Ids |->
                              IF \E x \in returned[cam] : IdOf[x.request] = id /\ x.fresh
                              THEN LET x == CHOOSE x \in returned[cam] : IdOf[x.request] = id
                                   IN  [verdict |-> x.verdict, until |-> DedupUntil(x.request)]
                              ELSE completed[id]]
            /\ UNCHANGED <<passVars, snapshotVars, pending, workerRevision>>
        BY <1>3, <2>3 DEF CollectWorker
      <3>2. ids \subseteq inflight
        BY <2>1, <3>1 DEF LInv, WorkerKept, HeldIds
      <3>3. Known(results') \subseteq Known(results) \cup ids
        BY <3>1 DEF Known, WorkerResults
      <3>4. Verdicted(completed') \subseteq Verdicted(completed) \cup ids
        <4>1. ASSUME NEW id \in Ids, id \notin ids PROVE completed'[id] = completed[id]
          BY <3>1, <4>1
        <4> HIDE DEF ids
        <4> QED BY <4>1 DEF Verdicted
      <3> HIDE DEF ids
      <3>5. ids \subseteq Ids
        BY <3>2 DEF LInv, RuntimeTypeOK
      <3>6. /\ Receipts' <= Receipts + 2 * Cardinality(ids)
            /\ Cardinality(ids) \in Nat
        BY <3>3, <3>4, <3>5, ReceiptsGrow
      <3>7. UNCHANGED <<incoming, reserved, revision, snapshots, toCancel, mem>>
        BY <2>1, <3>1 DEF passVars, snapshotVars
      <3>8. Cardinality(inflight') + Cardinality(toCancel') + Cardinality(ids)
                <= Cardinality(inflight) + Cardinality(toCancel)
        <4>1. IsFiniteSet(inflight) /\ Cardinality(toCancel) \in Nat
          BY DEF Counts
        <4>2. inflight' \subseteq inflight
          BY <3>1
        <4>3. IsFiniteSet(inflight') /\ IsFiniteSet(ids)
          <5>1. IsFiniteSet(inflight')
            BY <4>1, <4>2, CountLess
          <5>2. IsFiniteSet(ids)
            BY <3>2, <4>1, CountLess
          <5> QED BY <5>1, <5>2
        <4>4. inflight' \cap ids = {} /\ inflight' \cup ids = inflight
          BY <3>1, <3>2
        <4>5. /\ Cardinality(inflight') + Cardinality(ids) = Cardinality(inflight)
              /\ Cardinality(inflight') \in Nat
          BY <4>3, <4>4, CountUnion
        <4> QED BY <3>6, <3>7, <4>1, <4>5
      <3>9. inflight' \subseteq inflight /\ snapshots' \subseteq snapshots /\ Present(mem') \subseteq Present(mem)
        BY <3>1, <3>7
      <3> QED BY <3>6, <3>7, <3>8, <3>9, CommandsConclude
    <2> QED BY <2>2, <2>3
  <1> QED BY <1>2, <1>3

LEMMA CollectPanicWithin ==
    ASSUME IInv, LInv, Counts, Counts', CInv, NEW t \in snapshots, CollectPanic(t)
    PROVE  CInv'
  <1>1. /\ UNCHANGED <<mem, inflight, incoming, toCancel, results, completed>>
        /\ snapshots' \subseteq snapshots
        /\ revision' = [cam \in Cameras |-> revision[cam] + 1]
        /\ \A cam \in Cameras : reserved'[cam] = 0
    BY DEF CollectPanic, vars, commandVars, Finished
  <1>2. \A cam \in Cameras : reserved'[cam] <= reserved[cam]
    <2>1. \A cam \in Cameras : reserved[cam] \in Nat
      BY DEF Counts
    <2> QED BY <1>1, <2>1
  <1>3. Cardinality(Promised') <= Cardinality(Promised)
    <2>1. Promised = Slots(reserved) /\ reserved \in [Cameras -> Nat]
      BY DEF Counts
    <2>2. Promised' = Slots(reserved') /\ reserved' \in [Cameras -> Nat]
      BY DEF Counts
    <2> QED BY <1>2, <2>1, <2>2, SlotsShrink
  <1>4. Receipts' = Receipts
    BY <1>1 DEF Receipts, Known
  <1>5. /\ Cardinality(inflight) \in Nat /\ Cardinality(toCancel) \in Nat /\ Receipts \in Nat
    BY DEF Counts
  <1>6. Taken' <= Taken /\ Load' <= Load /\ RecordsTaken' <= RecordsTaken
    BY <1>1, <1>3, <1>4, <1>5, Smaller
  <1>7. ASSUME NEW cam \in Cameras
        PROVE  OwnTaken(cam)' + reserved'[cam] <= OwnTaken(cam) + reserved[cam]
    <2>1. OwnTaken(cam)' = OwnTaken(cam)
      BY <1>1 DEF OwnTaken, OwnIncoming
    <2>2. OwnTaken(cam) \in Nat /\ reserved[cam] \in Nat
      BY DEF Counts
    <2> QED BY <1>1, <2>1, <2>2
  <1>8. ASSUME NEW u \in snapshots' PROVE WithinPromise(u)'
    <2>1. WithinPromise(u) /\ u.revision <= revision[u.camera] /\ u \in Snapshot
          /\ revision \in [Cameras -> Nat]
      BY <1>1 DEF CInv, LInv, SnapshotSound, RuntimeTypeOK
    <2>2. u.revision \in Nat /\ u.camera \in Cameras
      BY <2>1 DEF Snapshot
    <2>3. ~Fits(u)'
      BY <1>1, <2>1, <2>2 DEF Fits
    <2> QED BY <2>1, <2>3 DEF WithinPromise
  <1> QED BY <1>2, <1>6, <1>7, <1>8, CapacityKept

\* The commands of one camera among the received ones, when those of a response
\* are appended.
LEMMA OwnIncomingGrows ==
    ASSUME NEW p \in Seq(Requests), NEW q \in Seq(Requests),
           NEW cam \in Cameras, OfCamera(cam, q), NEW c \in Cameras
    PROVE  /\ Cardinality(Places(p \o q, c)) <= Cardinality(Places(p, c)) + Len(q)
           /\ c # cam => Places(p \o q, c) = Places(p, c)
  <1> DEFINE own(s) == Places(s, c)
             places == (Len(p) + 1)..(Len(p) + Len(q))
  <1>1. /\ Len(p) \in Nat /\ Len(q) \in Nat /\ DOMAIN p = 1..Len(p) /\ DOMAIN q = 1..Len(q)
        /\ DOMAIN (p \o q) = 1..(Len(p) + Len(q))
    OBVIOUS
  <1>2. /\ \A i \in DOMAIN (p \o q) :
                \/ i \in DOMAIN p /\ (p \o q)[i] = p[i]
                \/ /\ i \notin DOMAIN p
                   /\ i - Len(p) \in DOMAIN q
                   /\ (p \o q)[i] = q[i - Len(p)]
        /\ DOMAIN p \subseteq DOMAIN (p \o q)
        /\ \A i \in DOMAIN p : (p \o q)[i] = p[i]
    BY ConcatElements
  <1>3. own(p) \subseteq 1..Len(p)
    BY <1>1 DEF Places
  <1>4. own(p \o q) \subseteq own(p) \cup places
    <2> SUFFICES ASSUME NEW i \in own(p \o q), i \notin own(p) PROVE i \in places
      OBVIOUS
    <2>1. i \in 1..(Len(p) + Len(q)) /\ i \notin DOMAIN p
      BY <1>1, <1>2 DEF Places
    <2> QED BY <1>1, <2>1
  <1>5. c # cam => own(p \o q) = own(p)
    BY <1>2 DEF OfCamera, Places
  <1>6. IsFiniteSet(places) /\ Cardinality(places) = Len(q)
    <2> DEFINE a == Len(p) + 1
               b == Len(p) + Len(q)
    <2>0. a \in Int /\ b \in Int
      BY <1>1
    <2>1. IsFiniteSet(a..b) /\ Cardinality(a..b) = IF a > b THEN 0 ELSE b - a + 1
      <3> HIDE DEF a, b
      <3> QED BY <2>0, FS_Interval
    <2>2. a > b \/ (~(a > b) /\ b - a + 1 = Len(q))
      BY <1>1
    <2>3. a > b => Len(q) = 0
      BY <1>1
    <2> QED BY <2>1, <2>2, <2>3
  <1>7. IsFiniteSet(own(p))
    BY <1>1, <1>3, CountTo, CountLess
  <1> HIDE DEF own, places
  <1>8. /\ Cardinality(own(p) \cup places) <= Cardinality(own(p)) + Len(q)
        /\ IsFiniteSet(own(p) \cup places) /\ Cardinality(own(p) \cup places) \in Nat
        /\ Cardinality(own(p)) \in Nat
    BY <1>6, <1>7, CountUnion
  <1>9. Cardinality(own(p \o q)) <= Cardinality(own(p) \cup places) /\ Cardinality(own(p \o q)) \in Nat
    BY <1>4, <1>8, CountLess
  <1>10. Cardinality(own(p \o q)) <= Cardinality(own(p)) + Len(q)
    BY <1>1, <1>8, <1>9
  <1> QED BY <1>5, <1>10 DEF own

LEMMA LoadShrinks ==
    ASSUME NEW a \in Nat, NEW b \in Nat, b <= a, NEW c \in Nat,
           NEW k \in Nat, NEW l \in Nat, l <= k
    PROVE  2 * (b + c) + l <= 2 * (a + c) + k
  OBVIOUS

\* The place of what was promised is taken by no more than that.
LEMMA Redeemed ==
    ASSUME Counts, Counts', NEW s \in Nat,
           Cardinality(Promised') + s = Cardinality(Promised),
           Len(incoming') <= Len(incoming) + s,
           inflight' = inflight, toCancel' = toCancel,
           Receipts' <= Receipts, Present(mem') \subseteq Present(mem)
    PROVE  Taken' <= Taken /\ Load' <= Load /\ RecordsTaken' <= RecordsTaken
  <1> DEFINE i == Cardinality(inflight)
             p0 == Cardinality(Promised)
             p1 == Cardinality(Promised')
             c == Cardinality(toCancel)
             l0 == Len(incoming)
             l1 == Len(incoming')
             m0 == Cardinality(Present(mem))
             m1 == Cardinality(Present(mem'))
  <1>1. i \in Nat /\ p0 \in Nat /\ c \in Nat /\ l0 \in Nat /\ m0 \in Nat /\ Receipts \in Nat
    BY DEF Counts
  <1>2. p1 \in Nat /\ l1 \in Nat /\ m1 \in Nat /\ Receipts' \in Nat
    BY DEF Counts
  <1>3. /\ Taken = i + p0 + l0
        /\ Load = 2 * (Taken + c) + Receipts
        /\ RecordsTaken = m0 + p0 + l0
    BY DEF Taken, Load, RecordsTaken
  <1>4. /\ Taken' = i + p1 + l1
        /\ RecordsTaken' = m1 + p1 + l1
    BY DEF Taken, RecordsTaken
  <1>5. Load' = 2 * (Taken' + c) + Receipts'
    BY DEF Load
  <1>6. m1 <= m0
    BY CountLess DEF Counts
  <1>7. p1 + s = p0 /\ l1 <= l0 + s
    OBVIOUS
  <1> HIDE DEF i, p0, p1, c, l0, l1, m0, m1
  <1>8. i + p1 + l1 <= i + p0 + l0
    BY <1>1, <1>2, <1>7
  <1>9. Taken' <= Taken
    BY <1>1, <1>2, <1>3, <1>4, <1>7
  <1>10. RecordsTaken' <= RecordsTaken
    BY <1>1, <1>2, <1>3, <1>4, <1>6, <1>7
  <1>11. Taken \in Nat /\ Taken' \in Nat
    BY <1>1, <1>2, <1>3, <1>4
  <1>12. Load' <= Load
    <2>1. Receipts' <= Receipts
      OBVIOUS
    <2>2. 2 * (Taken' + c) + Receipts' <= 2 * (Taken + c) + Receipts
      BY <1>1, <1>2, <1>9, <1>11, <2>1, LoadShrinks, Zenon
    <2> QED BY <1>3, <1>5, <2>2
  <1> QED BY <1>9, <1>10, <1>12

\* A snapshot the loop waited for is over: what it brings takes the place of what it
\* was promised.
LEMMA PromiseRedeemed ==
    ASSUME IInv, LInv, Counts, Counts', CInv,
           NEW t \in snapshots, Fits(t), snapshots' = snapshots \ {t},
           sending' = sending \ {t.camera}, reserved' = [reserved EXCEPT ![t.camera] = 0],
           NEW q \in Seq(Requests), OfCamera(t.camera, q), Len(q) <= reserved[t.camera],
           incoming' = incoming \o q,
           UNCHANGED <<revision, inflight, toCancel, completed>>,
           Known(results') \subseteq Known(results), Present(mem') \subseteq Present(mem)
    PROVE  CInv'
  <1> DEFINE cam == t.camera
             s == reserved[cam]
             k == Len(q)
  <1>1. /\ cam \in Cameras /\ reserved \in [Cameras -> Nat] /\ incoming \in Seq(Requests)
        /\ s <= MaxInflight
    BY DEF Counts, LInv, RuntimeTypeOK, CInv
  <1>2. k \in Nat /\ Len(incoming') = Len(incoming) + k /\ Len(incoming) \in Nat /\ k <= s /\ s \in Nat
    BY <1>1
  <1>3. Len(incoming') <= Len(incoming) + s
    <2> HIDE DEF k, s
    <2> QED BY <1>2
  <1>4. Cardinality(Promised') + s = Cardinality(Promised)
    <2>1. Promised = Slots(reserved)
      BY DEF Counts
    <2>2. Promised' = Slots(reserved')
      BY DEF Counts
    <2> HIDE DEF cam
    <2>3. reserved' = [reserved EXCEPT ![cam] = 0]
      BY DEF cam
    <2>4. Cardinality(Slots(reserved')) + reserved[cam] = Cardinality(Slots(reserved))
      BY <1>1, <2>3, SlotsFreed
    <2> QED BY <2>1, <2>2, <2>4
  <1>5. Receipts' <= Receipts
    <2>1. /\ Cardinality(Known(results')) <= Cardinality(Known(results))
          /\ Cardinality(Known(results')) \in Nat /\ Cardinality(Known(results)) \in Nat
      BY CountIds, CountLess DEF Known
    <2>2. Cardinality(Verdicted(completed)) \in Nat
      BY CountIds DEF Verdicted
    <2>3. Receipts = Cardinality(Known(results)) + Cardinality(Verdicted(completed))
      BY DEF Receipts, Verdicted
    <2>4. Receipts' = Cardinality(Known(results')) + Cardinality(Verdicted(completed))
      BY DEF Receipts, Verdicted, Known
    <2> QED BY <2>1, <2>2, <2>3, <2>4
  <1>6. \A d \in Cameras : reserved'[d] = IF d = cam THEN 0 ELSE reserved[d]
    BY <1>1
  <1>7. cam = t.camera /\ k = Len(q) /\ s = reserved[cam]
    OBVIOUS
  <1> HIDE DEF cam, s, k
  <1>8. Taken' <= Taken /\ Load' <= Load /\ RecordsTaken' <= RecordsTaken
    BY <1>2, <1>3, <1>4, <1>5, Redeemed
  <1>9. ASSUME NEW d \in Cameras
        PROVE  OwnTaken(d)' + reserved'[d] <= OwnTaken(d) + reserved[d]
               /\ reserved'[d] <= reserved[d]
    <2> DEFINE f == Cardinality(inflight \cap IdsOf(d))
               o0 == Cardinality(OwnIncoming(d))
               o1 == Cardinality(OwnIncoming(d)')
    <2>1. f \in Nat /\ o0 \in Nat /\ reserved[d] \in Nat /\ OwnTaken(d) = f + o0
      BY DEF Counts, OwnTaken
    <2>2. o1 \in Nat
      BY DEF Counts
    <2>3. OwnTaken(d)' = f + o1
      BY DEF OwnTaken
    <2>4. OwnIncoming(d)' = Places(incoming \o q, d) /\ OwnIncoming(d) = Places(incoming, d)
      BY DEF OwnIncoming
    <2>5. OfCamera(cam, q)
      BY <1>7
    <2>6. /\ Cardinality(Places(incoming \o q, d)) <= Cardinality(Places(incoming, d)) + Len(q)
          /\ d # cam => Places(incoming \o q, d) = Places(incoming, d)
      BY <1>1, <2>5, OwnIncomingGrows
    <2>7. o1 <= o0 + k /\ (d # cam => o1 = o0)
      BY <1>7, <2>4, <2>6
    <2> HIDE DEF f, o0, o1
    <2>8. CASE d = cam
      <3>1. reserved'[d] = 0 /\ reserved[d] = s
        BY <1>6, <1>7, <2>8
      <3> QED BY <1>2, <2>1, <2>2, <2>3, <2>7, <3>1
    <2>9. CASE d # cam
      <3>1. reserved'[d] = reserved[d] /\ o1 = o0
        BY <1>6, <2>7, <2>9
      <3> QED BY <2>1, <2>3, <3>1
    <2> QED BY <2>8, <2>9
  <1>10. ASSUME NEW u \in snapshots' PROVE WithinPromise(u)'
    <2>1. (Fits(u)' <=> Fits(u)) /\ u \in snapshots /\ (Fits(u) => u.camera # cam)
      BY <1>7, TaskTaken
    <2>2. WithinPromise(u) /\ u.camera \in Cameras
      BY <2>1 DEF CInv, Counts
    <2> QED BY <1>6, <2>1, <2>2 DEF WithinPromise
  <1> QED BY <1>8, <1>9, <1>10, CapacityKept

LEMMA CollectSnapshotWithin ==
    ASSUME Roomy, IInv, LInv, Counts, Counts', CInv, up' \in BOOLEAN,
           NEW t \in snapshots, CollectSnapshot(t)
    PROVE  CInv'
  <1> USE DEF passVars, commandVars
  <1>1. t \in Snapshot /\ t.camera \in Cameras /\ incoming \in Seq(Requests) /\ SnapshotSound(t)
    BY DEF LInv, RuntimeTypeOK, Snapshot
  <1>2. CASE UNCHANGED <<vars, passVars, sending, reserved, commandVars>> /\ snapshots' = snapshots \ {t}
    <2>1. \A u \in snapshots' : WithinPromise(u)'
      BY <1>2, PromisesStay
    <2> QED BY <1>2, <2>1, CapacityFrame DEF vars
  <1>3. CASE /\ revision[t.camera] = t.revision
             /\ snapshots' = snapshots \ {t}
             /\ sending' = sending \ {t.camera}
             /\ reserved' = [reserved EXCEPT ![t.camera] = 0]
             /\ UNCHANGED <<vars, passVars, commandVars>>
    <2> DEFINE none == << >>
    <2>1. none \in Seq(Requests) /\ incoming' = incoming \o none /\ Len(none) = 0
      BY <1>1, <1>3
    <2>2. OfCamera(t.camera, none)
      BY DEF OfCamera
    <2>3. 0 <= reserved[t.camera]
      <3>1. reserved[t.camera] \in Nat
        BY <1>1 DEF Counts
      <3> QED BY <3>1
    <2> HIDE DEF none
    <2>4. Fits(t) /\ UNCHANGED <<revision, inflight, toCancel, completed, results, mem>>
      BY <1>3 DEF Fits, vars
    <2>5. Known(results') \subseteq Known(results) /\ Present(mem') \subseteq Present(mem)
      BY <2>4
    <2>6. Len(none) <= reserved[t.camera]
      BY <2>1, <2>3
    <2> QED BY <1>3, <2>1, <2>2, <2>4, <2>5, <2>6, PromiseRedeemed
  <1>4. CASE revision[t.camera] = t.revision /\ t.outcome = "ok"
    <2> DEFINE ids == {p[1] : p \in t.sent}
    <2>1. /\ Acknowledge(ids)
          /\ IF up'
             THEN /\ results' = [id \in Ids |-> IF id \in ids THEN NoVerdict ELSE results[id]]
                  /\ incoming' = incoming \o t.commands
                  /\ snapshots' = snapshots \ {t}
                  /\ sending' = sending \ {t.camera}
                  /\ reserved' = [reserved EXCEPT ![t.camera] = 0]
                  /\ UNCHANGED <<phase, ticked, loaded, revision, toCancel,
                                 inflight, pending, handles, workerRevision, completed>>
             ELSE LoopEnds
      BY <1>4 DEF CollectSnapshot
    <2> HIDE DEF ids
    <2>2. CASE ~up'
      <3>1. Halted /\ LoopEnds
        BY <2>1, <2>2 DEF Acknowledge, SaveByLoop, Saved, SaveFails
      <3> QED BY <3>1, EndsWithin
    <2>3. CASE up'
      <3>1. mem' = mem \/ mem' = Acknowledged(mem, ids, now)
        BY <2>1, <2>3 DEF Acknowledge, SaveByLoop, Saved, SaveFails, Halted
      <3>2. Present(Acknowledged(mem, ids, now)) \subseteq Present(mem)
        <4> SUFFICES ASSUME NEW id \in Ids, Acknowledged(mem, ids, now)[id].state # "absent"
                     PROVE  mem[id].state # "absent"
          BY DEF Present
        <4> DEFINE marked(i) == IF i \in ids \cap Present(mem)
                                THEN [mem[i] EXCEPT !.acked = TRUE] ELSE mem[i]
        <4>1. Acknowledged(mem, ids, now)[id] \in {NoRecord, marked(id)}
          BY DEF Acknowledged, Prune
        <4>2. NoRecord.state = "absent"
          BY DEF NoRecord
        <4>3. marked(id).state = "absent" \/ mem[id].state # "absent"
          BY DEF Present
        <4> HIDE DEF marked
        <4> QED BY <4>1, <4>2, <4>3
      <3>3. Present(mem') \subseteq Present(mem)
        BY <3>1, <3>2
      <3>4. Known(results') \subseteq Known(results)
        BY <2>1, <2>3 DEF Known
      <3>5. Fits(t) /\ OfCamera(t.camera, t.commands)
        BY <1>1, <1>4 DEF Fits, SnapshotSound
      <3>6. t.commands \in Seq(Requests) /\ Len(t.commands) <= reserved[t.camera]
        <4>1. Len(t.commands) <= t.capacity /\ t.capacity <= reserved[t.camera]
          BY <3>5 DEF CInv, WithinPromise
        <4>2. /\ Len(t.commands) \in Nat /\ t.capacity \in Nat /\ reserved[t.camera] \in Nat
              /\ t.commands \in Seq(Requests)
          BY DEF Counts
        <4> QED BY <4>1, <4>2
      <3> QED BY <2>1, <2>3, <3>3, <3>4, <3>5, <3>6, PromiseRedeemed
    <2> QED BY <2>2, <2>3
  <1> QED BY <1>2, <1>3, <1>4 DEF CollectSnapshot

-----------------------------------------------------------------------------
(***************************************************************************)
(* A snapshot is sent.                                                     *)
(***************************************************************************)
LEMMA Promising ==
    ASSUME NEW max \in Nat, NEW taken \in Nat, taken <= max,
           NEW n \in Nat, n <= Monus(max, taken)
    PROVE  taken + n <= max /\ n <= max
  BY DEF Monus

LEMMA PromisedSum ==
    ASSUME NEW i \in Nat, NEW l \in Nat, NEW p \in Nat, NEW q \in Nat, NEW n \in Nat, q <= p + n
    PROVE  /\ i + q + l <= (i + p + l) + n
           /\ \A r \in Nat : (i + p + l) + n <= r => q + l <= r
  OBVIOUS

LEMMA PromisingReceipts ==
    ASSUME NEW max \in Nat, NEW taken \in Nat, NEW receipts \in Nat, 2 * taken + receipts <= max,
           NEW n \in Nat, n <= Monus(max, 2 * taken + receipts) \div 2
    PROVE  2 * (taken + n) + receipts <= max
  <1> DEFINE load == 2 * taken + receipts
             left == Monus(max, load)
  <1>1. load \in Nat /\ load <= max
    OBVIOUS
  <1> HIDE DEF load
  <1>2. left \in Nat /\ load + left <= max
    BY <1>1 DEF Monus
  <1>3. n <= left \div 2
    BY DEF load
  <1> HIDE DEF left
  <1>4. 2 * n <= left
    BY <1>2, <1>3
  <1>5. load + 2 * n <= max
    BY <1>1, <1>2, <1>4
  <1> QED BY <1>5 DEF load

LEMMA SendSnapshotWithin ==
    ASSUME IInv, LInv, Counts, Counts', CInv, NEW cam \in Cameras, SendSnapshot(cam)
    PROVE  CInv'
  <1> DEFINE n == Capacity(cam)
             new == [camera |-> cam, revision |-> revision[cam],
                     sent |-> {<<id, results[id]>> : id \in Known(results) \cap IdsOf(cam)},
                     capacity |-> Capacity(cam), outcome |-> "waiting", commands |-> << >>]
  <1>1. /\ reserved' = [reserved EXCEPT ![cam] = n]
        /\ snapshots' = snapshots \cup {new}
        /\ UNCHANGED <<mem, inflight, incoming, toCancel, results, completed, revision>>
        /\ toCancel = {} /\ cam \notin sending
    BY DEF SendSnapshot, vars, commandVars, LInv, CancelReady, Due
  <1>2. new.camera = cam /\ new.capacity = n /\ new.commands = << >>
    OBVIOUS
  <1>3. /\ n \in Nat
        /\ n <= Monus(MaxInflight, Taken)
        /\ n <= Monus(MaxInflightPerCamera, OwnTaken(cam))
        /\ n <= Monus(MaxCommandRecords, 2 * Taken + Receipts) \div 2
        /\ n <= Monus(Remaining(mem), Taken)
    BY CapacityBounds DEF LInv, OwnTaken, OwnIncoming, Places
  <1> HIDE DEF n, new
  <1>4. /\ MaxInflight \in Nat /\ MaxInflightPerCamera \in Nat /\ MaxCommandRecords \in Nat
        /\ MaxRecords \in Nat
        /\ Taken \in Nat /\ Receipts \in Nat /\ Load \in Nat
        /\ reserved \in [Cameras -> Nat]
        /\ Cardinality(Present(mem)) \in Nat /\ Cardinality(inflight) \in Nat
        /\ Cardinality(Promised) \in Nat /\ Len(incoming) \in Nat
    BY DEF Counts
  <1>5. \A c \in Cameras : OwnTaken(c)' = OwnTaken(c) /\ OwnTaken(c) \in Nat
    BY <1>1 DEF OwnTaken, OwnIncoming, Counts
  <1>6. Receipts' = Receipts
    BY <1>1 DEF Receipts, Known
  <1>7. Cardinality(Promised') <= Cardinality(Promised) + n
    <2>1. Promised = Slots(reserved)
      BY DEF Counts
    <2>2. Promised' = Slots(reserved')
      BY DEF Counts
    <2> QED BY <1>1, <1>3, <1>4, <2>1, <2>2, SlotsPromised
  <1>8. Cardinality(Promised') \in Nat /\ Taken' \in Nat
    BY DEF Counts
  <1>9. Taken' <= Taken + n
    <2>1. Taken = Cardinality(inflight) + Cardinality(Promised) + Len(incoming)
      BY DEF Taken
    <2>2. Taken' = Cardinality(inflight) + Cardinality(Promised') + Len(incoming)
      BY <1>1 DEF Taken
    <2>3. Cardinality(inflight) + Cardinality(Promised') + Len(incoming)
            <= (Cardinality(inflight) + Cardinality(Promised) + Len(incoming)) + n
      BY <1>3, <1>4, <1>7, <1>8, PromisedSum, Zenon
    <2> QED BY <2>1, <2>2, <2>3
  <1>10. Taken' <= MaxInflight
    <2>1. Taken + n <= MaxInflight
      BY <1>3, <1>4, Promising DEF CInv
    <2> QED BY <1>3, <1>4, <1>8, <1>9, <2>1
  <1>11. Load' <= MaxCommandRecords
    <2>1. Cardinality(toCancel) = 0
      BY <1>1, FS_EmptySet
    <2>2. Load = 2 * Taken + Receipts
      BY <1>4, <2>1 DEF Load
    <2>3. 2 * Taken + Receipts <= MaxCommandRecords
      BY <2>2 DEF CInv
    <2>4. 2 * (Taken + n) + Receipts <= MaxCommandRecords
      BY <1>3, <1>4, <2>3, PromisingReceipts
    <2>5. Load' = 2 * (Taken' + Cardinality(toCancel)) + Receipts
      BY <1>1, <1>6 DEF Load
    <2>6. 2 * (Taken' + 0) + Receipts <= 2 * ((Taken + n) + 0) + Receipts
      <3>1. Taken + n \in Nat /\ Receipts <= Receipts /\ 0 \in Nat
        BY <1>3, <1>4
      <3> QED BY <1>4, <1>8, <1>9, <3>1, LoadShrinks, Zenon
    <2>7. Load' <= 2 * (Taken + n) + Receipts
      BY <1>3, <1>4, <2>1, <2>5, <2>6
    <2>8. Load' \in Nat
      BY DEF Counts
    <2> QED BY <1>3, <1>4, <2>4, <2>7, <2>8
  <1>12. RecordsTaken' <= MaxRecords
    <2>1. RecordsTaken = Cardinality(Present(mem)) + Cardinality(Promised) + Len(incoming)
      BY DEF RecordsTaken
    <2>2. RecordsTaken' = Cardinality(Present(mem)) + Cardinality(Promised') + Len(incoming)
      BY <1>1 DEF RecordsTaken
    <2>3. RecordsTaken <= MaxRecords /\ RecordsTaken \in Nat
      BY DEF CInv, Counts
    <2>4. Taken = Cardinality(inflight) + Cardinality(Promised) + Len(incoming)
      BY DEF Taken
    <2>5. Cardinality(Present(mem)) <= MaxRecords
      BY <1>4, <2>1, <2>3
    <2>6. Remaining(mem) + Cardinality(Present(mem)) = MaxRecords /\ Remaining(mem) \in Nat
      BY <1>4, <2>5 DEF Remaining
    <2>7. n = 0 \/ Taken + n <= Remaining(mem)
      BY <1>3, <1>4, <2>6 DEF Monus
    <2>8. CASE n = 0
      BY <1>4, <1>7, <1>8, <2>1, <2>2, <2>3, <2>8
    <2>9. CASE Taken + n <= Remaining(mem)
      <3>1. Cardinality(Promised') + Len(incoming) <= Remaining(mem)
        <4>1. (Cardinality(inflight) + Cardinality(Promised) + Len(incoming)) + n <= Remaining(mem)
          BY <2>4, <2>9, Zenon
        <4> QED BY <1>3, <1>4, <1>7, <1>8, <2>6, <4>1, PromisedSum, Zenon
      <3> QED BY <1>4, <1>8, <2>2, <2>6, <3>1
    <2> QED BY <2>7, <2>8, <2>9
  <1>13. ASSUME NEW c \in Cameras
         PROVE  OwnTaken(c)' + reserved'[c] <= MaxInflightPerCamera /\ reserved'[c] <= MaxInflight
    <2>1. CASE c # cam
      BY <1>1, <1>4, <1>5, <2>1 DEF CInv
    <2>2. CASE c = cam
      <3>1. reserved'[c] = n
        BY <1>1, <1>4, <2>2
      <3>2. OwnTaken(cam) <= MaxInflightPerCamera
        <4>1. OwnTaken(cam) + reserved[cam] <= MaxInflightPerCamera
          BY DEF CInv
        <4> QED BY <1>4, <1>5, <4>1
      <3>3. OwnTaken(cam) + n <= MaxInflightPerCamera
        BY <1>3, <1>4, <1>5, <3>2, Promising
      <3>4. n <= MaxInflight
        BY <1>3, <1>4, Promising DEF CInv
      <3> QED BY <1>5, <2>2, <3>1, <3>3, <3>4
    <2> QED BY <2>1, <2>2
  <1>14. ASSUME NEW u \in snapshots' PROVE WithinPromise(u)'
    <2>1. Fits(u)' <=> Fits(u)
      BY <1>1 DEF Fits
    <2>2. CASE u \in snapshots
      <3>1. WithinPromise(u) /\ (Fits(u) => u.camera \in sending) /\ u.camera \in Cameras
        BY <2>2 DEF CInv, LInv, SnapshotSound, Counts
      <3>2. Fits(u) => reserved'[u.camera] = reserved[u.camera]
        BY <1>1, <1>4, <3>1
      <3> QED BY <2>1, <3>1, <3>2 DEF WithinPromise
    <2>3. CASE u = new
      <3>1. reserved'[cam] = n
        BY <1>1, <1>4
      <3>2. Len(u.commands) = 0
        BY <1>2, <2>3
      <3> QED BY <1>2, <1>3, <2>3, <3>1, <3>2 DEF WithinPromise
    <2> QED BY <1>1, <2>2, <2>3
  <1> QED BY <1>10, <1>11, <1>12, <1>13, <1>14 DEF CInv

-----------------------------------------------------------------------------
(***************************************************************************)
(* Admission.                                                              *)
(***************************************************************************)
FreshIds == {IdOf[r] : r \in Fresh}
ResentIds == {IdOf[r] : r \in Resent}
BatchIds == {IdOf[r] : r \in Batch}

LEMMA PartsSum ==
    ASSUME NEW x \in Nat, NEW y \in Nat, NEW a \in Nat, NEW b \in Nat, NEW n \in Nat,
           a <= x, b <= y, x + y <= n
    PROVE  a + b <= n
  OBVIOUS

\* A received command is fresh, or resent, or neither; what it asks for is counted
\* by its place in the sequence.
LEMMA BatchCounted ==
    ASSUME incoming \in Seq(Requests)
    PROVE  /\ IsFiniteSet(FreshIds) /\ IsFiniteSet(ResentIds)
           /\ Cardinality(FreshIds) \in Nat /\ Cardinality(ResentIds) \in Nat
           /\ Cardinality(FreshIds) + Cardinality(ResentIds) <= Len(incoming)
           /\ \A cam \in Cameras :
                /\ Cardinality(FreshIds \cap IdsOf(cam)) \in Nat
                /\ Cardinality(FreshIds \cap IdsOf(cam)) <= Cardinality(OwnIncoming(cam))
           /\ IsFiniteSet(BatchIds) /\ Cardinality(BatchIds) \in Nat
           /\ Cardinality(BatchIds) <= Len(incoming)
  <1> DEFINE F == {i \in DOMAIN incoming : incoming[i] \in Fresh}
             R == {i \in DOMAIN incoming : incoming[i] \in Resent}
             D == DOMAIN incoming
             idsAt(I) == {IdOf[incoming[i]] : i \in I}
  <1>1. F \subseteq D /\ R \subseteq D /\ F \cap R = {}
    BY DEF Fresh, Resent
  <1>2. FreshIds = idsAt(F) /\ ResentIds = idsAt(R) /\ BatchIds = idsAt(D)
    BY DEF FreshIds, ResentIds, BatchIds, Fresh, Resent, Batch
  <1>3. ASSUME NEW I, I \subseteq D
        PROVE  /\ IsFiniteSet(I) /\ Cardinality(I) \in Nat /\ Cardinality(I) <= Len(incoming)
               /\ IsFiniteSet(idsAt(I)) /\ Cardinality(idsAt(I)) \in Nat
               /\ Cardinality(idsAt(I)) <= Cardinality(I)
    BY <1>3, CountPlaces
  <1>4. ASSUME NEW cam \in Cameras
        PROVE  /\ FreshIds \cap IdsOf(cam) = idsAt(F \cap OwnIncoming(cam))
               /\ OwnIncoming(cam) \subseteq D
    <2>1. \A i \in D : incoming[i] \in Requests
      OBVIOUS
    <2>2. \A i \in D : IdOf[incoming[i]] \in IdsOf(cam) <=> CameraOf[incoming[i]] = cam
      BY <2>1, IdsApart
    <2>3. OwnIncoming(cam) = {i \in D : CameraOf[incoming[i]] = cam}
      BY DEF OwnIncoming, Places
    <2> HIDE DEF D
    <2> QED BY <1>1, <1>2, <2>2, <2>3
  <1> HIDE DEF F, R, D, idsAt
  <1>5. Len(incoming) \in Nat
    OBVIOUS
  <1>6. Cardinality(FreshIds) + Cardinality(ResentIds) <= Len(incoming)
    <2>1. /\ IsFiniteSet(F) /\ IsFiniteSet(R) /\ F \cup R \subseteq D
          /\ Cardinality(FreshIds) <= Cardinality(F) /\ Cardinality(ResentIds) <= Cardinality(R)
          /\ Cardinality(FreshIds) \in Nat /\ Cardinality(ResentIds) \in Nat
      BY <1>1, <1>2, <1>3
    <2>2. /\ Cardinality(F \cup R) = Cardinality(F) + Cardinality(R)
          /\ Cardinality(F) \in Nat /\ Cardinality(R) \in Nat
      BY <1>1, <2>1, CountUnion
    <2>3. Cardinality(F \cup R) <= Len(incoming)
      BY <1>3, <2>1
    <2>4. Cardinality(F) + Cardinality(R) <= Len(incoming)
      BY <2>2, <2>3
    <2> QED BY <1>5, <2>1, <2>2, <2>4, PartsSum, Zenon
  <1>7. ASSUME NEW cam \in Cameras
        PROVE  /\ Cardinality(FreshIds \cap IdsOf(cam)) \in Nat
               /\ Cardinality(FreshIds \cap IdsOf(cam)) <= Cardinality(OwnIncoming(cam))
    <2> DEFINE own == F \cap OwnIncoming(cam)
    <2>1. own \subseteq D /\ own \subseteq OwnIncoming(cam) /\ OwnIncoming(cam) \subseteq D
      BY <1>1, <1>4
    <2> HIDE DEF own
    <2>2. Cardinality(idsAt(own)) <= Cardinality(own) /\ Cardinality(idsAt(own)) \in Nat
          /\ IsFiniteSet(OwnIncoming(cam))
      BY <1>3, <2>1
    <2>3. Cardinality(own) <= Cardinality(OwnIncoming(cam))
          /\ Cardinality(own) \in Nat /\ Cardinality(OwnIncoming(cam)) \in Nat
      BY <2>1, <2>2, CountLess
    <2>4. FreshIds \cap IdsOf(cam) = idsAt(own)
      BY <1>4 DEF own
    <2> DEFINE few == FreshIds \cap IdsOf(cam)
    <2>5. Cardinality(few) <= Cardinality(own) /\ Cardinality(few) \in Nat
      BY <2>2, <2>4
    <2> HIDE DEF few
    <2>6. Cardinality(few) <= Cardinality(OwnIncoming(cam))
      BY <2>3, <2>5
    <2> QED BY <2>5, <2>6 DEF few
  <1>8. Cardinality(BatchIds) <= Len(incoming) /\ IsFiniteSet(BatchIds) /\ Cardinality(BatchIds) \in Nat
    <2>1. /\ Cardinality(D) \in Nat /\ Cardinality(D) <= Len(incoming)
          /\ IsFiniteSet(BatchIds) /\ Cardinality(BatchIds) \in Nat
          /\ Cardinality(BatchIds) <= Cardinality(D)
      BY <1>2, <1>3
    <2> QED BY <1>5, <2>1
  <1>9. IsFiniteSet(FreshIds) /\ IsFiniteSet(ResentIds)
        /\ Cardinality(FreshIds) \in Nat /\ Cardinality(ResentIds) \in Nat
    BY <1>1, <1>2, <1>3
  <1> QED BY <1>6, <1>7, <1>8, <1>9

\* The requests of a batch are no more than its places.
LEMMA BatchSize ==
    ASSUME incoming \in Seq(Requests), NEW A, A \subseteq Batch
    PROVE  IsFiniteSet(A) /\ Cardinality(A) \in Nat /\ Cardinality(A) <= Len(incoming)
  <1>1. DOMAIN incoming = 1..Len(incoming) /\ Len(incoming) \in Nat
    OBVIOUS
  <1>2. IsFiniteSet(1..Len(incoming)) /\ Cardinality(1..Len(incoming)) = Len(incoming)
    BY <1>1, CountTo
  <1>3. incoming \in Surjection(1..Len(incoming), Batch)
    <2>1. incoming \in [1..Len(incoming) -> Batch]
      BY <1>1 DEF Batch
    <2>2. \A r \in Batch : \E i \in 1..Len(incoming) : incoming[i] = r
      BY <1>1 DEF Batch
    <2> QED BY <2>1, <2>2 DEF Surjection
  <1>4. IsFiniteSet(Batch) /\ Cardinality(Batch) <= Len(incoming)
    BY <1>2, <1>3, FS_Surjection
  <1>5. Cardinality(A) <= Cardinality(Batch) /\ IsFiniteSet(A)
        /\ Cardinality(A) \in Nat /\ Cardinality(Batch) \in Nat
    BY <1>4, CountLess
  <1> QED BY <1>1, <1>4, <1>5

LEMMA AdmissionSum ==
    ASSUME NEW i \in Nat, NEW p \in Nat, NEW n \in Nat, NEW k \in Nat, NEW v \in Nat,
           NEW f \in Nat, NEW e \in Nat, f + e <= n,
           NEW a \in Nat, a <= i + f, NEW b \in Nat, b <= k + e, NEW l \in Nat, l <= v
    PROVE  /\ a + p <= i + p + n
           /\ a <= i + p + n
           /\ 2 * (a + p) + (b + l) <= 2 * (i + p + n) + (k + v)
           /\ 2 * a + l + b <= 2 * (i + p + n) + (k + v)
  OBVIOUS

\* What is admitted takes the places of the received commands.
LEMMA AdmissionCounted ==
    ASSUME IInv, LInv, Counts, phase = "commands"
    PROVE  LET ids == inflight \cup FreshIds
               receipts == Known(results) \cup ResentIds
           IN  /\ Cardinality(ids) \in Nat /\ Cardinality(receipts) \in Nat /\ Cardinality(Live) \in Nat
               /\ Cardinality(ids) + Cardinality(Promised) <= Taken
               /\ Cardinality(ids) <= Taken
               /\ \A cam \in Cameras : /\ Cardinality(ids \cap IdsOf(cam)) \in Nat
                                       /\ Cardinality(ids \cap IdsOf(cam)) <= OwnTaken(cam)
               /\ 2 * (Cardinality(ids) + Cardinality(Promised))
                    + (Cardinality(receipts) + Cardinality(Live)) <= Load
               /\ 2 * Cardinality(ids) + Cardinality(Live) + Cardinality(receipts) <= Load
  <1> DEFINE ids == inflight \cup FreshIds
             receipts == Known(results) \cup ResentIds
             concluded == Verdicted(completed)
  <1>1. incoming \in Seq(Requests) /\ toCancel = {}
    BY DEF LInv, RuntimeTypeOK, CancelReady
  <1>2. /\ IsFiniteSet(FreshIds) /\ IsFiniteSet(ResentIds)
        /\ Cardinality(FreshIds) \in Nat /\ Cardinality(ResentIds) \in Nat
        /\ Cardinality(FreshIds) + Cardinality(ResentIds) <= Len(incoming)
        /\ \A cam \in Cameras :
             /\ Cardinality(FreshIds \cap IdsOf(cam)) \in Nat
             /\ Cardinality(FreshIds \cap IdsOf(cam)) <= Cardinality(OwnIncoming(cam))
    BY <1>1, BatchCounted
  <1>3. /\ Cardinality(inflight) \in Nat /\ IsFiniteSet(inflight)
        /\ Cardinality(Promised) \in Nat /\ Len(incoming) \in Nat
        /\ \A cam \in Cameras : /\ Cardinality(inflight \cap IdsOf(cam)) \in Nat
                                /\ Cardinality(OwnIncoming(cam)) \in Nat
    BY DEF Counts
  <1>4. Cardinality(ids) <= Cardinality(inflight) + Cardinality(FreshIds) /\ Cardinality(ids) \in Nat
    BY <1>2, <1>3, CountUnion
  <1>5. /\ Cardinality(receipts) <= Cardinality(Known(results)) + Cardinality(ResentIds)
        /\ Cardinality(receipts) \in Nat /\ Cardinality(Known(results)) \in Nat
    <2>1. IsFiniteSet(Known(results)) /\ Cardinality(Known(results)) \in Nat
      BY CountIds DEF Known
    <2> QED BY <1>2, <2>1, CountUnion
  <1>6. Cardinality(Live) <= Cardinality(concluded)
        /\ Cardinality(Live) \in Nat /\ Cardinality(concluded) \in Nat
    <2>1. Live \subseteq concluded /\ IsFiniteSet(concluded)
      BY CountIds DEF Live, Verdicted
    <2> QED BY <2>1, CountLess
  <1>7. Taken = Cardinality(inflight) + Cardinality(Promised) + Len(incoming) /\ Taken \in Nat
    BY DEF Counts
  <1>8. Load = 2 * (Cardinality(inflight) + Cardinality(Promised) + Len(incoming))
                  + (Cardinality(Known(results)) + Cardinality(concluded))
    <2>1. Cardinality(toCancel) = 0
      BY <1>1, FS_EmptySet
    <2>2. Receipts = Cardinality(Known(results)) + Cardinality(concluded)
      BY DEF Receipts, Verdicted
    <2>3. Load = 2 * (Taken + 0) + Receipts
      BY <2>1 DEF Load
    <2>4. Taken + 0 = Taken
      BY <1>7
    <2> QED BY <1>7, <2>2, <2>3, <2>4, Zenon
  <1>9. ASSUME NEW cam \in Cameras
        PROVE  /\ Cardinality(ids \cap IdsOf(cam)) \in Nat
               /\ Cardinality(ids \cap IdsOf(cam)) <= OwnTaken(cam)
    <2> DEFINE old == inflight \cap IdsOf(cam)
               new == FreshIds \cap IdsOf(cam)
    <2>1. IsFiniteSet(old) /\ IsFiniteSet(new) /\ ids \cap IdsOf(cam) = old \cup new
      BY <1>2, <1>3, FS_Intersection
    <2>2. /\ Cardinality(new) <= Cardinality(OwnIncoming(cam))
          /\ Cardinality(OwnIncoming(cam)) \in Nat
          /\ OwnTaken(cam) = Cardinality(old) + Cardinality(OwnIncoming(cam))
      BY <1>2, <1>3 DEF OwnTaken
    <2> HIDE DEF old, new, ids
    <2>3. /\ Cardinality(old \cup new) <= Cardinality(old) + Cardinality(new)
          /\ Cardinality(old \cup new) \in Nat /\ Cardinality(old) \in Nat /\ Cardinality(new) \in Nat
      BY <2>1, CountUnion
    <2> QED BY <2>1, <2>2, <2>3
  <1> HIDE DEF ids, receipts, concluded
  <1>10. /\ Cardinality(ids) + Cardinality(Promised)
              <= Cardinality(inflight) + Cardinality(Promised) + Len(incoming)
         /\ Cardinality(ids) <= Cardinality(inflight) + Cardinality(Promised) + Len(incoming)
         /\ 2 * (Cardinality(ids) + Cardinality(Promised)) + (Cardinality(receipts) + Cardinality(Live))
              <= 2 * (Cardinality(inflight) + Cardinality(Promised) + Len(incoming))
                  + (Cardinality(Known(results)) + Cardinality(concluded))
         /\ 2 * Cardinality(ids) + Cardinality(Live) + Cardinality(receipts)
              <= 2 * (Cardinality(inflight) + Cardinality(Promised) + Len(incoming))
                  + (Cardinality(Known(results)) + Cardinality(concluded))
    BY <1>2, <1>3, <1>4, <1>5, <1>6, AdmissionSum, Zenon
  <1>11. /\ Cardinality(ids) + Cardinality(Promised) <= Taken
         /\ Cardinality(ids) <= Taken
         /\ 2 * (Cardinality(ids) + Cardinality(Promised))
                    + (Cardinality(receipts) + Cardinality(Live)) <= Load
         /\ 2 * Cardinality(ids) + Cardinality(Live) + Cardinality(receipts) <= Load
    BY <1>7, <1>8, <1>10, Zenon
  <1> QED BY <1>4, <1>5, <1>6, <1>9, <1>11 DEF ids, receipts

LEMMA RecordsSum ==
    ASSUME NEW m \in Nat, NEW p \in Nat, NEW n \in Nat, NEW a \in Nat, NEW k \in Nat, a <= m, k <= n
    PROVE  a + k <= m + p + n /\ (a + k) + p <= m + p + n
  OBVIOUS

\* The limits are not exceeded by what was received.
LEMMA WithinCapacity ==
    ASSUME IInv, LInv, Counts, CInv, phase = "commands"
    PROVE  ~EnqueueOverflows /\ ~Overflows(mem, Batch, now)
  <1> DEFINE ids == inflight \cup FreshIds
             receipts == Known(results) \cup ResentIds
  <1>1. /\ Cardinality(ids) \in Nat /\ Cardinality(receipts) \in Nat /\ Cardinality(Live) \in Nat
        /\ Cardinality(ids) <= Taken
        /\ \A cam \in Cameras : /\ Cardinality(ids \cap IdsOf(cam)) \in Nat
                                /\ Cardinality(ids \cap IdsOf(cam)) <= OwnTaken(cam)
        /\ 2 * Cardinality(ids) + Cardinality(Live) + Cardinality(receipts) <= Load
    BY AdmissionCounted
  <1>2. /\ MaxInflight \in Nat /\ MaxInflightPerCamera \in Nat /\ MaxCommandRecords \in Nat
        /\ MaxRecords \in Nat
        /\ Taken \in Nat /\ Load \in Nat
        /\ \A cam \in Cameras : OwnTaken(cam) \in Nat /\ reserved[cam] \in Nat
        /\ Cardinality(Present(mem)) \in Nat /\ IsFiniteSet(Present(mem))
        /\ Cardinality(Promised) \in Nat /\ Len(incoming) \in Nat
    BY DEF Counts
  <1>3. /\ Taken <= MaxInflight /\ Load <= MaxCommandRecords /\ RecordsTaken <= MaxRecords
        /\ \A cam \in Cameras : OwnTaken(cam) + reserved[cam] <= MaxInflightPerCamera
    BY DEF CInv
  <1> HIDE DEF ids, receipts
  <1>4. ~(Cardinality(ids) > MaxInflight)
    BY <1>1, <1>2, <1>3
  <1>5. ASSUME NEW cam \in Cameras
        PROVE  ~(Cardinality(ids \cap IdsOf(cam)) > MaxInflightPerCamera)
    <2> DEFINE own == Cardinality(ids \cap IdsOf(cam))
    <2>1. own \in Nat /\ own <= OwnTaken(cam) /\ OwnTaken(cam) \in Nat /\ reserved[cam] \in Nat
          /\ OwnTaken(cam) + reserved[cam] <= MaxInflightPerCamera
      BY <1>1, <1>2, <1>3
    <2> HIDE DEF own
    <2>2. ~(own > MaxInflightPerCamera)
      BY <1>2, <2>1
    <2> QED BY <2>2 DEF own
  <1>6. ~(2 * Cardinality(ids) + Cardinality(Live) + Cardinality(receipts) > MaxCommandRecords)
    <2> DEFINE sum == 2 * Cardinality(ids) + Cardinality(Live) + Cardinality(receipts)
    <2>1. sum \in Nat /\ sum <= Load
      BY <1>1
    <2> HIDE DEF sum
    <2>2. ~(sum > MaxCommandRecords)
      BY <1>2, <1>3, <2>1
    <2> QED BY <2>2 DEF sum
  <1>7. ~EnqueueOverflows
    BY <1>4, <1>5, <1>6 DEF EnqueueOverflows, ids, receipts, FreshIds, ResentIds
  <1>8. ~Overflows(mem, Batch, now)
    <2> DEFINE a == Cardinality(Present(Prune(mem, now)))
               k == Cardinality(Additions(mem, Batch, now))
    <2>1. Present(Prune(mem, now)) \subseteq Present(mem)
      BY DEF Present, Prune, NoRecord
    <2>2. a <= Cardinality(Present(mem)) /\ a \in Nat
      BY <1>2, <2>1, CountLess
    <2>3. k <= Len(incoming) /\ k \in Nat
      <3>1. Additions(mem, Batch, now) \subseteq Batch /\ incoming \in Seq(Requests)
        BY DEF Additions, LInv, RuntimeTypeOK
      <3> QED BY <3>1, BatchSize
    <2> HIDE DEF a, k
    <2>4. a + k <= Cardinality(Present(mem)) + Cardinality(Promised) + Len(incoming)
      BY <1>2, <2>2, <2>3, RecordsSum, Zenon
    <2>5. a + k <= RecordsTaken /\ RecordsTaken \in Nat
      BY <2>4 DEF RecordsTaken, Counts
    <2>6. ~(a + k > MaxRecords)
      BY <1>2, <1>3, <2>2, <2>3, <2>5
    <2> QED BY <2>6 DEF Overflows, a, k
  <1> QED BY <1>7, <1>8

LEMMA Doubled == \A n \in Nat : 2 * n \in Nat
  OBVIOUS

LEMMA EnqueueWithin ==
    ASSUME Roomy, IInv, LInv, Counts, Counts', CInv, up' \in BOOLEAN, EnqueueAndAdmit
    PROVE  CInv'
  <1>1. phase = "commands" /\ toCancel = {} /\ RuntimeTypeOK /\ incoming \in Seq(Requests)
    BY DEF EnqueueAndAdmit, LInv, CancelReady, RuntimeTypeOK
  <1>2. CASE Halt /\ LoopEnds
    BY <1>2, EndsWithin DEF Halt
  <1>3. CASE ~EnqueueOverflows /\ Admit(Batch) /\ ~up'
    <2>1. Halted
      BY <1>3 DEF Admit, SaveByLoop, Saved, SaveFails
    <2>2. LoopEnds
      BY <1>3 DEF EnqueueAndAdmit, LoopEnds, Halt, Halted
    <2> QED BY <2>1, <2>2, EndsWithin
  <1>4. CASE ~EnqueueOverflows /\ Admit(Batch) /\ up'
    <2>1. /\ incoming' = << >>
          /\ completed' = [id \in Ids |-> IF id \in Live THEN completed[id] ELSE NotCompleted]
          /\ results' = [id \in Ids |-> IF \E r \in Resent : IdOf[r] = id
                                        THEN completed[id].verdict ELSE results[id]]
          /\ inflight' = inflight \cup FreshIds
          /\ UNCHANGED <<revision, toCancel, snapshotVars>>
      BY <1>4 DEF EnqueueAndAdmit, Halt, Halted, FreshIds
    <2>2. UNCHANGED <<reserved, snapshots, Promised>> /\ toCancel' = {}
      BY <1>1, <2>1 DEF snapshotVars, Promised
    <2>3. LET ids == inflight \cup FreshIds
              receipts == Known(results) \cup ResentIds
          IN  /\ Cardinality(ids) \in Nat /\ Cardinality(receipts) \in Nat /\ Cardinality(Live) \in Nat
              /\ Cardinality(ids) + Cardinality(Promised) <= Taken
              /\ \A cam \in Cameras : /\ Cardinality(ids \cap IdsOf(cam)) \in Nat
                                      /\ Cardinality(ids \cap IdsOf(cam)) <= OwnTaken(cam)
              /\ 2 * (Cardinality(ids) + Cardinality(Promised))
                   + (Cardinality(receipts) + Cardinality(Live)) <= Load
      BY <1>1, AdmissionCounted
    <2>4. Len(<< >>) = 0 /\ Cardinality({}) = 0
      BY FS_EmptySet
    <2>5. /\ Cardinality(inflight') \in Nat /\ Cardinality(Promised) \in Nat
          /\ Cardinality(inflight') + Cardinality(Promised) <= Taken
      BY <2>1, <2>3 DEF Counts
    <2>6. Taken' = Cardinality(inflight') + Cardinality(Promised)
      <3>1. Taken' = Cardinality(inflight') + Cardinality(Promised) + 0
        BY <2>1, <2>2, <2>4 DEF Taken
      <3> QED BY <2>5, <3>1
    <2>7. Taken' <= Taken
      BY <2>5, <2>6
    <2>8. Load' <= Load
      <3> DEFINE k == Cardinality(Known(results'))
                 v == Cardinality(Verdicted(completed'))
                 receipts == Cardinality(Known(results) \cup ResentIds)
                 live == Cardinality(Live)
      <3>1. Known(results') \subseteq Known(results) \cup ResentIds
        BY <2>1 DEF Known, ResentIds
      <3>2. Verdicted(completed') \subseteq Live
        BY <2>1 DEF Verdicted, NotCompleted
      <3>3. IsFiniteSet(Live) /\ IsFiniteSet(Known(results) \cup ResentIds)
        <4>1. IsFiniteSet(Live) /\ IsFiniteSet(Known(results))
          BY CountIds DEF Live, Known
        <4>2. IsFiniteSet(ResentIds)
          BY <1>1, BatchCounted
        <4> QED BY <4>1, <4>2, CountUnion
      <3>4. /\ k <= receipts /\ v <= live
            /\ k \in Nat /\ v \in Nat /\ receipts \in Nat /\ live \in Nat
        BY <3>1, <3>2, <3>3, CountLess
      <3>5. Receipts' = k + v
        BY DEF Receipts, Verdicted, Known
      <3>6. Load' = 2 * (Taken' + 0) + (k + v)
        BY <2>2, <2>4, <3>5 DEF Load
      <3>7. 2 * (Taken' + 0) = 2 * Taken' /\ Taken' \in Nat
        BY <2>5, <2>6
      <3>8. 2 * Taken' + (receipts + live) <= Load
        BY <2>1, <2>3, <2>6
      <3>9. Load \in Nat
        BY DEF Counts
      <3> HIDE DEF k, v, receipts, live
      <3> DEFINE twice == 2 * Taken'
      <3>10. twice \in Nat /\ Load' = twice + (k + v) /\ twice + (receipts + live) <= Load
        <4>1. twice \in Nat
          BY <3>7, Doubled, Zenon
        <4> QED BY <3>6, <3>7, <3>8, <4>1, Zenon
      <3> HIDE DEF twice
      <3> QED BY <3>4, <3>9, <3>10
    <2>9. RecordsTaken' <= RecordsTaken
      <3> DEFINE a == Cardinality(Present(mem))
                 b == Cardinality(Present(mem'))
                 p == Cardinality(Promised)
      <3>1. Present(mem') \subseteq Present(mem) \cup BatchIds
        <4>1. mem' \in {Admitted(mem, Batch, now), Prune(mem, now)}
          BY <1>4 DEF Admit, SaveByLoop, Saved, SaveFails, Halted
        <4>2. Present(Prune(mem, now)) \subseteq Present(mem)
          BY DEF Present, Prune, NoRecord
        <4>3. \A id \in Present(Admitted(mem, Batch, now)) :
                id \in Present(Prune(mem, now)) \cup BatchIds
          BY DEF Present, Admitted, Additions, BatchIds
        <4> QED BY <4>1, <4>2, <4>3
      <3>2. IsFiniteSet(BatchIds) /\ Cardinality(BatchIds) \in Nat
            /\ Cardinality(BatchIds) <= Len(incoming)
        BY <1>1, BatchCounted
      <3>3. IsFiniteSet(Present(mem)) /\ a \in Nat /\ p \in Nat /\ Len(incoming) \in Nat
        BY DEF Counts
      <3>4. /\ IsFiniteSet(Present(mem) \cup BatchIds)
            /\ Cardinality(Present(mem) \cup BatchIds) \in Nat
            /\ Cardinality(Present(mem) \cup BatchIds) <= a + Cardinality(BatchIds)
        BY <3>2, <3>3, CountUnion
      <3>5. b <= Cardinality(Present(mem) \cup BatchIds) /\ b \in Nat
        BY <3>1, <3>4, CountLess
      <3>6. RecordsTaken = a + p + Len(incoming)
        BY DEF RecordsTaken
      <3>7. RecordsTaken' = b + p + 0
        BY <2>1, <2>2, <2>4 DEF RecordsTaken
      <3> HIDE DEF a, b, p
      <3>8. b <= a + Len(incoming)
        BY <3>2, <3>3, <3>4, <3>5
      <3>9. b + p + 0 <= a + p + Len(incoming)
        BY <3>3, <3>5, <3>8
      <3> QED BY <3>6, <3>7, <3>9
    <2>10. ASSUME NEW cam \in Cameras
           PROVE  OwnTaken(cam)' + reserved'[cam] <= OwnTaken(cam) + reserved[cam]
                  /\ reserved'[cam] <= reserved[cam]
      <3> DEFINE own == Cardinality((inflight \cup FreshIds) \cap IdsOf(cam))
      <3>1. own \in Nat /\ own <= OwnTaken(cam)
        BY <2>3
      <3>2. OwnIncoming(cam)' = {}
        BY <2>1 DEF OwnIncoming, Places
      <3>3. OwnTaken(cam)' = own + 0
        BY <2>1, <2>4, <3>2 DEF OwnTaken
      <3>4. OwnTaken(cam) \in Nat /\ reserved[cam] \in Nat
        BY DEF Counts
      <3> HIDE DEF own
      <3>5. own + 0 + reserved[cam] <= OwnTaken(cam) + reserved[cam] /\ reserved[cam] <= reserved[cam]
        BY <3>1, <3>4
      <3> QED BY <2>2, <3>3, <3>5
    <2>11. \A t \in snapshots' : WithinPromise(t)'
      BY <2>1, <2>2, PromisesStay
    <2> QED BY <2>7, <2>8, <2>9, <2>10, <2>11, CapacityKept
  <1> QED BY <1>2, <1>3, <1>4 DEF EnqueueAndAdmit

-----------------------------------------------------------------------------
(***************************************************************************)
(* Every step of the program.                                              *)
(***************************************************************************)
\* Steps after which the loop holds what it held.
LEMMA QuietWithin ==
    ASSUME Counts, Counts', CInv,
           UNCHANGED <<mem, inflight, incoming, reserved, toCancel, results, completed,
                       revision, snapshots>>
    PROVE  CInv'
  <1>1. \A t \in snapshots' : WithinPromise(t)'
    BY PromisesStay
  <1> QED BY <1>1, CapacityFrame

LEMMA PassWithin ==
    ASSUME Roomy, IInv, LInv, Counts, Counts', CInv, up' \in BOOLEAN, Pass
    PROVE  CInv'
  <1>1. CASE Reload
    BY <1>1, ReloadWithin
  <1>2. CASE ReloadFails
    BY <1>2, EndsWithin DEF ReloadFails, Halt
  <1>3. CASE \E r \in Requests : CancelOne(r)
    BY <1>3, CancelOneWithin
  <1>4. CASE \E t \in snapshots : CollectSnapshot(t) \/ CollectPanic(t)
    BY <1>4, CollectSnapshotWithin, CollectPanicWithin
  <1>5. CASE SnapshotsCollected
    BY <1>5, QuietWithin DEF SnapshotsCollected, vars, snapshotVars, commandVars
  <1>6. CASE \E cam \in Cameras : SendSnapshot(cam)
    BY <1>6, SendSnapshotWithin
  <1>7. CASE \E cam \in Cameras : CollectWorker(cam)
    BY <1>7, CollectWorkerWithin
  <1>8. CASE EnqueueAndAdmit
    BY <1>8, EnqueueWithin
  <1>9. CASE \E cam \in Cameras : LaunchOne(cam)
    BY <1>9, QuietWithin DEF LaunchOne, Launch, snapshotVars
  <1> QED BY <1>1, <1>2, <1>3, <1>4, <1>5, <1>6, <1>7, <1>8, <1>9 DEF Pass

LEMMA StepWithin ==
    ASSUME Roomy, IInv, LInv, (IInv /\ LInv)', DInv', CInv, [RuntimeNext]_runtimeVars
    PROVE  CInv'
  <1> USE DEF vars, loopVars, passVars, snapshotVars, commandVars, environmentVars
  <1>1. Counts /\ Counts'
    BY CountsHold, CountsHoldNext
  <1>2. up' \in BOOLEAN
    BY DEF IInv, TypeOK
  <1>3. CASE Boot
    BY <1>1, <1>3, BootWithin
  <1>4. CASE AwaitConfig \/ UNCHANGED runtimeVars
    BY <1>1, <1>4, QuietWithin DEF AwaitConfig, runtimeVars
  <1>5. CASE Kill
    BY <1>1, <1>5, EndsWithin DEF Kill, Halt
  <1>6. CASE Time
    BY <1>1, <1>6, QuietWithin DEF Time, Tick
  <1>7. CASE \E cam \in Cameras : \E version \in Versions \cup {Unpaired} : EditConfig(cam, version)
    BY <1>1, <1>7, QuietWithin DEF EditConfig
  <1>8. CASE \E cam \in Cameras : Work(cam)
    BY <1>1, <1>8, WorkWithin
  <1>9. CASE Network
    BY <1>1, <1>9, NetworkWithin
  <1>10. CASE Pass
    BY <1>1, <1>2, <1>10, PassWithin
  <1> QED BY <1>3, <1>4, <1>5, <1>6, <1>7, <1>8, <1>9, <1>10 DEF RuntimeNext

LEMMA InitWithin ==
    ASSUME RuntimeInit, IInv, LInv
    PROVE  CInv
  <1>1. Counts
    BY CountsHold
  <1>2. /\ inflight = {} /\ toCancel = {} /\ incoming = << >> /\ snapshots = {}
        /\ \A cam \in Cameras : reserved[cam] = 0
        /\ mem = EmptyLedger
    BY DEF RuntimeInit, Init
  <1>3. Known(results) = {} /\ Verdicted(completed) = {}
    BY DEF RuntimeInit, Known, Verdicted, NotCompleted
  <1>4. Promised = {}
    <2>1. \A slot \in Cameras \X (1..MaxInflight) : ~(slot[2] <= 0)
      BY RuntimeAssumption
    <2>2. \A slot \in Cameras \X (1..MaxInflight) : reserved[slot[1]] = 0
      BY <1>2
    <2> QED BY <2>1, <2>2 DEF Promised
  <1>5. Cardinality({}) = 0
    BY FS_EmptySet
  <1>6. Taken = 0
    BY <1>2, <1>4, <1>5 DEF Taken
  <1>7. Receipts = 0
    <2>1. Cardinality(Verdicted(completed)) = 0 /\ Cardinality(Known(results)) = 0
      BY <1>3, <1>5
    <2>2. Receipts = Cardinality(Known(results)) + Cardinality(Verdicted(completed))
      BY Zenon DEF Receipts, Verdicted
    <2> QED BY <2>1, <2>2
  <1>8. Load = 0
    <2>1. Cardinality(toCancel) = 0
      BY <1>2, <1>5
    <2> QED BY <1>6, <1>7, <2>1 DEF Load
  <1>9. RecordsTaken <= MaxRecords
    <2>1. Cardinality(Present(mem)) <= MaxRecords
      BY <1>2, EmptyLoadable DEF Loadable
    <2>2. Cardinality(Present(mem)) \in Nat
      BY <1>1 DEF Counts
    <2> QED BY <1>2, <1>4, <1>5, <2>1, <2>2 DEF RecordsTaken
  <1>10. \A cam \in Cameras : OwnTaken(cam) = 0
    <2>1. \A cam \in Cameras : OwnIncoming(cam) = {} /\ inflight \cap IdsOf(cam) = {}
      BY <1>2 DEF OwnIncoming, Places
    <2> QED BY <1>5, <2>1 DEF OwnTaken
  <1> QED BY <1>2, <1>6, <1>8, <1>9, <1>10, RuntimeAssumption DEF CInv

-----------------------------------------------------------------------------
(***************************************************************************)
(* The theorem.                                                            *)
(***************************************************************************)
\* A response within the capacity that was promised for it is never refused, neither
\* by enqueue_device_commands nor by the ledger: whatever snapshots are under way at
\* once, whatever workers finish meanwhile and however late the answers come, if the
\* limit on the loop's records leaves room for two receipts of each record of the
\* ledger (4096 and 2048 in the code).
THEOREM CapacityHolds == ASSUME Roomy PROVE RuntimeSpec => []CapacityHonoured
  <1>1. RuntimeInit /\ IInv /\ LInv => CInv
    BY InitWithin
  <1>2. IInv /\ LInv /\ (IInv /\ LInv)' /\ DInv' /\ CInv /\ [RuntimeNext]_runtimeVars => CInv'
    BY StepWithin
  <1>3. IInv /\ LInv /\ CInv => CapacityHonoured
    <2> SUFFICES ASSUME IInv, LInv, CInv, phase = "commands"
                 PROVE  ~EnqueueOverflows /\ ~Overflows(mem, Batch, now)
      BY DEF CapacityHonoured
    <2> QED BY CountsHold, WithinCapacity
  <1>4. RuntimeSpec => [](IInv /\ LInv)
    BY LoopInvariant
  <1>5. RuntimeSpec => []DInv
    BY LoopImplementsExecution, DecisionsHold, PTL
  <1> QED BY <1>1, <1>2, <1>3, <1>4, <1>5, PTL DEF RuntimeSpec
-----------------------------------------------------------------------------
(***************************************************************************)
(* What ends a run.  Until an edit no worker meets a record it cannot go   *)
(* on with, unless the record is gone: dropped once its window has closed. *)
(* What waits for a worker, or is in its queue, is on record until then.   *)
(***************************************************************************)
Recorded(r) == Holds(mem, r) \/ Lapsed(r)

WorkRecorded ==
    \A cam \in Cameras :
        /\ \A i \in DOMAIN pending[cam] : Recorded(pending[cam][i])
        /\ pc[cam] # "idle" => \A i \in DOMAIN queue[cam] : Recorded(queue[cam][i])

\* What OutlivedRecord says of a worker.
Outlived(cam) == Lapsed(Current(cam)) /\ ~Holds(mem, Current(cam))

FailuresOutlived == \A cam \in Cameras : pc[cam] = "failed" => queue[cam] # << >> /\ Outlived(cam)

WInv == up => WorkRecorded /\ FailuresOutlived

\* How a record may end, and how it may begin.
LEMMA PrunedHolds ==
    ASSUME NEW ledger \in Ledgers, NEW t, NEW r \in Requests
    PROVE  /\ Holds(ledger, r) => Holds(Prune(ledger, t), r) \/ DedupUntil(r) <= t
           /\ Holds(Prune(ledger, t), r) => Holds(ledger, r)
  <1>1. IdOf[r] \in Ids
    BY LedgerAssumption
  <1> QED BY <1>1 DEF Prune, Prunable, Holds, NoRecord

LEMMA AcknowledgedHolds ==
    ASSUME NEW ledger \in Ledgers, NEW ids, NEW t, NEW r \in Requests
    PROVE  /\ Holds(ledger, r) => Holds(Acknowledged(ledger, ids, t), r) \/ DedupUntil(r) <= t
           /\ Holds(Acknowledged(ledger, ids, t), r) => Holds(ledger, r)
  <1> DEFINE marked == [i \in Ids |-> IF i \in ids \cap Present(ledger)
                                      THEN [ledger[i] EXCEPT !.acked = TRUE]
                                      ELSE ledger[i]]
  <1>1. IdOf[r] \in Ids /\ ledger[IdOf[r]] \in Record
    BY LedgerAssumption, LedgerRecords
  <1>2. marked[IdOf[r]].state = ledger[IdOf[r]].state /\ marked[IdOf[r]].request = ledger[IdOf[r]].request
    BY <1>1 DEF Record
  <1>3. Acknowledged(ledger, ids, t) = Prune(marked, t)
    BY DEF Acknowledged
  <1> HIDE DEF marked
  <1>4. \/ Prune(marked, t)[IdOf[r]] = marked[IdOf[r]]
        \/ Prune(marked, t)[IdOf[r]] = NoRecord /\ DedupUntil(marked[IdOf[r]].request) <= t
    BY <1>1 DEF Prune, Prunable
  <1> QED BY <1>2, <1>3, <1>4 DEF Holds, NoRecord

LEMMA AdmittedHolds ==
    ASSUME NEW ledger \in Ledgers, NEW batch \in SUBSET Requests, NEW t, NEW r \in Requests,
           ~Reused(ledger, batch, t)
    PROVE  /\ Holds(ledger, r) => Holds(Admitted(ledger, batch, t), r) \/ DedupUntil(r) <= t
           /\ r \in batch => Holds(Admitted(ledger, batch, t), r)
  <1> DEFINE added == Additions(ledger, batch, t)
             pruned == Prune(ledger, t)
  <1>1. IdOf[r] \in Ids
    BY LedgerAssumption
  <1>2. CASE \E s \in added : IdOf[s] = IdOf[r]
    <2> DEFINE s == CHOOSE s \in added : IdOf[s] = IdOf[r]
    <2>1. s \in added /\ IdOf[s] = IdOf[r]
      BY <1>2
    <2>2. s \in batch /\ pruned[IdOf[r]].state = "absent"
      BY <2>1 DEF Additions
    <2>3. Admitted(ledger, batch, t)[IdOf[r]] = [request |-> s, state |-> "queued", acked |-> FALSE]
      BY <1>1, <1>2 DEF Admitted
    <2>4. r \in batch => r = s
      BY <2>1, <2>2 DEF Reused
    <2>5. ~Holds(pruned, r)
      BY <2>2 DEF Holds
    <2> HIDE DEF s, pruned, added
    <2> QED BY <2>3, <2>4, <2>5, PrunedHolds DEF Holds, pruned
  <1>3. CASE ~\E s \in added : IdOf[s] = IdOf[r]
    <2>1. Admitted(ledger, batch, t)[IdOf[r]] = pruned[IdOf[r]]
      BY <1>1, <1>3 DEF Admitted
    <2>2. r \in batch => Holds(pruned, r)
      BY <1>3 DEF Additions, Reused, Holds
    <2> HIDE DEF pruned, added
    <2> QED BY <2>1, <2>2, PrunedHolds DEF Holds, pruned
  <1> QED BY <1>2, <1>3

\* What a step of a running process does to records.
LEMMA RecordsRemain ==
    ASSUME IInv, LInv, Undisturbed, Remains, NEW r \in Requests
    PROVE  /\ Holds(mem, r) => Holds(mem', r) \/ Lapsed(r)
           /\ Holds(mem', r) => Holds(mem, r) \/ EnqueueAndAdmit
  <1>1. mem \in Ledgers
    BY LedgersReady
  <1>2. CASE mem' = mem
    BY <1>2
  <1>3. CASE \E t \in snapshots : CollectSnapshot(t)
    <2>1. mem' = mem \/ \E ids : mem' = Acknowledged(mem, ids, now)
      BY <1>3 DEF CollectSnapshot, Acknowledge, SaveByLoop, Saved, SaveFails, Halted, Remains, vars
    <2> QED BY <1>1, <2>1, AcknowledgedHolds DEF Lapsed
  <1>4. CASE EnqueueAndAdmit
    <2>1. \/ ~Reused(mem, Batch, now) /\ mem' = Admitted(mem, Batch, now)
          \/ mem' = Prune(mem, now)
      BY <1>4 DEF EnqueueAndAdmit, Halt, Admit, SaveByLoop, Saved, SaveFails, Halted, Remains
    <2>2. Batch \in SUBSET Requests
      BY DEF Batch, LInv, RuntimeTypeOK
    <2> QED BY <1>1, <1>4, <2>1, <2>2, AdmittedHolds, PrunedHolds DEF Lapsed
  <1>5. CASE \E cam \in Cameras : Work(cam)
    <2>1. PICK cam \in Cameras : Work(cam)
      BY <1>5
    <2>2. CASE Begin(cam) \/ Complete(cam)
      <3> DEFINE c == IdOf[Current(cam)]
      <3>1. pc[cam] \in Engaged
        BY <2>2 DEF Begin, Complete, Engaged, Running
      <3>2. c \in Ids /\ mem[c].state \in {"queued", "pending"}
        BY <3>1, CurrentCommand DEF Undisturbed, Unsettled
      <3>3. mem[c] \in Record /\ IdOf[r] \in Ids
        BY <1>1, <3>2, LedgerRecords, LedgerAssumption
      <3>4. PICK v \in Verdicts \cup {"pending"} : mem' = mem \/ mem' = [mem EXCEPT ![c].state = v]
        <4>1. verdict[cam] \in Verdicts
          BY DEF IInv, TypeOK
        <4> QED BY <2>2, <4>1 DEF Begin, Complete, Begun, Completed
      <3>5. v # "absent"
        BY DEF Verdicts, Failed
      <3> HIDE DEF c
      <3>6. mem'[IdOf[r]].request = mem[IdOf[r]].request
        BY <1>1, <3>2, <3>3, <3>4 DEF Ledgers, Record
      <3>7. mem'[IdOf[r]].state = "absent" <=> mem[IdOf[r]].state = "absent"
        BY <1>1, <3>2, <3>3, <3>4, <3>5 DEF Ledgers, Record
      <3> QED BY <3>6, <3>7 DEF Holds
    <2>3. CASE Finish(cam) \/ Replay(cam) \/ CheckDeadline(cam) \/ Transmit(cam) \/ Answer(cam) \/ DropAborted(cam)
      BY <1>2, <2>3 DEF Finish, Replay, CheckDeadline, Transmit, Answer, DropAborted
    <2> QED BY <2>1, <2>2, <2>3 DEF Work, WorkerStep
  <1> QED BY <1>2, <1>3, <1>4, <1>5, RemainingSteps
          DEF runtimeVars, Time, Tick, Network, SnapshotServed, SnapshotLost, SnapshotPanics, Reload,
              AbortWorkers, SnapshotsCollected, SendSnapshot, CollectWorker, Collect, Halted, Remains,
              LaunchOne, Launch, CollectPanic, vars

LEMMA ClockRemains ==
    ASSUME IInv, LInv, Undisturbed, Remains
    PROVE  now \in Nat /\ now' \in Nat /\ now <= now'
  <1>1. now \in Nat
    BY LedgersReady
  <1>2. now' \in {now, now + 1}
    BY RemainingSteps DEF runtimeVars, Time, Tick, Network, SnapshotServed, SnapshotLost, SnapshotPanics, Reload,
              AbortWorkers, SnapshotsCollected, SendSnapshot, CollectWorker, Collect, LaunchOne, Launch,
              CollectPanic, CollectSnapshot, Acknowledge, EnqueueAndAdmit, Halt, Admit, Work, WorkerStep,
              Finish, Replay, CheckDeadline, Begin, Transmit, Answer, Complete, DropAborted, vars
  <1> QED BY <1>1, <1>2

LEMMA RecordedRemains ==
    ASSUME IInv, LInv, Undisturbed, Remains, NEW r \in Requests, Recorded(r)
    PROVE  Recorded(r)'
  <1>1. Lapsed(r) => Lapsed(r)'
    BY ClockRemains, LapsedStays
  <1>2. Holds(mem, r) => Holds(mem', r) \/ Lapsed(r)
    BY RecordsRemain
  <1>3. Holds(mem, r)' <=> Holds(mem', r)
    BY DEF Holds
  <1> QED BY <1>1, <1>2, <1>3 DEF Recorded

\* What waits in a worker's queue was waiting before.
LEMMA QueueRemains ==
    ASSUME IInv, LInv, Undisturbed, Remains, NEW cam \in Cameras, pc'[cam] # "idle",
           NEW i \in DOMAIN queue'[cam]
    PROVE  \/ pc[cam] # "idle" /\ \E j \in DOMAIN queue[cam] : queue'[cam][i] = queue[cam][j]
           \/ \E j \in DOMAIN pending[cam] : queue'[cam][i] = pending[cam][j]
  <1>1. pc \in [Cameras -> Running \cup Ended \cup {"idle"}] /\ queue \in [Cameras -> Seq(Requests)]
    BY DEF IInv, TypeOK
  <1>2. CASE pc[cam] # "idle" /\ queue'[cam] = queue[cam]
    BY <1>2
  <1>3. CASE pc[cam] # "idle" /\ queue[cam] # << >> /\ queue'[cam] = Tail(queue[cam])
    <2>1. i + 1 \in DOMAIN queue[cam] /\ queue'[cam][i] = queue[cam][i + 1]
      BY <1>1, <1>3
    <2> QED BY <1>3, <2>1
  <1>4. CASE UNCHANGED <<pc, queue>>
    BY <1>2, <1>4
  <1>5. CASE \E other \in Cameras : Work(other)
    <2>1. PICK other \in Cameras : Work(other)
      BY <1>5
    <2>2. CASE other # cam
      <3>1. pc'[cam] = pc[cam] /\ queue'[cam] = queue[cam]
        BY <1>1, <2>1, <2>2 DEF Work, WorkerStep, Finish, Replay, CheckDeadline, Begin, Transmit, Answer,
                                Complete, DropAborted, Step, Return
      <3> QED BY <1>2, <3>1
    <2>3. CASE other = cam
      <3>1. CASE Finish(cam) \/ CheckDeadline(cam) \/ Begin(cam) \/ Transmit(cam) \/ Answer(cam)
        <4>1. pc[cam] # "idle" /\ queue' = queue
          BY <3>1 DEF Finish, CheckDeadline, Begin, Transmit, Answer, Step
        <4> QED BY <1>2, <4>1
      <3>2. CASE Replay(cam)
        <4>1. pc[cam] # "idle" /\ queue[cam] # << >> /\ queue'[cam] \in {queue[cam], Tail(queue[cam])}
          BY <1>1, <3>2 DEF Replay, Return
        <4> QED BY <1>2, <1>3, <4>1
      <3>3. CASE Complete(cam)
        <4>1. pc[cam] \in Engaged
          BY <3>3 DEF Complete, Engaged, Running
        <4>2. pc[cam] # "idle" /\ queue[cam] # << >>
          BY <3>3, <4>1, CurrentCommand DEF Complete
        <4>3. queue'[cam] \in {queue[cam], Tail(queue[cam])}
          BY <1>1, <3>3 DEF Complete, Return
        <4> QED BY <1>2, <1>3, <4>2, <4>3
      <3>4. CASE DropAborted(cam)
        BY <3>4 DEF DropAborted, Zombie, Undisturbed
      <3> QED BY <2>1, <2>3, <3>1, <3>2, <3>3, <3>4 DEF Work, WorkerStep
    <2> QED BY <2>2, <2>3
  <1>6. CASE \E other \in Cameras : LaunchOne(other)
    <2>1. PICK other \in Cameras : LaunchOne(other)
      BY <1>6
    <2>2. /\ queue' = [queue EXCEPT ![other] = pending[other]]
          /\ pc' = [pc EXCEPT ![other] = "replay"]
      BY <2>1 DEF LaunchOne, Launch
    <2> QED BY <1>1, <1>2, <2>2
  <1>7. CASE \E other \in Cameras : CollectWorker(other)
    <2>1. PICK other \in Cameras : CollectWorker(other)
      BY <1>7
    <2>2. pc' = [pc EXCEPT ![other] = "idle"] /\ queue' = [queue EXCEPT ![other] = << >>]
      BY <2>1 DEF CollectWorker, Collect, Halted, Remains
    <2> QED BY <1>1, <1>2, <2>2
  <1>8. CASE EnqueueAndAdmit \/ \E t \in snapshots : CollectSnapshot(t)
    BY <1>4, <1>8 DEF EnqueueAndAdmit, Halt, Admit, CollectSnapshot, Acknowledge, SaveByLoop, Saved,
                 SaveFails, Halted, Remains, workerVars, vars
  <1> QED BY <1>4, <1>5, <1>6, <1>7, <1>8, RemainingSteps
          DEF runtimeVars, Time, Tick, Network, SnapshotServed, SnapshotLost, SnapshotPanics, Reload,
              AbortWorkers, SnapshotsCollected, SendSnapshot, CollectPanic, vars, workerVars

\* What is put into a queue has been admitted.
LEMMA PendingRemains ==
    ASSUME IInv, LInv, Undisturbed, Remains, NEW cam \in Cameras, NEW i \in DOMAIN pending'[cam]
    PROVE  \/ \E j \in DOMAIN pending[cam] : pending'[cam][i] = pending[cam][j]
           \/ Holds(mem', pending'[cam][i])
  <1>1. pending \in [Cameras -> Seq(Requests)] /\ incoming \in Seq(Requests)
    BY DEF LInv, RuntimeTypeOK
  <1>2. CASE pending'[cam] \in {pending[cam], << >>}
    BY <1>2
  <1>3. CASE EnqueueAndAdmit
    <2> DEFINE chosen == Selected(incoming, {r \in Fresh : CameraOf[r] = cam})
    <2>1. pending'[cam] = pending[cam] \o chosen
      BY <1>3 DEF EnqueueAndAdmit, Halt, Halted, Remains
    <2>2. /\ chosen \in Seq(Requests)
          /\ \A r \in Requests : (\E j \in DOMAIN chosen : chosen[j] = r) => r \in Fresh
      <3>1. ASSUME NEW S
            PROVE  /\ Selected(incoming, S) \in Seq(Requests)
                   /\ \A r \in Requests :
                        (\E j \in DOMAIN Selected(incoming, S) : Selected(incoming, S)[j] = r) => r \in S
        BY <1>1, SelectedElements
      <3> QED BY <3>1
    <2>3. \A r \in Fresh : Holds(mem', r)
      <3>1. Admit(Batch)
        BY <1>3 DEF EnqueueAndAdmit, Halt, Halted, Remains
      <3>2. /\ ~Reused(mem, Batch, now)
            /\ \/ mem' = Admitted(mem, Batch, now)
               \/ Additions(mem, Batch, now) = {} /\ mem' = Prune(mem, now)
        BY <3>1 DEF Admit, SaveByLoop, Saved, SaveFails, Halted, Remains
      <3>3. Fresh \subseteq Batch /\ Batch \in SUBSET Requests
        BY <1>1 DEF Fresh, Batch
      <3>4. ASSUME NEW r \in Fresh, Additions(mem, Batch, now) = {} PROVE Holds(Prune(mem, now), r)
        BY <3>2, <3>3, <3>4 DEF Additions, Reused, Holds
      <3> QED BY <3>2, <3>3, <3>4, AdmittedHolds, LedgersReady
    <2> HIDE DEF chosen
    <2>4. CASE i \in DOMAIN pending[cam]
      <3>1. pending'[cam][i] = pending[cam][i]
        BY <1>1, <2>1, <2>2, <2>4
      <3> QED BY <2>4, <3>1
    <2>5. CASE i \notin DOMAIN pending[cam]
      <3>1. /\ i - Len(pending[cam]) \in DOMAIN chosen
            /\ pending'[cam][i] = chosen[i - Len(pending[cam])]
        BY <1>1, <2>1, <2>2, <2>5
      <3>2. pending'[cam][i] \in Fresh
        BY <2>2, <3>1
      <3> QED BY <2>3, <3>2
    <2> QED BY <2>4, <2>5
  <1>4. CASE ~EnqueueAndAdmit
    <2>1. pending'[cam] \in {pending[cam], << >>}
      BY <1>1, <1>4, RemainingSteps
         DEF runtimeVars, Time, Network, SnapshotServed, SnapshotLost, SnapshotPanics, Reload, Work,
             SnapshotsCollected, SendSnapshot, CollectWorker, Collect, Halted, Remains, LaunchOne,
             CollectPanic, CollectSnapshot, commandVars, loopVars
    <2> QED BY <1>2, <2>1
  <1> QED BY <1>3, <1>4
\* A worker that was not aborted fails only at a record that is gone.
LEMMA FailuresRemain ==
    ASSUME ~StorageFaults, IInv, LInv, Settled, WorkRecorded, FailuresOutlived, Remains
    PROVE  FailuresOutlived'
  <1> SUFFICES ASSUME NEW cam \in Cameras, pc'[cam] = "failed"
               PROVE  queue'[cam] # << >> /\ Outlived(cam)'
    BY DEF FailuresOutlived
  <1>1. Undisturbed /\ pc \in [Cameras -> Running \cup Ended \cup {"idle"}] /\ queue \in [Cameras -> Seq(Requests)]
    BY DEF Settled, IInv, TypeOK
  <1>2. CASE pc[cam] = "failed" /\ queue'[cam] = queue[cam] /\ ~EnqueueAndAdmit
    <2>1. queue[cam] # << >> /\ Lapsed(Current(cam)) /\ ~Holds(mem, Current(cam))
      BY <1>2 DEF FailuresOutlived, Outlived
    <2>2. PICK r \in Requests : r = Current(cam)
      BY <1>1, <2>1 DEF Current
    <2>3. Current(cam)' = r
      BY <1>2, <2>2 DEF Current
    <2>4. Lapsed(r)'
      BY <1>1, <2>1, <2>2, ClockRemains, LapsedStays
    <2>5. ~Holds(mem', r)
      BY <1>1, <1>2, <2>1, <2>2, RecordsRemain
    <2> QED BY <1>2, <2>1, <2>3, <2>4, <2>5 DEF Outlived, Lapsed, Holds
  <1>3. CASE EnqueueAndAdmit
    <2>1. pc[cam] # "failed"
      BY <1>3 DEF EnqueueAndAdmit, EndedWorkers, Ended
    <2>2. pc' = pc
      BY <1>3 DEF EnqueueAndAdmit, Halt, Admit, SaveByLoop, Saved, SaveFails, Halted, Remains, workerVars
    <2> QED BY <2>1, <2>2
  <1>4. CASE \E other \in Cameras : Work(other)
    <2>1. PICK other \in Cameras : Work(other)
      BY <1>4
    <2>2. ~EnqueueAndAdmit
      BY <2>1 DEF EnqueueAndAdmit, Work, Halt, Halted, Remains, loopVars, passVars, AfterLaunch
    <2>3. CASE other # cam
      <3>1. pc'[cam] = pc[cam] /\ queue'[cam] = queue[cam]
        BY <1>1, <2>1, <2>3 DEF Work, WorkerStep, Finish, Replay, CheckDeadline, Begin, Transmit, Answer,
                                Complete, DropAborted, Step, Return
      <3> QED BY <1>2, <2>2, <3>1
    <2>4. CASE other = cam
      <3>1. CASE Replay(cam)
        <4>1. /\ pc[cam] = "replay" /\ queue[cam] # << >> /\ queue' = queue
              /\ UNCHANGED <<now, mem>> /\ Replayed(mem, Current(cam)) = "error"
          BY <1>1, <3>1 DEF Replay
        <4>2. queue[cam][1] = Current(cam) /\ 1 \in DOMAIN queue[cam] /\ Current(cam) \in Requests
          BY <1>1, <4>1 DEF Current
        <4>3. mem[IdOf[Current(cam)]] \in Record
          BY <4>2, LedgersReady, LedgerRecords, LedgerAssumption
        <4>4. ~Holds(mem, Current(cam))
          BY <4>1, <4>3 DEF Replayed, Record, States, Verdicts, Failed
        <4>5. Recorded(Current(cam))
          BY <4>1, <4>2 DEF WorkRecorded
        <4> QED BY <4>1, <4>4, <4>5 DEF Recorded, Outlived, Current, Lapsed, Holds
      <3>2. CASE Begin(cam) \/ Complete(cam)
        <4> DEFINE c == IdOf[Current(cam)]
        <4>1. pc[cam] \in {"begin", "complete"} /\ pc[cam] \in Engaged
          BY <3>2 DEF Begin, Complete, Engaged, Running
        <4>2. c \in Ids /\ c \in IdsOf(cam) /\ mem[c].state \in {"queued", "pending"}
          BY <1>1, <4>1, CurrentCommand DEF Undisturbed, Unsettled, IdsOf
        <4>3. CASE Complete(cam)
          BY <1>1, <4>2, <4>3 DEF Complete
        <4>4. CASE Begin(cam)
          <5>1. pc[cam] = "begin" /\ mem[c].state # "queued"
            BY <1>1, <4>4 DEF Begin
          <5>2. UnderWay(c)
            BY <4>2, <5>1 DEF Settled, PendingUnderWay
          <5> HIDE DEF c
          <5>3. pc[cam] \in {"failed", "send", "reply", "complete"}
            BY <4>2, <5>2, IdsApart DEF UnderWay
          <5> QED BY <5>1, <5>3
        <4> QED BY <3>2, <4>3, <4>4
      <3>3. CASE Finish(cam) \/ CheckDeadline(cam) \/ Transmit(cam) \/ Answer(cam) \/ DropAborted(cam)
        BY <1>1, <3>3 DEF Finish, CheckDeadline, Transmit, Answer, DropAborted, Step
      <3> QED BY <2>1, <2>4, <3>1, <3>2, <3>3 DEF Work, WorkerStep
    <2> QED BY <2>3, <2>4
  <1>5. CASE \E other \in Cameras : LaunchOne(other) \/ CollectWorker(other)
    <2>1. PICK other \in Cameras : LaunchOne(other) \/ CollectWorker(other)
      BY <1>5
    <2>2. ~EnqueueAndAdmit
      BY <2>1 DEF EnqueueAndAdmit, LaunchOne, CollectWorker, Collect, EndedWorkers, Halted, Halt, Remains, Ended
    <2>3. /\ pc' \in {[pc EXCEPT ![other] = "replay"], [pc EXCEPT ![other] = "idle"]}
          /\ \E q : queue' = [queue EXCEPT ![other] = q]
      BY <2>1 DEF LaunchOne, Launch, CollectWorker, Collect, Halted, Remains
    <2>4. other # cam /\ pc[cam] = "failed" /\ queue'[cam] = queue[cam]
      BY <1>1, <2>3
    <2> QED BY <1>2, <2>2, <2>4
  <1>6. CASE UNCHANGED <<pc, queue>> /\ ~EnqueueAndAdmit
    BY <1>2, <1>6
  <1>7. CASE \E t \in snapshots : CollectSnapshot(t)
    <2>1. ~EnqueueAndAdmit
      BY <1>7 DEF EnqueueAndAdmit, CollectSnapshot, Halt, Halted, Remains
    <2>2. UNCHANGED <<pc, queue>>
      BY <1>7 DEF CollectSnapshot, Acknowledge, SaveByLoop, Saved, SaveFails, Halted, Remains, workerVars, vars
    <2> QED BY <1>6, <2>1, <2>2
  <1> QED BY <1>1, <1>3, <1>4, <1>5, <1>6, <1>7, RemainingSteps
          DEF runtimeVars, Time, Tick, Network, SnapshotServed, SnapshotLost, SnapshotPanics, Reload,
              AbortWorkers, SnapshotsCollected, SendSnapshot, CollectPanic, vars, workerVars

LEMMA WorkRecordedRemains ==
    ASSUME IInv, IInv', LInv, LInv', Undisturbed, WorkRecorded, Remains
    PROVE  WorkRecorded'
  <1>1. /\ pending \in [Cameras -> Seq(Requests)] /\ pending' \in [Cameras -> Seq(Requests)]
        /\ queue \in [Cameras -> Seq(Requests)] /\ queue' \in [Cameras -> Seq(Requests)]
    BY DEF LInv, RuntimeTypeOK, IInv, TypeOK
  <1>2. \A r \in Requests : Recorded(r) => Holds(mem', r) \/ DedupUntil(r) <= now'
    BY RecordedRemains DEF Recorded, Lapsed, Holds
  <1>3. ASSUME NEW cam \in Cameras, NEW i \in DOMAIN pending'[cam]
        PROVE  Holds(mem', pending'[cam][i]) \/ DedupUntil(pending'[cam][i]) <= now'
    <2>1. pending'[cam][i] \in Requests
      BY <1>1, <1>3
    <2>2. CASE \E j \in DOMAIN pending[cam] : pending'[cam][i] = pending[cam][j]
      BY <1>2, <2>1, <2>2 DEF WorkRecorded
    <2> QED BY <1>3, <2>2, PendingRemains
  <1>4. ASSUME NEW cam \in Cameras, pc'[cam] # "idle", NEW i \in DOMAIN queue'[cam]
        PROVE  Holds(mem', queue'[cam][i]) \/ DedupUntil(queue'[cam][i]) <= now'
    <2>1. queue'[cam][i] \in Requests
      BY <1>1, <1>4
    <2>2. Recorded(queue'[cam][i])
      BY <1>4, QueueRemains DEF WorkRecorded
    <2> QED BY <1>2, <2>1, <2>2
  <1> QED BY <1>3, <1>4 DEF WorkRecorded, Recorded, Lapsed, Holds

LEMMA WorkStays ==
    ASSUME ~StorageFaults, IInv, IInv', LInv, LInv', RInv, WInv, edits = 0, edits' = 0,
           [RuntimeNext]_runtimeVars
    PROVE  WInv'
  <1> SUFFICES ASSUME up' PROVE WorkRecorded' /\ FailuresOutlived'
    BY DEF WInv
  <1>1. CASE up
    <2>1. Remains /\ Settled /\ Undisturbed /\ WorkRecorded /\ FailuresOutlived
      BY <1>1 DEF Remains, RInv, Settled, WInv
    <2> QED BY <2>1, FailuresRemain, WorkRecordedRemains
  <1>2. CASE ~up
    <2>1. UNCHANGED workerVars /\ LoopStarts("select", config, mem')
      BY <1>2, StepsDown DEF Boot, Open, SaveFails, Halted
    <2>2. \A cam \in Cameras : pc'[cam] = "idle" /\ pending'[cam] = << >>
      BY <1>2, <2>1 DEF LoopStarts, workerVars, IInv
    <2> QED BY <2>2 DEF WorkRecorded, FailuresOutlived
  <1> QED BY <1>1, <1>2

\* What is admitted fits the ledger's records.
LEMMA BatchAdmissible ==
    ASSUME OnceNamed, IInv, LInv, Loadable(mem)
    PROVE  ~Reused(mem, Batch, now)
  <1>1. Batch \in SUBSET Requests
    BY DEF Batch, LInv, RuntimeTypeOK
  <1>2. \A r, s \in Batch : IdOf[r] = IdOf[s] => r = s
    BY <1>1 DEF OnceNamed
  <1>3. ASSUME NEW r \in Batch, Prune(mem, now)[IdOf[r]].state # "absent"
        PROVE  Prune(mem, now)[IdOf[r]].request = r
    <2>1. IdOf[r] \in Ids /\ mem \in Ledgers /\ mem[IdOf[r]] \in Record
      BY <1>1, LedgerAssumption, LedgersReady, LedgerRecords
    <2>2. Prune(mem, now)[IdOf[r]] = mem[IdOf[r]] /\ mem[IdOf[r]].state # "absent"
      BY <1>3, <2>1, PrunedRecord DEF NoRecord
    <2>3. IdOf[mem[IdOf[r]].request] = IdOf[r]
      BY <2>1, <2>2 DEF Loadable, Present
    <2>4. mem[IdOf[r]].request \in Requests
      BY <2>1, <2>2 DEF Ledgers, Record
    <2> QED BY <1>1, <2>2, <2>3, <2>4 DEF OnceNamed
  <1> QED BY <1>2, <1>3 DEF Reused

LEMMA EndsForCause ==
    ASSUME OnceNamed, ~StorageFaults, IInv, LInv, Loadable(mem), CapacityHonoured, Settled, WInv,
           [RuntimeNext]_runtimeVars, up, ~up'
    PROVE  crashes' > crashes \/ ~Configured \/ rebuilt \/ OutlivedRecord
  <1>1. CASE Kill
    BY <1>1 DEF Kill, LInv, RuntimeTypeOK
  <1>2. CASE ReloadFails
    BY <1>2 DEF ReloadFails
  <1>3. CASE \E r \in Requests : CancelOne(r)
    BY <1>3 DEF CancelOne, Settled, Undisturbed
  <1>4. CASE \E t \in snapshots : CollectSnapshot(t)
    <2>1. PICK t \in snapshots : CollectSnapshot(t)
      BY <1>4
    <2> DEFINE ids == {p[1] : p \in t.sent}
    <2>2. Acknowledge(ids)
      BY <2>1 DEF CollectSnapshot, vars
    <2>3. ~Acknowledgeable(mem, ids)
      BY <2>2 DEF Acknowledge, SaveByLoop, Saved, SaveFails
    <2>4. ConfirmationsMatch
      BY SettledReports
    <2> QED BY <2>3, <2>4 DEF ConfirmationsMatch, Acknowledgeable
  <1>5. CASE \E cam \in Cameras : CollectWorker(cam)
    <2>1. PICK cam \in Cameras : CollectWorker(cam)
      BY <1>5
    <2>2. pc[cam] = "failed"
      BY <2>1 DEF CollectWorker, Collect
    <2> QED BY <2>2 DEF WInv, FailuresOutlived, Outlived, OutlivedRecord
  <1>6. CASE EnqueueAndAdmit
    <2>1. phase = "commands" /\ EndedWorkers = {}
      BY <1>6 DEF EnqueueAndAdmit
    <2>2. ~EnqueueOverflows /\ ~Overflows(mem, Batch, now)
      BY <2>1 DEF CapacityHonoured
    <2>3. Admit(Batch)
      BY <1>6, <2>2 DEF EnqueueAndAdmit
    <2> QED BY <2>2, <2>3, BatchAdmissible DEF Admit, SaveByLoop, Saved, SaveFails
  <1>7. \A cam \in Cameras : ~Work(cam)
    <2> SUFFICES ASSUME NEW cam \in Cameras, Work(cam) PROVE UNCHANGED up
      OBVIOUS
    <2>1. CASE Finish(cam) \/ Replay(cam) \/ CheckDeadline(cam) \/ Begin(cam)
      BY <2>1 DEF Finish, Replay, CheckDeadline, Begin
    <2>2. CASE Transmit(cam) \/ Answer(cam) \/ Complete(cam) \/ DropAborted(cam)
      BY <2>2 DEF Transmit, Answer, Complete, DropAborted
    <2> QED BY <2>1, <2>2 DEF Work, WorkerStep
  <1>8. /\ ~Boot /\ ~AwaitConfig /\ ~Time /\ ~Network /\ ~UNCHANGED runtimeVars
        /\ \A cam \in Cameras : \A version \in Versions \cup {Unpaired} : ~EditConfig(cam, version)
    BY DEF Boot, Open, AwaitConfig, Time, Tick, Network, SnapshotServed, SnapshotLost, SnapshotPanics,
           EditConfig, runtimeVars, vars
  <1>9. /\ ~Reload /\ ~SnapshotsCollected /\ \A t \in snapshots : ~CollectPanic(t)
        /\ \A cam \in Cameras : ~SendSnapshot(cam) /\ ~LaunchOne(cam)
    BY DEF Reload, AbortWorkers, SnapshotsCollected, SendSnapshot, CollectPanic, LaunchOne, Launch, vars
  <1> QED BY <1>1, <1>2, <1>3, <1>4, <1>5, <1>6, <1>7, <1>8, <1>9 DEF RuntimeNext, Pass

\* Until an edit the program ends only when it is killed, when it is left without its
\* configuration, or when a record is gone for whose command a worker waited: no order of
\* answers, finished workers and timers makes a pass fail. Ids name one command each, the
\* Server sends no command again once it has a result for it, the storage does not fail, and
\* the loop's tables have room for two receipts of each record (the errors of
\* enqueue_device_commands, admit, acknowledge, replay, begin and complete in run).
THEOREM RunEndsForCause ==
    ASSUME Roomy, OnceNamed, ~RedeliverAnswered, ~StorageFaults, MaxEdits = 0
    PROVE  RuntimeSpec => RunsUntilStopped
  <1> DEFINE Basis == IInv /\ LInv /\ EInv /\ DInv /\ CapacityHonoured
             Ends == up /\ ~up' => crashes' > crashes \/ ~Configured \/ rebuilt \/ OutlivedRecord
  <1>1. RuntimeSpec => []Basis
    <2>1. IInv /\ LInv /\ EInv /\ [RuntimeNext]_runtimeVars => EInv'
      BY EvidenceStays
    <2> QED BY <2>1, NothingSentYet, LoopInvariant, LoopImplementsExecution, DecisionsHold, CapacityHolds, PTL
            DEF RuntimeSpec
  <1>2. RuntimeInit => SInv /\ RInv /\ WInv
    BY NothingToldYet DEF RuntimeInit, Init, RInv, WInv
  <1>3. Basis => edits = 0
    BY DEF LInv, RuntimeTypeOK
  <1>4. Basis /\ Basis' /\ SInv /\ RInv /\ WInv /\ [RuntimeNext]_runtimeVars => SInv' /\ RInv' /\ WInv'
    <2>1. Basis' => edits' = 0
      BY DEF LInv, RuntimeTypeOK
    <2> QED BY <1>3, <2>1, SuppliesStay, SettledStays, WorkStays
  <1>5. Basis /\ RInv /\ WInv /\ [RuntimeNext]_runtimeVars => [Ends]_runtimeVars
    BY <1>3, EndsForCause DEF RInv, DInv
  <1>6. RuntimeSpec => [](Basis /\ RInv /\ WInv)
    BY <1>1, <1>2, <1>4, PTL DEF RuntimeSpec
  <1> QED BY <1>5, <1>6, PTL DEF RuntimeSpec, RunsUntilStopped
=============================================================================
