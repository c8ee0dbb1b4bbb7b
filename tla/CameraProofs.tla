----------------------------- MODULE CameraProofs -----------------------------
(***************************************************************************)
(* Proofs about what surrounds one camera: the search that finds it         *)
(* (Discovery) and the capture of one that is attached to the computer      *)
(* (LocalCapture).                                                          *)
(***************************************************************************)
EXTENDS LocalCapture, Discovery, DeviceResolution, Functions, FiniteSetTheorems,
        SequenceTheorems, WellFoundedInduction, TLAPS

-----------------------------------------------------------------------------
(***************************************************************************)
(* The search.  While it listens, and when it ends well, what was found is  *)
(* what was heard, without repetition; the limit is met only by a camera    *)
(* that is not yet among the MaxResults that were found.                    *)
(***************************************************************************)
Outcomes == {"listening", "ok", "limit"}

SearchInv ==
    /\ search \in [heard : SUBSET Endpoints, found : Seq(Endpoints), outcome : Outcomes]
    /\ IsInjective(search.found)
    /\ IsFiniteSet(search.heard)
    /\ search.outcome # "limit" => Range(search.found) = search.heard
    /\ search.outcome = "limit" => Cardinality(search.heard) > MaxResults

\* A list without repetition is as long as the set of what is in it is large.
LEMMA DistinctLength ==
    ASSUME NEW S, NEW list \in Seq(S), IsInjective(list)
    PROVE  IsFiniteSet(Range(list)) /\ Cardinality(Range(list)) = Len(list)
  <1>1. Len(list) \in Nat /\ DOMAIN list = 1 .. Len(list)
    OBVIOUS
  <1>2. IsFiniteSet(1 .. Len(list)) /\ Cardinality(1 .. Len(list)) = Len(list)
    BY <1>1, FS_Interval
  <1> DEFINE f == [i \in 1 .. Len(list) |-> list[i]]
  <1>3. f \in Bijection(1 .. Len(list), Range(list))
    BY <1>1 DEF Range, Bijection, Injection, Surjection, IsInjective
  <1> HIDE DEF f
  <1>4. ExistsBijection(1 .. Len(list), Range(list))
    BY <1>3 DEF ExistsBijection
  <1> QED BY <1>2, <1>4, FS_Bijection

\* What a list holds after another entry.
LEMMA FoundOneMore ==
    ASSUME NEW S, NEW list \in Seq(S), NEW e \in S, IsInjective(list), e \notin Range(list)
    PROVE  /\ Append(list, e) \in Seq(S) /\ IsInjective(Append(list, e))
           /\ Range(Append(list, e)) = Range(list) \cup {e}
  <1> DEFINE n == Append(list, e)
  <1>1. /\ Len(list) \in Nat /\ DOMAIN list = 1 .. Len(list) /\ DOMAIN n = 1 .. Len(list) + 1
        /\ n[Len(list) + 1] = e /\ \A i \in 1 .. Len(list) : n[i] = list[i]
        /\ n \in Seq(S)
    OBVIOUS
  <1> HIDE DEF n
  <1>2. \A i \in DOMAIN n :
          \/ i \in DOMAIN list /\ n[i] = list[i] /\ i # Len(list) + 1
          \/ i = Len(list) + 1 /\ n[i] = e
    BY <1>1
  <1>3. \A i \in DOMAIN list : i \in DOMAIN n /\ n[i] = list[i]
    BY <1>1
  <1>4. IsInjective(n)
    BY <1>2 DEF IsInjective, Range
  <1>5. Len(list) + 1 \in DOMAIN n
    BY <1>1
  <1>6. Range(n) = Range(list) \cup {e}
    BY <1>1, <1>2, <1>3, <1>5 DEF Range
  <1> QED BY <1>1, <1>4, <1>6 DEF n

\* A search begins with nothing.
LEMMA SearchStarts ==
    ASSUME NEW s, s = Listening
    PROVE  /\ s \in [heard : SUBSET Endpoints, found : Seq(Endpoints), outcome : Outcomes]
           /\ IsInjective(s.found) /\ IsFiniteSet(s.heard)
           /\ Range(s.found) = s.heard /\ s.outcome = "listening"
  <1>1. <<>> \in Seq(Endpoints) /\ DOMAIN <<>> = {}
    OBVIOUS
  <1>2. s = [heard |-> {}, found |-> << >>, outcome |-> "listening"]
    BY DEF Listening
  <1>3. IsFiniteSet({})
    BY FS_EmptySet
  <1> QED BY <1>1, <1>2, <1>3 DEF Outcomes, IsInjective, Range

\* An answer that counts: the camera is new or known, and there is room or not.
LEMMA AnswerCounts ==
    ASSUME SearchInv, search.outcome = "listening", NEW e \in Endpoints,
           search' = [Admitted(e) EXCEPT !.heard = @ \cup {e}]
    PROVE  SearchInv'
  <1> DEFINE Kinds == [heard : SUBSET Endpoints, found : Seq(Endpoints), outcome : Outcomes]
  <1>1. /\ search \in Kinds /\ IsInjective(search.found) /\ IsFiniteSet(search.heard)
        /\ Range(search.found) = search.heard /\ Found = Range(search.found)
    BY DEF SearchInv, Found, Range
  <1>2. /\ search.heard \in SUBSET Endpoints /\ search.found \in Seq(Endpoints)
        /\ search.outcome \in Outcomes
    BY <1>1
  <1>3. IsFiniteSet(search.heard \cup {e}) /\ search.heard \cup {e} \in SUBSET Endpoints
    BY <1>1, <1>2, FS_AddElement
  <1>4. CASE e \in Found
    <2>1. search' = [search EXCEPT !.heard = @ \cup {e}] /\ search.heard \cup {e} = search.heard
      BY <1>1, <1>4 DEF Admitted
    <2>2. search' \in Kinds /\ search'.heard = search.heard /\ search'.found = search.found
          /\ search'.outcome = search.outcome
      BY <1>1, <1>2, <2>1
    <2> QED BY <1>1, <2>2 DEF SearchInv
  <1>5. CASE e \notin Found /\ Len(search.found) >= MaxResults
    <2>1. /\ search' \in Kinds /\ search'.heard = search.heard \cup {e}
          /\ search'.found = search.found /\ search'.outcome = "limit"
      <3>1. search' = [[search EXCEPT !.outcome = "limit"] EXCEPT !.heard = @ \cup {e}]
        BY <1>5 DEF Admitted
      <3> QED BY <1>1, <1>2, <1>3, <3>1 DEF Outcomes
    <2>2. Cardinality(search.heard) = Len(search.found)
      BY <1>1, <1>2, DistinctLength
    <2>3. Cardinality(search.heard \cup {e}) = Cardinality(search.heard) + 1
      <3>1. e \notin search.heard
        BY <1>1, <1>5
      <3> QED BY <1>1, <3>1, FS_AddElement
    <2>4. Cardinality(search.heard \cup {e}) > MaxResults
      BY <1>2, <1>5, <2>2, <2>3, DiscoveryAssumption
    <2> QED BY <1>1, <1>3, <2>1, <2>4 DEF SearchInv
  <1>6. CASE e \notin Found /\ ~(Len(search.found) >= MaxResults)
    <2> DEFINE n == Append(search.found, e)
    <2>1. n \in Seq(Endpoints) /\ IsInjective(n) /\ Range(n) = search.heard \cup {e}
      BY <1>1, <1>2, <1>6, FoundOneMore
    <2>2. /\ search' \in Kinds /\ search'.heard = search.heard \cup {e}
          /\ search'.found = n /\ search'.outcome = search.outcome
      <3>1. search' = [[search EXCEPT !.found = n] EXCEPT !.heard = @ \cup {e}]
        BY <1>6 DEF Admitted
      <3> HIDE DEF n
      <3> QED BY <1>1, <1>2, <1>3, <2>1, <3>1
    <2> HIDE DEF n
    <2> QED BY <1>3, <2>1, <2>2 DEF SearchInv
  <1> QED BY <1>4, <1>5, <1>6

\* A search that ends well has found every camera that answered, once, however often
\* and in whatever order they answered; it gives up only if more than MaxResults did
\* (discover, admit_discovered_device).
THEOREM SearchFindsAll == SearchSpec => []SearchComplete
  <1>1. SearchInit => SearchInv
    BY SearchStarts DEF SearchInit, SearchInv
  <1>2. ASSUME SearchInv, [SearchNext]_search
        PROVE  SearchInv'
    <2>1. CASE AnswerHeard
      <3>1. PICK answer \in Answers :
              search' = IF Meaningful(answer)
                        THEN [Admitted(answer.endpoint) EXCEPT !.heard = @ \cup {answer.endpoint}]
                        ELSE search
        BY <2>1 DEF AnswerHeard
      <3>2. answer.endpoint \in Endpoints /\ search.outcome = "listening"
        BY <2>1, <3>1 DEF AnswerHeard, Answers
      <3>3. CASE Meaningful(answer)
        BY <1>2, <3>1, <3>2, <3>3, AnswerCounts
      <3>4. CASE ~Meaningful(answer)
        BY <1>2, <3>1, <3>4 DEF SearchInv
      <3> QED BY <3>3, <3>4
    <2>2. CASE SearchEnds
      BY <1>2, <2>2 DEF SearchEnds, SearchInv, Outcomes
    <2>3. CASE SearchBegins
      BY <2>3, SearchStarts DEF SearchBegins, SearchInv
    <2>4. CASE UNCHANGED search
      BY <1>2, <2>4 DEF SearchInv
    <2> QED BY <1>2, <2>1, <2>2, <2>3, <2>4 DEF SearchNext
  <1>3. SearchInv => SearchComplete
    BY DistinctLength DEF SearchInv, SearchComplete, Found, Range
  <1> QED BY <1>1, <1>2, <1>3, PTL DEF SearchSpec

-----------------------------------------------------------------------------
(***************************************************************************)
(* The capture.  Two tasks of the camera as it is configured now may be     *)
(* under way, one of them aborted for the sake of another camera; each may  *)
(* bring a relay.  What they bring is the relay in use as long as that      *)
(* lives, because only one capture can have the device.                    *)
(***************************************************************************)
Relay == [state : {"unused", "open", "ended"}, grabbed : BOOLEAN, chunks : Nat]
Outcome == [generation : Nat, capture : Captures \cup {None}]
Grabbed(c) == c \in Captures /\ captures[c].grabbed

IsTask(t) ==
    /\ t = [number |-> t.number, generation |-> t.generation, capture |-> t.capture,
            state |-> t.state]
    /\ t.generation \in Nat /\ t.generation <= edits
    /\ t.capture \in Captures \cup {None}
    /\ t.state = "probing" => t.capture # None

CaptureTypes ==
    /\ edits \in Nat /\ generation \in Nat /\ generation <= edits
    /\ held \in Captures \cup {None}
    /\ captures \in [Captures -> Relay]
    /\ \A t \in tasks : IsTask(t)
    /\ results \in Seq(Outcome)
    /\ \A i \in DOMAIN results : results[i].generation <= edits

\* One capture at most has the device, and it is one that runs.
OneGrabs ==
    \A c \in Captures : captures[c].grabbed =>
        captures[c].state = "open" /\ \A d \in Captures : captures[d].grabbed => d = c

\* A relay that was probed has the device until it ends.
TookDevice(c) == c # None => captures[c].grabbed \/ captures[c].state = "ended"
ProbedHave ==
    /\ TookDevice(held)
    /\ \A t \in tasks : t.state = "late" => TookDevice(t.capture)
    /\ \A i \in DOMAIN results : TookDevice(results[i].capture)

\* What is still to come, d, does not take the place of a relay c that has the device.
Yields(c, d) == Grabbed(c) /\ d # None => d = c
Brings(r) == r.generation = generation

OneRelay ==
    /\ \A i \in DOMAIN results : Brings(results[i]) => Yields(held, results[i].capture)
    /\ \A t \in tasks : t.state = "late" /\ Brings(t) => Yields(held, t.capture)
    /\ \A i, j \in DOMAIN results : i < j => Yields(results[i].capture, results[j].capture)
    /\ \A i \in DOMAIN results : \A t \in tasks :
          t.state = "late" => Yields(results[i].capture, t.capture)
    /\ \A t, u \in tasks :
          t.state = "late" /\ u.state = "late" => Yields(t.capture, u.capture)

CaptureInv == CaptureTypes /\ OneGrabs /\ ProbedHave /\ OneRelay

\* Everything the loop may have in its hands, now or later.
Taken(c) ==
    \/ held = c
    \/ \E t \in tasks : t.state = "late" /\ t.capture = c
    \/ \E i \in DOMAIN results : results[i].capture = c

LEMMA ResultsTyped == CaptureInv => \A i \in DOMAIN results : results[i] \in Outcome
  <1> SUFFICES ASSUME results \in Seq(Outcome)
               PROVE  \A i \in DOMAIN results : results[i] \in Outcome
    BY DEF CaptureInv, CaptureTypes
  <1> QED OBVIOUS

LEMMA NoneIsNoCapture == None \notin Captures
  BY DEF None, Captures

\* A relay that is let go, or a capture that gives the device up, disturbs nothing; nor
\* does a capture that takes it and that nobody has probed.
LEMMA RelayStays ==
    ASSUME OneRelay, UNCHANGED <<generation, results>>, held' \in {held, None},
           \A t \in tasks' : t.state = "late" => t \in tasks,
           \A c \in Captures : Taken(c) /\ captures'[c].grabbed => captures[c].grabbed
    PROVE  OneRelay'
  <1>1. ~Grabbed(None)'
    BY NoneIsNoCapture DEF Grabbed
  <1>2. \A c : Taken(c) /\ Grabbed(c)' => Grabbed(c)
    BY DEF Grabbed
  <1>3. ASSUME NEW i \in DOMAIN results, Brings(results[i])
        PROVE  Yields(held, results[i].capture)'
    BY <1>1, <1>2, <1>3 DEF OneRelay, Yields, Taken
  <1>4. ASSUME NEW t \in tasks', t.state = "late", Brings(t)
        PROVE  Yields(held, t.capture)'
    BY <1>1, <1>2, <1>4 DEF OneRelay, Yields, Taken
  <1>5. ASSUME NEW i \in DOMAIN results, NEW j \in DOMAIN results, i < j
        PROVE  Yields(results[i].capture, results[j].capture)'
    BY <1>2, <1>5 DEF OneRelay, Yields, Taken
  <1>6. ASSUME NEW i \in DOMAIN results, NEW t \in tasks', t.state = "late"
        PROVE  Yields(results[i].capture, t.capture)'
    BY <1>2, <1>6 DEF OneRelay, Yields, Taken
  <1>7. ASSUME NEW t \in tasks', NEW u \in tasks', t.state = "late", u.state = "late"
        PROVE  Yields(t.capture, u.capture)'
    BY <1>2, <1>7 DEF OneRelay, Yields, Taken
  <1> QED BY <1>3, <1>4, <1>5, <1>6, <1>7 DEF OneRelay, Brings

\* A relay and its readers leave the loop and its tasks alone, and what was probed has
\* the device or has ended.
LEMMA RelayKeeps ==
    ASSUME CaptureInv, RelayStep
    PROVE  CaptureInv' /\ UNCHANGED <<generation, held>>
  <1>1. UNCHANGED <<generation, edits, held, tasks, results>>
    BY DEF RelayStep, Serves, Broadcasts, CaptureEnds, CaptureReleased, Answered, Delivers,
           ReaderFails, loopVars, resolutionVars
  <1> DEFINE Fades ==
        /\ captures' \in [Captures -> Relay]
        /\ \A c \in Captures :
              /\ captures'[c].grabbed => captures[c].grabbed
              /\ captures'[c].grabbed => captures'[c].state = captures[c].state
              /\ Holder(c) /\ TookDevice(c) => TookDevice(c)'
  <1>2. Fades
    <2>1. CASE captures' = captures
      BY <1>1, <2>1 DEF CaptureInv, CaptureTypes, TookDevice
    <2>2. ASSUME NEW c \in Captures, Broadcasts(c) PROVE Fades
      BY <2>2 DEF CaptureInv, CaptureTypes, Broadcasts, Relay, TookDevice
    <2>3. ASSUME NEW c \in Captures, CaptureEnds(c) PROVE Fades
      BY <2>3 DEF CaptureInv, CaptureTypes, CaptureEnds, Relay, TookDevice
    <2>4. ASSUME NEW c \in Captures, CaptureReleased(c)
          PROVE  Fades
      BY <2>4 DEF CaptureInv, CaptureTypes, CaptureReleased, NoCapture, Relay, TookDevice
    <2>5. (\E w \in Workers : Serves(w) \/ ReaderFails(w)) => captures' = captures
      BY DEF Serves, Answered, Delivers, ReaderFails
    <2> QED BY <2>1, <2>2, <2>3, <2>4, <2>5 DEF RelayStep
  <1>3. CaptureTypes'
    BY <1>1, <1>2 DEF CaptureInv, CaptureTypes, IsTask
  <1>4. OneGrabs'
    BY <1>2 DEF CaptureInv, OneGrabs
  <1>5. ProbedHave'
    <2>1. \A c : Holder(c) /\ TookDevice(c) => TookDevice(c)'
      <3> SUFFICES ASSUME NEW c, Holder(c), TookDevice(c) PROVE TookDevice(c)'
        OBVIOUS
      <3>1. c \in Captures \cup {None}
        BY ResultsTyped DEF CaptureInv, CaptureTypes, IsTask, Holder, Outcome
      <3> QED BY <1>2, <3>1 DEF TookDevice
    <2> QED BY <1>1, <2>1 DEF CaptureInv, ProbedHave, Holder
  <1>6. OneRelay'
    BY <1>1, <1>2, RelayStays DEF CaptureInv
  <1> QED BY <1>1, <1>3, <1>4, <1>5, <1>6 DEF CaptureInv

\* A task goes, or another that is not late takes its place: the captures that were probed
\* are the same ones.
LEMMA TaskGoesOn ==
    ASSUME CaptureInv, UNCHANGED <<generation, edits, held, results>>,
           CaptureTypes', OneGrabs',
           \A t \in tasks' : t.state = "late" => t \in tasks,
           \A c \in Captures : captures'[c] # captures[c] => captures[c].state = "unused"
    PROVE  CaptureInv'
  <1>1. ASSUME NEW c \in Captures, Taken(c) PROVE captures'[c] = captures[c]
    <2>1. c # None
      BY NoneIsNoCapture
    <2>2. TookDevice(c)
      BY <1>1 DEF CaptureInv, ProbedHave, Taken
    <2>3. captures[c].grabbed => captures[c].state = "open"
      BY DEF CaptureInv, OneGrabs
    <2> QED BY <2>1, <2>2, <2>3 DEF TookDevice
  <1>2. ProbedHave'
    <2>1. ASSUME NEW c \in Captures \cup {None}, Taken(c) PROVE TookDevice(c)'
      BY <1>1, <2>1 DEF CaptureInv, ProbedHave, Taken, TookDevice
    <2>2. \A i \in DOMAIN results : results[i].capture \in Captures \cup {None}
      BY ResultsTyped DEF Outcome
    <2>3. \A t \in tasks : t.capture \in Captures \cup {None}
      BY DEF CaptureInv, CaptureTypes, IsTask
    <2> QED BY <2>1, <2>2, <2>3 DEF CaptureInv, ProbedHave, Taken, CaptureTypes
  <1>3. OneRelay'
    BY <1>1, RelayStays DEF CaptureInv
  <1> QED BY <1>2, <1>3 DEF CaptureInv

\* What a task returns, if it is a device, has the camera or is no different from what is
\* already there.
LEMMA ResultsGrow ==
    ASSUME CaptureInv, NEW t \in tasks, NEW c \in Captures \cup {None}, Returns(t, c),
           UNCHANGED <<generation, edits, held, captures>>, TookDevice(c),
           Brings(t) => Yields(held, c),
           \A i \in DOMAIN results : Yields(results[i].capture, c),
           \A u \in tasks : u.state = "late" => Yields(c, u.capture)
    PROVE  CaptureInv'
  <1> DEFINE r == Result(t, c)
  <1>1. /\ r \in Outcome /\ r.generation = t.generation /\ r.capture = c
        /\ r.generation <= edits
    BY DEF Result, Outcome, CaptureInv, CaptureTypes, IsTask
  <1> HIDE DEF r
  <1>2. tasks' = tasks \ {t} /\ results' = Append(results, r)
    BY DEF Returns, r
  <1>3. results \in Seq(Outcome)
    BY DEF CaptureInv, CaptureTypes
  <1>4. /\ results' \in Seq(Outcome) /\ DOMAIN results = 1..Len(results) /\ Len(results) \in Nat
        /\ DOMAIN results' = 1..(Len(results) + 1)
        /\ \A i \in DOMAIN results : results'[i] = results[i]
        /\ results'[Len(results) + 1] = r
    BY <1>1, <1>2, <1>3
  <1>5. \A i \in DOMAIN results' : i \in DOMAIN results \/ (i = Len(results) + 1 /\ results'[i] = r)
    BY <1>4
  <1>6. CaptureTypes'
    <2>1. \A i \in DOMAIN results' : results'[i].generation <= edits
      BY <1>1, <1>4, <1>5 DEF CaptureInv, CaptureTypes
    <2> QED BY <1>2, <1>4, <2>1 DEF CaptureInv, CaptureTypes, IsTask
  <1>7. OneGrabs'
    BY DEF CaptureInv, OneGrabs
  <1>8. ProbedHave'
    <2>1. \A i \in DOMAIN results' : TookDevice(results'[i].capture)
      BY <1>1, <1>4, <1>5 DEF CaptureInv, ProbedHave
    <2> QED BY <1>2, <2>1 DEF CaptureInv, ProbedHave, TookDevice
  <1>9. OneRelay'
    <2>1. ASSUME NEW i \in DOMAIN results', Brings(results'[i])
          PROVE  Yields(held, results'[i].capture)
      BY <1>1, <1>4, <1>5, <2>1 DEF CaptureInv, OneRelay, Brings
    <2>2. ASSUME NEW i \in DOMAIN results', NEW j \in DOMAIN results', i < j
          PROVE  Yields(results'[i].capture, results'[j].capture)
      <3>1. i \in DOMAIN results
        BY <1>4, <2>2
      <3> QED BY <1>1, <1>4, <1>5, <2>2, <3>1 DEF CaptureInv, OneRelay
    <2>3. ASSUME NEW i \in DOMAIN results', NEW u \in tasks', u.state = "late"
          PROVE  Yields(results'[i].capture, u.capture)
      BY <1>1, <1>2, <1>4, <1>5, <2>3 DEF CaptureInv, OneRelay
    <2>4. \A d, e : Yields(d, e)' <=> Yields(d, e)
      BY DEF Yields, Grabbed
    <2> QED BY <1>2, <2>1, <2>2, <2>3, <2>4 DEF CaptureInv, OneRelay, Yields, Grabbed, Brings
  <1> QED BY <1>6, <1>7, <1>8, <1>9 DEF CaptureInv

LEMMA TasksKeep ==
    ASSUME CaptureInv, NEW t \in tasks, TaskStep(t)
    PROVE  CaptureInv' /\ UNCHANGED <<generation, held>>
  <1>1. UNCHANGED <<generation, edits, held>>
    BY DEF TaskStep, OpensCapture, OpenFails, Probes, ProbeFails, LateEnds, loopVars
  <1>2. /\ t.generation \in Nat /\ t.generation <= edits /\ t.capture \in Captures \cup {None}
        /\ t.state = "probing" => t.capture # None
    BY DEF CaptureInv, CaptureTypes, IsTask
  <1>3. captures' = captures /\ Returns(t, None) => CaptureInv'
    <2>1. \A d : Yields(d, None) /\ Yields(None, d)
      BY NoneIsNoCapture DEF Yields, Grabbed
    <2>2. TookDevice(None) /\ None \in Captures \cup {None}
      BY DEF TookDevice
    <2> QED BY <1>1, <2>1, <2>2, ResultsGrow
  <1>4. CASE OpensCapture(t)
    <2>1. PICK c \in Captures :
            /\ captures[c].state = "unused"
            /\ captures' = [captures EXCEPT ![c] =
                  [state |-> "open", grabbed |-> \A d \in Captures : ~captures[d].grabbed,
                   chunks |-> 0]]
            /\ Becomes(t, [t EXCEPT !.capture = c, !.state = "probing"])
      BY <1>4 DEF OpensCapture
    <2>2. PICK u : /\ u = [t EXCEPT !.capture = c, !.state = "probing"]
                   /\ results' = results /\ tasks' = (tasks \ {t}) \cup {u}
      BY <2>1 DEF Becomes
    <2>3. u = [number |-> t.number, generation |-> t.generation, capture |-> c,
               state |-> "probing"]
      <3>1. IsTask(t)
        BY DEF CaptureInv, CaptureTypes
      <3> QED BY <2>2, <3>1 DEF IsTask
    <2>4. CaptureTypes'
      BY <1>1, <1>2, <2>1, <2>2, <2>3, NoneIsNoCapture DEF CaptureInv, CaptureTypes, IsTask, Relay
    <2>5. OneGrabs'
      BY <2>1 DEF CaptureInv, CaptureTypes, OneGrabs, Relay
    <2>6. \A d \in Captures : captures'[d] # captures[d] => captures[d].state = "unused"
      BY <2>1 DEF CaptureInv, CaptureTypes
    <2> QED BY <1>1, <2>2, <2>3, <2>4, <2>5, <2>6, TaskGoesOn
  <1>5. CASE OpenFails(t) \/ ProbeFails(t)
    <2>1. captures' = captures /\ Returns(t, None)
      BY <1>5 DEF OpenFails, ProbeFails
    <2> QED BY <1>1, <1>3, <2>1
  <1>6. CASE Probes(t)
    <2>1. /\ t.capture \in Captures /\ captures[t.capture].grabbed /\ Returns(t, t.capture)
          /\ PollsAreOver /\ captures' = captures
      BY <1>2, <1>6 DEF Probes, Delivering
    <2>2. \A d : Yields(d, t.capture)
      BY <2>1 DEF CaptureInv, OneGrabs, Yields, Grabbed
    <2>3. \A u \in tasks : u.state = "late" => Yields(t.capture, u.capture)
      BY <2>1 DEF PollsAreOver, Yields
    <2> QED BY <1>1, <2>1, <2>2, <2>3, ResultsGrow DEF TookDevice
  <1>7. CASE LateEnds(t)
    <2>1. t.state = "late" /\ captures' = captures
      BY <1>7 DEF LateEnds
    <2>2. CASE Returns(t, t.capture)
      BY <1>1, <1>2, <2>1, <2>2, ResultsGrow DEF CaptureInv, ProbedHave, OneRelay
    <2>3. CASE tasks' = tasks \ {t} /\ results' = results
      <3>1. CaptureTypes' /\ OneGrabs'
        BY <1>1, <2>1, <2>3 DEF CaptureInv, CaptureTypes, IsTask, OneGrabs
      <3> QED BY <1>1, <2>1, <2>3, <3>1, TaskGoesOn
    <2> QED BY <1>7, <2>2, <2>3 DEF LateEnds
  <1>8. CaptureInv'
    BY <1>4, <1>5, <1>6, <1>7 DEF TaskStep
  <1> QED BY <1>1, <1>8

\* A new task takes the relay along if that lives.
LEMMA LaunchKeeps ==
    ASSUME CaptureInv, Launch
    PROVE  CaptureInv' /\ generation' = generation /\ (Alive(held) => held' = held)
  <1> DEFINE c == IF Alive(held) THEN held ELSE None
  <1> DEFINE n == NewTask(c)
  <1>1. /\ held' = c /\ tasks' = tasks \cup {n}
        /\ UNCHANGED <<generation, edits, results, captures>>
    BY DEF Launch, LaunchWith
  <1>2. /\ n = [number |-> n.number, generation |-> n.generation, capture |-> n.capture,
                state |-> n.state]
        /\ n.generation = generation /\ n.capture = c /\ n.state # "late"
        /\ n.state = "probing" => c # None
    BY DEF NewTask
  <1>3. c \in Captures \cup {None} /\ c \in {held, None} /\ (Alive(held) => c = held)
    BY DEF CaptureInv, CaptureTypes
  <1> HIDE DEF n, c
  <1>4. CaptureTypes'
    BY <1>1, <1>2, <1>3 DEF CaptureInv, CaptureTypes, IsTask
  <1>5. OneGrabs' /\ ProbedHave'
    BY <1>1, <1>2, <1>3 DEF CaptureInv, OneGrabs, ProbedHave, TookDevice
  <1>6. OneRelay'
    BY <1>1, <1>2, <1>3, RelayStays DEF CaptureInv
  <1> QED BY <1>1, <1>3, <1>4, <1>5, <1>6 DEF CaptureInv

\* The first result is for the relay that is in use, if it has the device; and what comes
\* behind it is for the relay that it brings.
LEMMA CollectKeeps ==
    ASSUME CaptureInv, Collect
    PROVE  CaptureInv' /\ generation' = generation /\ (Alive(held) => held' = held)
  <1> DEFINE r == Head(results)
  <1>1. /\ results # << >> /\ results' = Tail(results)
        /\ UNCHANGED <<generation, edits, tasks, captures>>
        /\ held' = IF Current(r) /\ r.capture # None THEN r.capture ELSE held
    BY DEF Collect
  <1>2. results \in Seq(Outcome)
    BY DEF CaptureInv, CaptureTypes
  <1>3. /\ results' \in Seq(Outcome) /\ 1 \in DOMAIN results /\ r = results[1]
        /\ \A i \in DOMAIN results' :
              i + 1 \in DOMAIN results /\ 1 < i + 1 /\ results'[i] = results[i + 1]
        /\ \A i, j \in DOMAIN results' : i < j => i + 1 < j + 1
    BY <1>1, <1>2
  <1>4. r \in Outcome
    BY <1>2, <1>3
  <1> HIDE DEF r
  <1>5. CaptureTypes'
    BY <1>1, <1>3, <1>4 DEF CaptureInv, CaptureTypes, IsTask, Outcome
  <1>6. OneGrabs'
    BY <1>1 DEF CaptureInv, OneGrabs
  <1>7. ProbedHave'
    <2>1. \A i \in DOMAIN results' : TookDevice(results'[i].capture)
      BY <1>3 DEF CaptureInv, ProbedHave
    <2>2. TookDevice(held')
      BY <1>1, <1>3 DEF CaptureInv, ProbedHave
    <2> QED BY <1>1, <2>1, <2>2 DEF CaptureInv, ProbedHave, TookDevice
  <1>8. OneRelay'
    <2>1. ASSUME NEW i \in DOMAIN results', Brings(results'[i])
          PROVE  Yields(held', results'[i].capture)
      BY <1>1, <1>3, <2>1 DEF CaptureInv, OneRelay
    <2>2. ASSUME NEW t \in tasks, t.state = "late", Brings(t)
          PROVE  Yields(held', t.capture)
      BY <1>1, <1>3, <2>2 DEF CaptureInv, OneRelay
    <2>3. ASSUME NEW i \in DOMAIN results', NEW j \in DOMAIN results', i < j
          PROVE  Yields(results'[i].capture, results'[j].capture)
      BY <1>3, <2>3 DEF CaptureInv, OneRelay
    <2>4. ASSUME NEW i \in DOMAIN results', NEW u \in tasks, u.state = "late"
          PROVE  Yields(results'[i].capture, u.capture)
      BY <1>3, <2>4 DEF CaptureInv, OneRelay
    <2> QED BY <1>1, <2>1, <2>2, <2>3, <2>4 DEF CaptureInv, OneRelay, Yields, Grabbed, Brings
  <1>9. ASSUME Alive(held) PROVE held' = held
    <2>1. held \in Captures /\ Grabbed(held)
      BY <1>9 DEF CaptureInv, CaptureTypes, ProbedHave, TookDevice, Alive, Grabbed
    <2>2. Current(r) => Yields(held, r.capture)
      BY <1>3 DEF CaptureInv, OneRelay, Brings, Current
    <2> QED BY <1>1, <2>1, <2>2 DEF Yields
  <1> QED BY <1>1, <1>5, <1>6, <1>7, <1>8, <1>9 DEF CaptureInv

\* The other steps of the loop change no task and no relay.
LEMMA LoopKeeps ==
    ASSUME CaptureInv, LoopStep
    PROVE  CaptureInv' /\ generation' = generation /\ (Alive(held) => held' = held)
  <1>1. CASE Tick \/ Reconcile \/ Collected \/ \E w \in Workers : Reap(w)
    <2>1. UNCHANGED <<generation, edits, held, tasks, results, captures>>
      BY <1>1 DEF Tick, Reconcile, Collected, Reap, resolutionVars
    <2>2. CaptureTypes' /\ OneGrabs'
      BY <2>1 DEF CaptureInv, CaptureTypes, IsTask, OneGrabs
    <2> QED BY <2>1, <2>2, TaskGoesOn
  <1> QED BY <1>1, CollectKeeps DEF LoopStep

\* What an abort leaves of the tasks: polls that will end with the device of the one
\* capture that has it, or with an error, besides those of an earlier abort.
LEMMA AbortedTasks ==
    ASSUME CaptureInv, Aborted
    PROVE  /\ results' = results
           /\ \A t \in tasks' :
                 /\ t.state = "late" /\ IsTask(t)
                 /\ t \in tasks \/ t.capture = None \/ (PollsAreOver /\ Grabbed(t.capture))
  <1>1. PICK passing \in SUBSET {t \in tasks : t.state = "probing" /\ Delivering(t.capture)} :
          \E erring \in SUBSET {t \in tasks \ passing : t.state # "late"} :
              /\ passing # {} => PollsAreOver
              /\ tasks' = {t \in tasks : t.state = "late"}
                          \cup {[t EXCEPT !.state = "late"] : t \in passing}
                          \cup {[t EXCEPT !.state = "late", !.capture = None] : t \in erring}
              /\ results' = results
    BY DEF Aborted
  <1>2. PICK erring \in SUBSET {t \in tasks \ passing : t.state # "late"} :
          /\ passing # {} => PollsAreOver
          /\ tasks' = {t \in tasks : t.state = "late"}
                      \cup {[t EXCEPT !.state = "late"] : t \in passing}
                      \cup {[t EXCEPT !.state = "late", !.capture = None] : t \in erring}
          /\ results' = results
    BY <1>1
  <1> SUFFICES ASSUME NEW t \in tasks'
               PROVE  /\ t.state = "late" /\ IsTask(t)
                      /\ t \in tasks \/ t.capture = None \/ (PollsAreOver /\ Grabbed(t.capture))
    BY <1>2
  <1>3. CASE t \in tasks /\ t.state = "late"
    BY <1>3 DEF CaptureInv, CaptureTypes
  <1>4. CASE \E u \in passing : t = [u EXCEPT !.state = "late"]
    <2>1. PICK u \in passing : t = [u EXCEPT !.state = "late"]
      BY <1>4
    <2>2. u \in tasks /\ IsTask(u) /\ Delivering(u.capture) /\ PollsAreOver
      BY <1>1, <1>2 DEF CaptureInv, CaptureTypes
    <2>3. t = [number |-> u.number, generation |-> u.generation, capture |-> u.capture,
               state |-> "late"]
      BY <2>1, <2>2 DEF IsTask
    <2> QED BY <2>2, <2>3 DEF IsTask, Delivering, Alive, Grabbed
  <1>5. CASE \E u \in erring : t = [u EXCEPT !.state = "late", !.capture = None]
    <2>1. PICK u \in erring : t = [u EXCEPT !.state = "late", !.capture = None]
      BY <1>5
    <2>2. u \in tasks /\ IsTask(u)
      BY <1>2 DEF CaptureInv, CaptureTypes
    <2>3. t = [number |-> u.number, generation |-> u.generation, capture |-> None,
               state |-> "late"]
      BY <2>1, <2>2 DEF IsTask
    <2> QED BY <2>2, <2>3 DEF IsTask
  <1> QED BY <1>2, <1>3, <1>4, <1>5

\* An edit of another camera leaves the relay; one of this camera begins a generation
\* to which no task belongs.
LEMMA ReloadKeeps ==
    ASSUME CaptureInv, ReloadOther \/ ReloadThis
    PROVE  CaptureInv' /\ (generation' # generation \/ held' = held)
  <1>1. /\ edits' = edits + 1 /\ captures' = captures
        /\ \/ UNCHANGED <<generation, held>>
           \/ generation' = edits' /\ held' = None
    BY DEF ReloadOther, ReloadThis
  <1>2. /\ results' = results
        /\ \A t \in tasks' :
              /\ t.state = "late" /\ IsTask(t)
              /\ t \in tasks \/ t.capture = None \/ (PollsAreOver /\ Grabbed(t.capture))
    BY AbortedTasks DEF ReloadOther, ReloadThis
  <1>3. /\ edits \in Nat /\ generation \in Nat /\ generation <= edits
        /\ results \in Seq(Outcome)
        /\ \A i \in DOMAIN results : results[i] \in Outcome /\ results[i].generation <= edits
    BY DEF CaptureInv, CaptureTypes
  <1>4. generation' # generation \/ held' = held
    BY <1>1, <1>3
  <1>5. CaptureTypes'
    <2>1. edits' \in Nat /\ generation' \in Nat /\ generation' <= edits' /\ edits <= edits'
      BY <1>1, <1>3
    <2>2. held' \in Captures \cup {None} /\ captures' \in [Captures -> Relay]
      BY <1>1 DEF CaptureInv, CaptureTypes
    <2>3. ASSUME NEW t \in tasks' PROVE IsTask(t)'
      <3>1. IsTask(t)
        BY <1>2
      <3>2. t.generation <= edits'
        BY <1>1, <1>3, <3>1 DEF IsTask
      <3> QED BY <3>1, <3>2 DEF IsTask
    <2>4. results' \in Seq(Outcome)
      BY <1>2, <1>3
    <2>5. ASSUME NEW i \in DOMAIN results' PROVE results'[i].generation <= edits'
      <3>1. results[i] \in Outcome /\ results[i].generation <= edits
        BY <1>2, <1>3
      <3>2. results[i].generation \in Nat
        BY <3>1 DEF Outcome
      <3> QED BY <1>1, <1>2, <1>3, <3>1, <3>2
    <2> QED BY <2>1, <2>2, <2>3, <2>4, <2>5 DEF CaptureTypes
  <1>6. OneGrabs'
    BY <1>1 DEF CaptureInv, OneGrabs
  <1>7. ProbedHave'
    BY <1>1, <1>2 DEF CaptureInv, ProbedHave, TookDevice, Grabbed
  <1>8. OneRelay'
    <2>1. \A c, d : Yields(c, d)' <=> Yields(c, d)
      BY <1>1 DEF Yields, Grabbed
    <2>2. ASSUME NEW c, NEW t \in tasks', t \notin tasks
          PROVE  Yields(c, t.capture)
      BY <1>2, <2>2 DEF CaptureInv, OneGrabs, Yields, Grabbed
    <2>3. ASSUME NEW i \in DOMAIN results, Brings(results[i])'
          PROVE  Yields(held', results[i].capture)
      BY <1>1, <1>2, <1>3, <2>3 DEF CaptureInv, OneRelay, Brings
    <2>4. ASSUME NEW t \in tasks', Brings(t)' PROVE Yields(held', t.capture)
      BY <1>1, <1>2, <1>3, <2>2, <2>4 DEF CaptureInv, OneRelay, Brings, IsTask
    <2>5. ASSUME NEW i \in DOMAIN results, NEW t \in tasks'
          PROVE  Yields(results[i].capture, t.capture)
      BY <1>2, <2>2 DEF CaptureInv, OneRelay
    <2>6. ASSUME NEW t \in tasks', NEW u \in tasks' PROVE Yields(t.capture, u.capture)
      <3>1. CASE u \notin tasks
        BY <2>2, <3>1
      <3>2. CASE u \in tasks /\ t \in tasks
        BY <1>2, <3>2 DEF CaptureInv, OneRelay
      <3>3. CASE u \in tasks /\ t \notin tasks
        BY <1>2, <3>3, NoneIsNoCapture DEF PollsAreOver, Yields, Grabbed
      <3> QED BY <3>1, <3>2, <3>3
    <2>7. \A i, j \in DOMAIN results : i < j => Yields(results[i].capture, results[j].capture)
      BY DEF CaptureInv, OneRelay
    <2> QED BY <1>2, <2>1, <2>3, <2>4, <2>5, <2>6, <2>7 DEF OneRelay
  <1> QED BY <1>4, <1>5, <1>6, <1>7, <1>8 DEF CaptureInv

\* What every step of the loop, its tasks and the relay keeps.
LEMMA CaptureStepKeeps ==
    ASSUME CaptureInv, [LocalNext]_localVars
    PROVE  /\ CaptureInv'
           /\ Alive(held) /\ held' # held => generation' # generation
  <1>1. CASE UNCHANGED localVars
    <2>1. UNCHANGED <<generation, edits, held, tasks, results, captures>>
      BY <1>1 DEF localVars
    <2>2. CaptureTypes' /\ OneGrabs'
      BY <2>1 DEF CaptureInv, CaptureTypes, IsTask, OneGrabs
    <2> QED BY <2>1, <2>2, TaskGoesOn
  <1> QED BY <1>1, RelayKeeps, TasksKeep, LaunchKeeps, LoopKeeps, ReloadKeeps DEF LocalNext

\* At the start there is neither a relay nor a task.
LEMMA CaptureStarts == LocalInit => CaptureInv
  <1> SUFFICES ASSUME LocalInit PROVE CaptureInv
    OBVIOUS
  <1>1. /\ edits = 0 /\ generation = 0 /\ held = None /\ tasks = {} /\ results = << >>
        /\ captures = [c \in Captures |-> NoCapture]
    BY DEF LocalInit
  <1>2. CaptureTypes /\ OneGrabs
    BY <1>1 DEF CaptureTypes, OneGrabs, NoCapture, Relay
  <1>3. ProbedHave /\ OneRelay
    BY <1>1 DEF ProbedHave, TookDevice, OneRelay
  <1> QED BY <1>2, <1>3 DEF CaptureInv

\* However many tasks of the camera's present configuration there are, at most one capture
\* has the device, a relay in use has it until it ends, and whatever is still to be
\* collected for the camera, what aborted polls end with included, brings this very relay
\* (launch_due_cameras, abort_all, collect_resolved_cameras).
THEOREM TasksAgreeOnRelay == LocalSpec => [](OneGrabs /\ ProbedHave /\ OneRelay)
  <1>1. CaptureInv /\ [LocalNext]_localVars => CaptureInv'
    BY CaptureStepKeeps
  <1>2. CaptureInv => OneGrabs /\ ProbedHave /\ OneRelay
    BY DEF CaptureInv
  <1> QED BY <1>1, <1>2, CaptureStarts, PTL DEF LocalSpec

\* A capture that lives is taken away by an edit of its camera and by nothing else:
\* neither by the result of a task, a late one included, nor by a retry, nor by an
\* edit of another camera.
THEOREM LivingCaptureStays == LocalSpec => CaptureUndisturbed
  <1>1. CaptureInv /\ [LocalNext]_localVars => CaptureInv'
    BY CaptureStepKeeps
  <1>2. CaptureInv /\ [LocalNext]_localVars
        => [Alive(held) /\ held' # held => generation' # generation]_localVars
    BY CaptureStepKeeps
  <1> QED BY <1>1, <1>2, CaptureStarts, PTL DEF LocalSpec, CaptureUndisturbed
-----------------------------------------------------------------------------
(***************************************************************************)
(* The resolution: that the selection of profiles is well-defined, what it  *)
(* selects, and that the conversation with the camera keeps to it.          *)
(***************************************************************************)
LEMMA LeastNumber ==
    ASSUME NEW S, S \subseteq Nat, S # {}
    PROVE  \E n \in S : \A m \in S : n <= m
  <1> DEFINE R == OpToRel(<, Nat)
  <1>1. IsWellFoundedOn(R, Nat)
    BY NatLessThanWellFounded
  <1>2. \A a, b \in Nat : <<a, b>> \in R <=> a < b
    BY DEF OpToRel
  <1> HIDE DEF R
  <1>3. PICK n \in S : \A m \in S : ~(<<m, n>> \in R)
    BY <1>1, WFMin
  <1>4. ASSUME NEW m \in S PROVE n <= m
    <2>1. n \in Nat /\ m \in Nat /\ ~(<<m, n>> \in R)
      BY <1>3
    <2>2. ~(m < n)
      BY <1>2, <2>1
    <2> QED BY <2>1, <2>2
  <1> QED BY <1>4

\* The first of the positions at which a function is least.
LEMMA FirstOfLeast ==
    ASSUME NEW I, I \subseteq Nat, I # {}, NEW f, \A i \in I : f[i] \in Nat
    PROVE  \E i \in I : \A j \in I : f[i] <= f[j] /\ (j < i => f[i] < f[j])
  <1>1. PICK n \in {f[i] : i \in I} : \A m \in {f[i] : i \in I} : n <= m
    <2> DEFINE S == {f[i] : i \in I}
    <2>1. S \subseteq Nat /\ S # {}
      OBVIOUS
    <2> QED BY ONLY <2>1, LeastNumber
  <1>2. PICK i \in {j \in I : f[j] = n} : \A j \in {k \in I : f[k] = n} : i <= j
    <2> DEFINE S == {j \in I : f[j] = n}
    <2>1. S \subseteq Nat /\ S # {}
      OBVIOUS
    <2> QED BY ONLY <2>1, LeastNumber
  <1>3. ASSUME NEW j \in I PROVE f[i] <= f[j] /\ (j < i => f[i] < f[j])
    <2>1. f[i] = n /\ i \in Nat /\ j \in Nat /\ n \in Nat /\ f[j] \in Nat /\ n <= f[j]
      BY <1>1, <1>2
    <2>2. f[j] = n => i <= j
      BY <1>2
    <2> QED BY <2>1, <2>2
  <1> QED BY <1>2, <1>3

LEMMA Products ==
    ASSUME NEW a \in Nat, NEW b \in Nat, NEW c \in Nat, NEW d \in Nat, a <= c, b <= d
    PROVE  a * b \in Nat /\ a * b <= c * d
  <1>1. a * b \in Nat /\ c * b \in Nat /\ c * d \in Nat
    OBVIOUS
  <1>2. a * b <= c * b
    OBVIOUS
  <1>3. c * b <= c * d
    OBVIOUS
  <1> QED BY <1>1, <1>2, <1>3

\* A picture of known size is larger than none and smaller than a huge one.
LEMMA Areas ==
    ASSUME NEW p \in Profiles
    PROVE  /\ Area(p, 0) \in 0 .. MaxSize * MaxSize /\ Area(p, Largest) \in Nat
           /\ Known(p) => /\ p.width * p.height \in Nat \ {0}
                          /\ p.width * p.height < Largest
                          /\ Area(p, 0) = p.width * p.height
                          /\ Area(p, Largest) = p.width * p.height
           /\ ~Known(p) => Area(p, 0) = 0 /\ Area(p, Largest) >= Largest
  <1>1. p.width \in Sizes /\ p.height \in Sizes
    BY DEF Profiles
  <1>2. /\ MaxSize \in Nat /\ Missing \notin Nat /\ Largest \in Nat
        /\ MaxSize * MaxSize \in Nat /\ MaxSize * MaxSize < Largest
    BY ResolutionAssumption
  <1>3. CASE Known(p)
    <2>1. p.width \in 1 .. MaxSize /\ p.height \in 1 .. MaxSize
      BY <1>1, <1>3 DEF Known, Sizes
    <2>2. p.width * p.height <= MaxSize * MaxSize /\ p.width * p.height \in Nat
      BY <1>2, <2>1, Products
    <2>3. 1 * 1 <= p.width * p.height
      BY <2>1, Products
    <2>4. Area(p, 0) = p.width * p.height /\ Area(p, Largest) = p.width * p.height
      BY <1>2, <2>1 DEF Area, OrElse
    <2> QED BY <1>2, <1>3, <2>2, <2>3, <2>4
  <1>4. CASE ~Known(p)
    <2> DEFINE w == OrElse(p.width, Largest)
               h == OrElse(p.height, Largest)
    <2>1. w \in Nat \ {0} /\ h \in Nat \ {0} /\ (w = Largest \/ h = Largest)
      BY <1>1, <1>2, <1>4 DEF Known, Sizes, OrElse
    <2>2. Largest * 1 <= w * h \/ 1 * Largest <= w * h
      <3>1. CASE w = Largest
        BY <1>2, <2>1, <3>1, Products
      <3>2. CASE h = Largest
        BY <1>2, <2>1, <3>2, Products
      <3> QED BY <2>1, <3>1, <3>2
    <2>3. Area(p, Largest) = w * h /\ w * h \in Nat
      BY <2>1 DEF Area
    <2>4. Area(p, 0) = 0
      BY <1>1, <1>2, <1>4 DEF Known, Sizes, OrElse, Area
    <2> HIDE DEF w, h
    <2> QED BY <1>2, <1>4, <2>2, <2>3, <2>4
  <1> QED BY <1>3, <1>4

\* The last of the largest exists in every list of profiles.
LEMMA LastLargestIs ==
    ASSUME NEW list \in Seq(Profiles), list # << >>
    PROVE  /\ LastLargest(list) \in DOMAIN list
           /\ \A j \in DOMAIN list : ~Larger(list[j], list[LastLargest(list)])
  <1> DEFINE n == Len(list)
             bound == MaxSize * MaxSize
             I == 1 .. n
             f == [k \in I |-> bound - Area(list[n + 1 - k], 0)]
  <1>1. n \in Nat \ {0} /\ DOMAIN list = I /\ \A i \in I : list[i] \in Profiles
    OBVIOUS
  <1>2. bound \in Nat /\ \A i \in I : Area(list[i], 0) \in 0 .. bound
    BY <1>1, Areas, ResolutionAssumption
  <1>3. I \subseteq Nat /\ I # {} /\ \A k \in I : n + 1 - k \in I
    BY <1>1
  <1>4. ASSUME NEW k \in I PROVE f[k] \in Nat
    <2>1. Area(list[n + 1 - k], 0) \in 0 .. bound /\ f[k] = bound - Area(list[n + 1 - k], 0)
      BY <1>2, <1>3
    <2> HIDE DEF f, bound, I
    <2> QED BY <1>2, <2>1
  <1>5. PICK k \in I : \A j \in I : f[k] <= f[j] /\ (j < k => f[k] < f[j])
    <2> HIDE DEF I, f
    <2> QED BY <1>3, <1>4, FirstOfLeast
  <1> DEFINE i == n + 1 - k
  <1>6. i \in DOMAIN list
    BY <1>1, <1>3
  <1>7. ASSUME NEW j \in DOMAIN list
        PROVE  ~Larger(list[j], list[i]) /\ (j > i => Larger(list[i], list[j]))
    <2> DEFINE l == n + 1 - j
    <2>1. l \in I /\ n + 1 - l = j /\ j \in I
      BY <1>1, <1>3
    <2>2. f[k] <= f[l] /\ (l < k => f[k] < f[l])
      BY <1>5, <2>1
    <2>3. f[k] = bound - Area(list[i], 0) /\ f[l] = bound - Area(list[j], 0)
      BY <2>1
    <2>4. j > i => l < k
      BY <1>1, <2>1
    <2>5. Area(list[i], 0) \in 0 .. bound /\ Area(list[j], 0) \in 0 .. bound
      BY <1>1, <1>2, <1>6, <2>1
    <2> HIDE DEF f, l, i, bound
    <2> QED BY <1>2, <2>2, <2>3, <2>4, <2>5 DEF Larger
  <1> HIDE DEF i
  <1> QED BY <1>6, <1>7 DEF LastLargest

\* The first of the smallest exists among any of the profiles.
LEMMA FirstSmallestIs ==
    ASSUME NEW list \in Seq(Profiles), NEW among \in SUBSET DOMAIN list, among # {}
    PROVE  /\ FirstSmallest(list, among) \in among
           /\ \A j \in among : ~Smaller(list[j], list[FirstSmallest(list, among)])
  <1> DEFINE f == [i \in among |-> Area(list[i], Largest)]
  <1>1. among \subseteq Nat /\ \A i \in among : list[i] \in Profiles
    OBVIOUS
  <1>2. \A i \in among : f[i] \in Nat
    BY <1>1, Areas
  <1>3. PICK i \in among : \A j \in among : f[i] <= f[j] /\ (j < i => f[i] < f[j])
    <2> HIDE DEF f
    <2> QED BY <1>1, <1>2, FirstOfLeast
  <1>4. \A j \in among : ~Smaller(list[j], list[i]) /\ (j < i => Smaller(list[i], list[j]))
    BY <1>2, <1>3 DEF Smaller
  <1> QED BY <1>4 DEF FirstSmallest

\* A token that is in the list is found.
LEMMA FirstIs ==
    ASSUME NEW list \in Seq(Profiles), NEW token \in Tokens(list)
    PROVE  \E i \in DOMAIN list : First(list, token) = list[i] /\ list[i].token = token
  <1> DEFINE I == {i \in DOMAIN list : list[i].token = token}
             Is(i) == list[i].token = token /\ \A j \in 1..(i - 1) : list[j].token # token
  <1>1. I \subseteq Nat /\ I # {}
    BY DEF Tokens
  <1>2. PICK i \in I : \A j \in I : i <= j
    BY <1>1, LeastNumber
  <1>3. i \in DOMAIN list /\ list[i].token = token /\ \A j \in 1..(i - 1) : list[j].token # token
    BY <1>2
  <1>4. First(list, token) = list[CHOOSE k \in DOMAIN list : Is(k)]
    BY DEF First
  <1>5. (CHOOSE k \in DOMAIN list : Is(k)) \in DOMAIN list /\ Is(CHOOSE k \in DOMAIN list : Is(k))
    BY <1>3
  <1> QED BY <1>4, <1>5

-----------------------------------------------------------------------------
\* What the selection is: the main profile as configured, or the largest; and another
\* one as configured, or the smallest of the others, if there are any.
Listed(list) == {list[i] : i \in DOMAIN list}
WithoutToken(list, token) == {p \in Listed(list) : p.token # token}

MainIs(list, main) ==
    /\ main \in Listed(list)
    /\ IF adapter.main = NoToken THEN Best(main, Listed(list), Larg)
       ELSE main.token = adapter.main
SubIs(list, main, sub) ==
    /\ sub \in WithoutToken(list, main.token)
    /\ IF adapter.sub = NoToken THEN Best(sub, WithoutToken(list, main.token), Smal)
       ELSE sub.token = adapter.sub

LEMMA MainSound ==
    ASSUME NEW list \in Seq(Profiles), Selectable(list)
    PROVE  MainIs(list, Main(list))
  <1>1. CASE adapter.main = NoToken
    <2> DEFINE i == LastLargest(list)
    <2>1. i \in DOMAIN list /\ \A j \in DOMAIN list : ~Larger(list[j], list[i])
      BY LastLargestIs DEF Selectable
    <2> HIDE DEF i
    <2>2. list[i] \in Profiles
      BY <2>1
    <2>3. ASSUME NEW q \in Listed(list) PROVE ~Beats(q, list[i], Larg)
      <3>1. q \in Profiles /\ ~Larger(q, list[i])
        BY <2>1 DEF Listed
      <3> QED BY <2>2, <3>1, Areas DEF Beats, Larg, Larger
    <2>4. Main(list) = list[i]
      BY <1>1 DEF Main, i
    <2> QED BY <1>1, <2>1, <2>3, <2>4 DEF MainIs, Listed, Best
  <1>2. CASE adapter.main # NoToken
    <2>1. adapter.main \in Tokens(list)
      BY <1>2 DEF Selectable
    <2> QED BY <1>2, <2>1, FirstIs DEF MainIs, Main, Listed
  <1> QED BY <1>1, <1>2

LEMMA SubSound ==
    ASSUME NEW list \in Seq(Profiles), Selectable(list), Distinct(list)
    PROVE  \/ Sub(list) = << >> /\ WithoutToken(list, Main(list).token) = {}
           \/ \E sub : Sub(list) = <<sub>> /\ SubIs(list, Main(list), sub)
  <1> DEFINE main == Main(list)
             others == Others(list, main)
  <1>1. CASE adapter.sub = NoToken /\ others = {}
    BY <1>1 DEF Sub, Others, WithoutToken, Listed
  <1>2. CASE adapter.sub = NoToken /\ others # {}
    <2> DEFINE i == FirstSmallest(list, others)
    <2>1. others \in SUBSET DOMAIN list
      BY DEF Others
    <2>2. i \in others /\ \A j \in others : ~Smaller(list[j], list[i])
      <3> HIDE DEF others
      <3> QED BY <1>2, <2>1, FirstSmallestIs
    <2>3. Sub(list) = <<list[i]>>
      BY <1>2 DEF Sub
    <2> HIDE DEF i
    <2>4. list[i] \in WithoutToken(list, main.token) /\ list[i] \in Profiles
      BY <2>2 DEF Others, WithoutToken, Listed
    <2>5. ASSUME NEW q \in WithoutToken(list, main.token) PROVE ~Beats(q, list[i], Smal)
      <3>1. q \in Profiles /\ ~Smaller(q, list[i])
        BY <2>2 DEF Others, WithoutToken, Listed
      <3> QED BY <2>4, <3>1, Areas, ResolutionAssumption DEF Beats, Smal, Smaller
    <2>6. SubIs(list, main, list[i])
      BY <1>2, <2>4, <2>5 DEF SubIs, Best
    <2> QED BY <2>3, <2>6
  <1>3. CASE adapter.sub # NoToken
    <2>1. adapter.sub \in Tokens(list)
      BY <1>3 DEF Selectable
    <2>2. PICK i \in DOMAIN list : First(list, adapter.sub) = list[i] /\ list[i].token = adapter.sub
      BY <2>1, FirstIs
    <2>3. Sub(list) = <<list[i]>>
      BY <1>3, <2>2 DEF Sub
    <2>4. list[i].token # main.token
      <3>1. 1 \in DOMAIN Sub(list) /\ Sub(list)[1] = list[i]
        BY <2>3
      <3> QED BY <3>1 DEF Distinct
    <2>5. SubIs(list, main, list[i])
      BY <1>3, <2>2, <2>4 DEF SubIs, WithoutToken, Listed
    <2> QED BY <2>3, <2>5
  <1> QED BY <1>1, <1>2, <1>3

LEMMA OnePlusOne == ASSUME NEW a, NEW b PROVE <<a>> \o <<b>> = <<a, b>>
  <1> DEFINE S == {a, b}
  <1>1. <<a>> \in Seq(S) /\ <<b>> \in Seq(S)
    OBVIOUS
  <1>2. Len(<<a>> \o <<b>>) = 2 /\ (<<a>> \o <<b>>)[1] = a /\ (<<a>> \o <<b>>)[2] = b
    BY <1>1
  <1>3. <<a>> \o <<b>> \in Seq(S) /\ <<a, b>> \in Seq(S) /\ Len(<<a, b>>) = 2
    BY <1>1
  <1> DEFINE s == <<a>> \o <<b>>
             t == <<a, b>>
  <1>4. s[1] = t[1] /\ s[2] = t[2] /\ Len(s) = 2 /\ Len(t) = 2 /\ s \in Seq(S) /\ t \in Seq(S)
    BY <1>2, <1>3
  <1> HIDE DEF s, t, S
  <1>5. \A i \in 1 .. Len(s) : s[i] = t[i]
    BY <1>4
  <1>6. s = t
    BY <1>4, <1>5, SeqEqual
  <1> QED BY <1>6 DEF s, t

LEMMA SelectedIs ==
    ASSUME NEW list \in Seq(Profiles), Selectable(list), Distinct(list)
    PROVE  /\ MainIs(list, Main(list))
           /\ \/ /\ Selected(list) = <<Role("main", Main(list))>>
                 /\ WithoutToken(list, Main(list).token) = {}
              \/ \E sub : /\ Selected(list) = <<Role("main", Main(list)), Role("sub", sub)>>
                          /\ SubIs(list, Main(list), sub)
  <1>1. CASE Sub(list) = << >> /\ WithoutToken(list, Main(list).token) = {}
    <2>1. Selected(list) = <<Role("main", Main(list))>>
      BY <1>1 DEF Selected
    <2> QED BY <1>1, <2>1, MainSound
  <1>2. ASSUME NEW sub, Sub(list) = <<sub>>, SubIs(list, Main(list), sub)
        PROVE  Selected(list) = <<Role("main", Main(list)), Role("sub", sub)>>
    <2>1. [i \in DOMAIN <<sub>> |-> Role("sub", <<sub>>[i])] = <<Role("sub", sub)>>
      OBVIOUS
    <2>2. Selected(list) = <<Role("main", Main(list))>> \o <<Role("sub", sub)>>
      BY <1>2, <2>1 DEF Selected
    <2> QED BY <2>2, OnePlusOne
  <1> QED BY <1>1, <1>2, SubSound, MainSound

(***************************************************************************)
(* The conversation.  What is asked for was selected from one list, the one *)
(* the camera gave, and the streams are those of the first profiles asked   *)
(* for, however the camera is changed meanwhile.                            *)
(***************************************************************************)
Before == {"idle", "failed", "information", "capabilities", "profiles"}
Questions == Before \cup {"streams", "probing", "resolved"}

StreamOf(choice) == [role |-> choice.role, url |-> choice.profile.token]

\* A camera that is taken at its word is not asked.
TakenAtItsWord ==
    /\ asking \in {"idle", "failed", "probing", "resolved"}
    /\ asking \in {"probing", "resolved"} => streams = adapter.streams /\ control = NoToken

InConversation ==
    /\ asking \in {"information", "capabilities", "profiles"} =>
          streams = << >> /\ control = NoToken
    /\ asking \notin Before =>
          /\ Selectable(listed) /\ Distinct(listed) /\ chosen = Selected(listed)
          /\ \E n \in 0 .. Len(chosen) :
                /\ streams = [i \in 1 .. n |-> StreamOf(chosen[i])]
                /\ n = Len(chosen) <=> asking # "streams"
          /\ control # NoToken =>
                /\ asking # "streams"
                /\ control = chosen[1].profile.token /\ chosen[1].profile.ptz

DeviceInv ==
    /\ adapter \in Adapters /\ ValidAdapter(adapter)
    /\ camera \in [profiles : Seq(Profiles), media : Places, ptz : Places]
    /\ asking \in Questions
    /\ listed \in Seq(Profiles)
    /\ adapter.kind = "rtsp" => TakenAtItsWord
    /\ adapter.kind = "onvif" => InConversation

LEMMA SelectedLength ==
    ASSUME NEW list \in Seq(Profiles), Selectable(list), Distinct(list)
    PROVE  Len(Selected(list)) \in {1, 2}
  <1>1. Len(<<Role("main", Main(list))>>) = 1
    OBVIOUS
  <1>2. \A sub : Len(<<Role("main", Main(list)), Role("sub", sub)>>) = 2
    OBVIOUS
  <1> QED BY <1>1, <1>2, SelectedIs

LEMMA OneMore ==
    ASSUME NEW f, NEW n \in Nat
    PROVE  /\ Len([i \in 1 .. n |-> f[i]]) = n
           /\ Append([i \in 1 .. n |-> f[i]], f[n + 1]) = [i \in 1 .. n + 1 |-> f[i]]
  OBVIOUS

LEMMA Removed ==
    ASSUME NEW S, NEW list \in Seq(S), NEW i \in DOMAIN list
    PROVE  RemoveAt(list, i) \in Seq(S)
  <1>1. i \in Nat /\ i >= 1 /\ i <= Len(list) /\ Len(list) \in Nat
    OBVIOUS
  <1>2. SubSeq(list, 1, i - 1) \in Seq(S) /\ SubSeq(list, i + 1, Len(list)) \in Seq(S)
    BY <1>1
  <1> QED BY <1>2 DEF RemoveAt

LEMMA ConversationStarts == DeviceInit => DeviceInv
  <1> SUFFICES ASSUME DeviceInit PROVE DeviceInv
    OBVIOUS
  <1>1. camera \in [profiles : Seq(Profiles), media : Places, ptz : Places]
    BY ResolutionAssumption DEF DeviceInit
  <1>2. listed \in Seq(Profiles) /\ asking = "idle"
    BY DEF DeviceInit
  <1> QED BY <1>1, <1>2 DEF DeviceInit, DeviceInv, TakenAtItsWord, InConversation, Questions, Before

LEMMA AskedNothing ==
    ASSUME DeviceInv, asking' \in Before, UNCHANGED <<adapter, listed>>,
           camera' \in [profiles : Seq(Profiles), media : Places, ptz : Places],
           adapter.kind = "rtsp" => asking' \in {"idle", "failed"},
           asking' \in {"information", "capabilities", "profiles"} => streams' = << >> /\ control' = NoToken
    PROVE  DeviceInv'
  <1>1. ValidAdapter(adapter)'
    BY DEF DeviceInv, ValidAdapter, Roles
  <1> QED BY <1>1 DEF DeviceInv, TakenAtItsWord, InConversation, Questions, Before

LEMMA ConversationKeeps ==
    ASSUME DeviceInv, [DeviceNext]_deviceVars PROVE DeviceInv'
  <1> USE DEF Questions, Before
  <1>0. adapter.kind \in {"rtsp", "onvif"}
    BY ResolutionAssumption DEF DeviceInv
  <1>1. CASE UNCHANGED deviceVars
    <2>1. UNCHANGED <<adapter, camera, asking, listed, chosen, streams, control>>
      BY <1>1 DEF deviceVars
    <2>2. InConversation => InConversation'
      BY <2>1 DEF InConversation, Selectable, Distinct, Selected, Main, Sub
    <2> QED BY <2>1, <2>2 DEF DeviceInv, TakenAtItsWord, ValidAdapter
  <1>2. CASE ResolutionBegins
    <2>1. CASE adapter.kind = "onvif"
      <3>1. /\ asking' = "information" /\ streams' = << >> /\ control' = NoToken
            /\ listed' = << >> /\ UNCHANGED <<adapter, camera>>
        BY <1>2, <2>1 DEF ResolutionBegins
      <3>2. ValidAdapter(adapter)'
        BY <3>1 DEF DeviceInv, ValidAdapter
      <3> QED BY <2>1, <3>1, <3>2 DEF DeviceInv, InConversation
    <2>2. CASE adapter.kind = "rtsp"
      <3>1. /\ asking' = "probing" /\ streams' = adapter.streams /\ control' = NoToken
            /\ listed' = << >> /\ UNCHANGED <<adapter, camera>>
        BY <1>2, <2>2 DEF ResolutionBegins
      <3>2. ValidAdapter(adapter)'
        BY <3>1 DEF DeviceInv, ValidAdapter
      <3> QED BY <2>2, <3>1, <3>2 DEF DeviceInv, TakenAtItsWord
    <2> QED BY <1>0, <2>1, <2>2
  <1>3. CASE RequestFails \/ (Fails /\ UNCHANGED <<adapter, camera>>)
    BY <1>3, AskedNothing DEF RequestFails, Fails, DeviceInv
  <1>4. CASE InformationRead
    BY <1>4, AskedNothing DEF InformationRead, Stage, DeviceInv, InConversation, TakenAtItsWord
  <1>5. CASE CapabilitiesRead
    <2>1. CASE camera.media = "here" /\ camera.ptz # "elsewhere"
      <3>1. asking' = "profiles" /\ UNCHANGED <<listed, streams, control, adapter, camera>>
        BY <1>5, <2>1 DEF CapabilitiesRead
      <3>2. asking = "capabilities"
        BY <1>5 DEF CapabilitiesRead
      <3> QED BY <3>1, <3>2, AskedNothing DEF DeviceInv, InConversation, TakenAtItsWord
    <2>2. CASE ~(camera.media = "here" /\ camera.ptz # "elsewhere")
      BY <1>3, <1>5, <2>2 DEF CapabilitiesRead
    <2> QED BY <2>1, <2>2
  <1>6. CASE ProfilesRead
    <2>1. CASE Selectable(camera.profiles) /\ Distinct(camera.profiles)
      <3>1. /\ asking = "profiles" /\ asking' = "streams"
            /\ listed' = camera.profiles /\ chosen' = Selected(camera.profiles)
            /\ UNCHANGED <<streams, control, adapter, camera>>
        BY <1>6, <2>1 DEF ProfilesRead
      <3>2. adapter.kind = "onvif" /\ streams = << >> /\ control = NoToken
        BY <1>0, <3>1 DEF DeviceInv, TakenAtItsWord, InConversation
      <3>3. camera.profiles \in Seq(Profiles)
        BY DEF DeviceInv
      <3>4. Selectable(listed)' /\ Distinct(listed)' /\ chosen' = Selected(listed)'
        BY <2>1, <3>1 DEF Selectable, Distinct, Selected, Main, Sub
      <3>5. Len(chosen') \in {1, 2}
        BY <2>1, <3>1, <3>3, SelectedLength
      <3>6. streams' = [i \in 1 .. 0 |-> StreamOf(chosen'[i])]
        BY <3>1, <3>2
      <3>7. ValidAdapter(adapter)'
        BY <3>1 DEF DeviceInv, ValidAdapter
      <3>8. InConversation'
        BY <3>1, <3>2, <3>4, <3>5, <3>6 DEF InConversation
      <3> QED BY <3>1, <3>2, <3>3, <3>7, <3>8 DEF DeviceInv
    <2>2. CASE ~(Selectable(camera.profiles) /\ Distinct(camera.profiles))
      BY <1>3, <1>6, <2>2 DEF ProfilesRead
    <2> QED BY <2>1, <2>2
  <1>7. CASE StreamRead
    <2> DEFINE next == chosen[Len(streams) + 1]
    <2>1. CASE next.profile.token \in Tokens(camera.profiles)
      <3>1. /\ asking = "streams"
            /\ streams' = Append(streams, StreamOf(next))
            /\ asking' = IF Len(streams') = Len(chosen) THEN "probing" ELSE "streams"
            /\ control' = IF Len(streams') = Len(chosen) /\ movable /\ chosen[1].profile.ptz
                          THEN chosen[1].profile.token ELSE NoToken
            /\ UNCHANGED <<listed, chosen, adapter, camera>>
        BY <1>7, <2>1 DEF StreamRead, StreamOf
      <3>2. adapter.kind = "onvif" /\ InConversation
        BY <1>0, <3>1 DEF DeviceInv, TakenAtItsWord
      <3>3. PICK n \in 0 .. Len(chosen) :
               streams = [i \in 1 .. n |-> StreamOf(chosen[i])] /\ n # Len(chosen)
        BY <3>1, <3>2 DEF InConversation
      <3>4. listed \in Seq(Profiles) /\ Len(chosen) \in {1, 2}
        BY <3>1, <3>2, SelectedLength DEF InConversation, DeviceInv
      <3> DEFINE f == [i \in Nat |-> StreamOf(chosen[i])]
      <3>5. streams = [i \in 1 .. n |-> f[i]] /\ StreamOf(chosen[n + 1]) = f[n + 1]
        BY <3>3, <3>4
      <3>6. Len(streams) = n /\ Append(streams, f[n + 1]) = [i \in 1 .. n + 1 |-> f[i]]
        <4> HIDE DEF f
        <4> QED BY <3>4, <3>5, OneMore
      <3>7. streams' = [i \in 1 .. n + 1 |-> StreamOf(chosen'[i])]
        BY <3>1, <3>4, <3>5, <3>6
      <3>8. Len(streams') = n + 1
        <4>1. n + 1 \in Nat
          BY <3>4
        <4> QED BY <3>1, <3>5, <3>6, <4>1, OneMore
      <3>9. Selectable(listed)' /\ Distinct(listed)' /\ chosen' = Selected(listed)'
        BY <3>1, <3>2 DEF InConversation, Selectable, Distinct, Selected, Main, Sub
      <3>10. InConversation'
        <4>1. n + 1 \in 0 .. Len(chosen') /\ (n + 1 = Len(chosen') <=> asking' # "streams")
          BY <3>1, <3>3, <3>4, <3>8
        <4>2. control' # NoToken =>
                 asking' # "streams" /\ control' = chosen'[1].profile.token /\ chosen'[1].profile.ptz
          BY <3>1
        <4>3. asking' \in {"probing", "streams"}
          BY <3>1
        <4> QED BY <3>7, <3>9, <4>1, <4>2, <4>3 DEF InConversation
      <3>11. ValidAdapter(adapter)'
        BY <3>1 DEF DeviceInv, ValidAdapter
      <3> QED BY <3>1, <3>2, <3>10, <3>11 DEF DeviceInv
    <2>2. CASE next.profile.token \notin Tokens(camera.profiles)
      BY <1>3, <1>7, <2>2 DEF StreamRead
    <2> QED BY <2>1, <2>2
  <1>8. CASE Probed
    <2>1. /\ asking = "probing" /\ asking' = "resolved"
          /\ UNCHANGED <<listed, chosen, streams, control, adapter, camera>>
      BY <1>8 DEF Probed, Stage
    <2>2. ValidAdapter(adapter)'
      BY <2>1 DEF DeviceInv, ValidAdapter
    <2>3. CASE adapter.kind = "rtsp"
      BY <2>1, <2>2, <2>3 DEF DeviceInv, TakenAtItsWord
    <2>4. CASE adapter.kind = "onvif"
      <3>1. InConversation'
        BY <2>1, <2>4 DEF DeviceInv, InConversation, Selectable, Distinct, Selected, Main, Sub
      <3> QED BY <2>1, <2>2, <2>4, <3>1 DEF DeviceInv
    <2> QED BY <1>0, <2>3, <2>4
  <1>9. CASE ProfileRemoved
    <2>1. PICK i \in DOMAIN camera.profiles :
             camera' = [camera EXCEPT !.profiles = RemoveAt(@, i)]
      BY <1>9 DEF ProfileRemoved
    <2>2. UNCHANGED <<asking, listed, chosen, streams, control, adapter>>
      BY <1>9 DEF ProfileRemoved, taskVars
    <2>3. camera.profiles \in Seq(Profiles)
      BY DEF DeviceInv
    <2>4. RemoveAt(camera.profiles, i) \in Seq(Profiles)
      BY <2>3, Removed
    <2>5. camera' \in [profiles : Seq(Profiles), media : Places, ptz : Places]
      BY <2>1, <2>4 DEF DeviceInv
    <2>6. InConversation => InConversation'
      BY <2>2 DEF InConversation, Selectable, Distinct, Selected, Main, Sub
    <2> QED BY <2>2, <2>5, <2>6 DEF DeviceInv, TakenAtItsWord, ValidAdapter
  <1> QED BY <1>1, <1>2, <1>3, <1>4, <1>5, <1>6, <1>7, <1>8, <1>9 DEF DeviceNext, Conversation

\* What is asked of a camera and what has been answered belong together, and every profile
\* asked for was selected from one list (OnvifAdapter::resolve).
THEOREM ConversationHolds == DeviceSpec => []DeviceInv
  <1>1. DeviceInv /\ [DeviceNext]_deviceVars => DeviceInv'
    BY ConversationKeeps
  <1> QED BY <1>1, ConversationStarts, PTL DEF DeviceSpec

LEMMA RolesOfOne ==
    ASSUME NEW a
    PROVE  Roles(<<a>>) = {a.role} /\ Cardinality(Roles(<<a>>)) = 1
  <1>1. Roles(<<a>>) = {a.role}
    BY DEF Roles
  <1> QED BY <1>1, FS_Singleton

LEMMA RolesOfTwo ==
    ASSUME NEW a, NEW b, a.role # b.role
    PROVE  Roles(<<a, b>>) = {a.role, b.role} /\ Cardinality(Roles(<<a, b>>)) = 2
  <1>1. Roles(<<a, b>>) = {a.role, b.role}
    <2>1. DOMAIN <<a, b>> = {1, 2} /\ <<a, b>>[1] = a /\ <<a, b>>[2] = b
      OBVIOUS
    <2> QED BY <2>1 DEF Roles
  <1>2. IsFiniteSet({a.role}) /\ Cardinality({a.role}) = 1
    BY FS_Singleton
  <1>3. Cardinality({a.role} \cup {b.role}) = 1 + 1
    BY <1>2, FS_AddElement
  <1>4. {a.role} \cup {b.role} = {a.role, b.role}
    OBVIOUS
  <1> QED BY <1>1, <1>3, <1>4

\* What a resolution of an ONVIF camera ends with.
LEMMA StreamsAre ==
    ASSUME DeviceInv, asking = "resolved", adapter.kind = "onvif"
    PROVE  \E main :
              /\ MainIs(listed, main)
              /\ control # NoToken => control = main.token /\ main.ptz
              /\ \/ /\ streams = <<StreamOf(Role("main", main))>>
                    /\ WithoutToken(listed, main.token) = {}
                 \/ \E sub : /\ SubIs(listed, main, sub)
                             /\ streams = <<StreamOf(Role("main", main)), StreamOf(Role("sub", sub))>>
  <1> DEFINE main == Main(listed)
             M == Role("main", main)
             S(sub) == Role("sub", sub)
  <1>1. /\ listed \in Seq(Profiles) /\ Selectable(listed) /\ Distinct(listed)
        /\ chosen = Selected(listed)
        /\ control # NoToken => control = chosen[1].profile.token /\ chosen[1].profile.ptz
    BY DEF DeviceInv, InConversation, Before
  <1>2. streams = [i \in 1 .. Len(chosen) |-> StreamOf(chosen[i])]
    BY DEF DeviceInv, InConversation, Before
  <1>3. /\ MainIs(listed, main)
        /\ \/ chosen = <<M>> /\ WithoutToken(listed, main.token) = {}
           \/ \E sub : chosen = <<M, S(sub)>> /\ SubIs(listed, main, sub)
    BY <1>1, SelectedIs
  <1>4. chosen[1] = M
    <2> HIDE DEF M, S
    <2> QED BY <1>3
  <1>5. M.profile = main
    <2> HIDE DEF main
    <2> QED BY DEF Role
  <1>6. CASE chosen = <<M>> /\ WithoutToken(listed, main.token) = {}
    <2>1. streams = <<StreamOf(M)>>
      <3> HIDE DEF M
      <3> QED BY <1>2, <1>6
    <2> QED BY <1>1, <1>3, <1>4, <1>5, <1>6, <2>1
  <1>7. ASSUME NEW sub, chosen = <<M, S(sub)>>, SubIs(listed, main, sub)
        PROVE  streams = <<StreamOf(M), StreamOf(S(sub))>>
    <2> HIDE DEF M, S
    <2> QED BY <1>2, <1>7
  <1> HIDE DEF main
  <1> QED BY <1>1, <1>3, <1>4, <1>5, <1>6, <1>7

LEMMA AnsweredAsConfigured ==
    ASSUME DeviceInv PROVE ResolvedDevice
  <1> SUFFICES ASSUME asking = "resolved" PROVE ResolvedDevice
    BY DEF ResolvedDevice
  <1>1. CASE adapter.kind = "rtsp"
    <2>1. streams = adapter.streams /\ control = NoToken
      BY <1>1 DEF DeviceInv, TakenAtItsWord
    <2>2. adapter.streams \in Seq(Streams)
      BY <1>1, ResolutionAssumption DEF DeviceInv
    <2>3. Roles(streams) \subseteq {"main", "sub"}
      <3>1. \A i \in DOMAIN streams : streams[i] \in Streams
        BY <2>1, <2>2
      <3> QED BY <3>1 DEF Roles, Streams
    <2>4. "main" \in Roles(streams) /\ Len(streams) = Cardinality(Roles(streams))
      BY <1>1, <2>1 DEF DeviceInv, ValidAdapter
    <2> QED BY <1>1, <2>1, <2>3, <2>4 DEF ResolvedDevice
  <1>2. CASE adapter.kind = "onvif"
    <2>1. PICK main :
              /\ MainIs(listed, main)
              /\ control # NoToken => control = main.token /\ main.ptz
              /\ \/ /\ streams = <<StreamOf(Role("main", main))>>
                    /\ WithoutToken(listed, main.token) = {}
                 \/ \E sub : /\ SubIs(listed, main, sub)
                             /\ streams = <<StreamOf(Role("main", main)), StreamOf(Role("sub", sub))>>
      BY <1>2, StreamsAre
    <2> DEFINE first == StreamOf(Role("main", main))
               second(sub) == StreamOf(Role("sub", sub))
    <2>2. first.role = "main" /\ first.url = main.token
      BY DEF StreamOf, Role
    <2>3. \A sub : second(sub).role = "sub" /\ second(sub).url = sub.token
      BY DEF StreamOf, Role
    <2>4. CASE streams = <<first>> /\ WithoutToken(listed, main.token) = {}
      <3> HIDE DEF first
      <3>1. Roles(streams) = {"main"} /\ Cardinality(Roles(streams)) = 1
        BY <2>2, <2>4, RolesOfOne
      <3>2. Len(streams) = 1 /\ streams[1] = first /\ 1 \in DOMAIN streams
        BY <2>4
      <3> QED BY <1>2, <2>1, <2>2, <2>4, <3>1, <3>2
              DEF ResolvedDevice, MainIs, Listed, WithoutToken
    <2>5. ASSUME NEW sub, SubIs(listed, main, sub), streams = <<first, second(sub)>>
          PROVE  ResolvedDevice
      <3> HIDE DEF first, second
      <3>1. first.role = "main" /\ second(sub).role = "sub"
        BY <2>2, <2>3
      <3>2. Roles(streams) = {"main", "sub"} /\ Cardinality(Roles(streams)) = 2
        BY <2>5, <3>1, RolesOfTwo
      <3>3. /\ Len(streams) = 2 /\ 1 \in DOMAIN streams
            /\ streams[1] = first /\ streams[2] = second(sub)
        BY <2>5
      <3> DEFINE others == {p \in Listed(listed) : p.token # streams[1].url}
      <3>4. others = WithoutToken(listed, main.token)
        BY <2>2, <3>3 DEF WithoutToken
      <3>5. /\ sub \in others /\ sub.token = streams[2].url
            /\ IF adapter.sub = NoToken THEN Best(sub, others, Smal) ELSE sub.token = adapter.sub
        BY <2>3, <2>5, <3>3, <3>4 DEF SubIs
      <3>6. /\ main \in Listed(listed) /\ main.token = streams[1].url
            /\ IF adapter.main = NoToken THEN Best(main, Listed(listed), Larg)
               ELSE main.token = adapter.main
            /\ control # NoToken => main.ptz /\ streams[1].url = control
        BY <2>1, <2>2, <3>3 DEF MainIs
      <3> QED BY <1>2, <2>2, <3>1, <3>2, <3>3, <3>5, <3>6 DEF ResolvedDevice, Listed
    <2> QED BY <2>1, <2>4, <2>5
  <1> QED BY <1>1, <1>2, ResolutionAssumption DEF DeviceInv

\* A resolved device has the streams its camera and its configuration call for, for any
\* lists of profiles and any sizes that parse_profiles lets through
\* (select_profiles, OnvifAdapter::resolve).
THEOREM DevicesAreResolved == DeviceSpec => []ResolvedDevice
  <1>1. DeviceInv => ResolvedDevice
    BY AnsweredAsConfigured
  <1> QED BY <1>1, ConversationHolds, PTL
=============================================================================
