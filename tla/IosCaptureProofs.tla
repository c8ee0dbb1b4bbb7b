-------------------------- MODULE IosCaptureProofs ---------------------------
(***************************************************************************)
(* Proofs about the phone, IosCapture over MobilePublisher: that nothing of *)
(* a capture survives its stop, that frames reach open sessions and can be  *)
(* decoded, and that a failure never stops a later capture.                 *)
(***************************************************************************)
EXTENDS IosCapture, FiniteSetTheorems, TLAPS

-----------------------------------------------------------------------------
(***************************************************************************)
(* Queues of blocks: what is in one, which blocks never stand before which *)
(* others, and how many starts wait in one.                                *)
(***************************************************************************)
Blocks(q) == {q[i] : i \in DOMAIN q}
Any(q, kinds) == \E b \in Blocks(q) : b.do \in kinds

\* No block of the first kind stands before one of the second.
Ordered(q, never) ==
    \A i, j \in DOMAIN q : i < j => <<q[i].do, q[j].do>> \notin never

Starts(q) == {i \in DOMAIN q : q[i].do = "start"}
Waiting(q) == Cardinality(Starts(q))

-----------------------------------------------------------------------------
(***************************************************************************)
(* The inductive invariant.                                                *)
(***************************************************************************)
MainKinds == {"start", "start failed", "failed", "stopped"}
Openings == {"start", "opened", "hand over"}
Closings == {"finish", "last poll", "forget"}
ControlKinds == {"polling", "cancel timer"} \cup Openings \cup Closings
Stops == {"stop", "complete frames"}
EncoderKinds == {"start", "configured", "accepted", "refused"} \cup Stops

MainNever == {<<"stopped", "stopped">>, <<"stopped", "failed">>}

\* On the control queue are a poll, a start and the two blocks of a stop, each at
\* most once and in this order.
ControlNever ==
    (ControlKinds \X {"polling"})
    \cup ((ControlKinds \ {"polling"}) \X Openings)
    \cup (({"cancel timer"} \cup Closings) \X {"cancel timer"})
    \cup (Closings \X Closings)

EncoderNever == Stops \X Stops

Gens == Generations \cup {Nil}
Sets == Sources \cup {NoSource}
MainBlock == [do : MainKinds, gen : Gens]
ControlBlock == [do : ControlKinds, gen : Gens \cup Sets]
EncoderBlock == [do : EncoderKinds, gen : Gens]
Picture == [source : Sources, key : BOOLEAN]

PhoneTypeOK ==
    /\ running \in BOOLEAN /\ stopping \in BOOLEAN /\ foreground \in BOOLEAN
    /\ presses \in 0 .. MaxStarts /\ asking \in Nat /\ begun \in Gens
    /\ owner \in Gens /\ handle \in Gens /\ timer \in Gens /\ captureGen \in Gens
    /\ encoding \in Gens /\ compressor \in Gens
    /\ capturing \in BOOLEAN /\ force \in BOOLEAN /\ sets \in Sets
    /\ main \in Seq(MainBlock) /\ control \in Seq(ControlBlock)
    /\ encoder \in Seq(EncoderBlock)
    /\ pipeline \in Seq(Picture)
    /\ delivering \in Seq([frame : Picture, handle : Gens]) /\ Len(delivering) <= 1
    /\ sessions \in [Handles -> Worker]

\* Every start that begins was pressed.
StartsInv == begun + asking + Waiting(main) <= presses

StoreInv ==
    /\ ~(running /\ stopping)
    /\ running <=> owner # Nil
    /\ owner # Nil => owner = begun

\* A stop is at one place at a time: with the encoder, with the control queue, or on
\* its way back.
StopInv ==
    /\ stopping <=> Any(encoder, Stops) \/ Any(control, Closings) \/ Any(main, {"stopped"})
    /\ Any(encoder, Stops) => ~Any(control, Closings) /\ ~Any(main, {"stopped"})
    /\ Any(main, {"stopped"}) => control = <<>> /\ handle = Nil
    /\ Ordered(main, MainNever)
    /\ Ordered(control, ControlNever)
    /\ Ordered(encoder, EncoderNever)

\* What stands on the control queue.
ControlInv ==
    /\ ~running /\ ~stopping => control = <<>>
    /\ Any(control, {"cancel timer"}) => stopping
    /\ stopping /\ (timer # Nil \/ Any(control, Openings)) => Any(control, {"cancel timer"})
    /\ \A b \in Blocks(control) :
         /\ b.do \in Openings => b.gen = begun /\ begun # Nil /\ handle = Nil
         /\ b.do = "polling" => handle # Nil /\ b.gen \in {NoSource, handle}
         /\ b.do \in {"last poll", "forget"} => handle # Nil /\ control = <<b>>

\* The session in use is the last one, and what there is of a capture is of it.
HandleInv ==
    /\ handle # Nil => handle = begun /\ (running \/ stopping) /\ sets \in {NoSource, handle}
    /\ timer \in {Nil, handle} /\ encoding \in {Nil, handle} /\ compressor \in {Nil, handle}
    /\ capturing => handle # Nil
    /\ \A i \in DOMAIN pipeline : handle # Nil /\ pipeline[i].source = handle
    /\ \A i \in DOMAIN delivering :
         handle # Nil /\ delivering[i].handle = handle /\ delivering[i].frame.source = handle

\* Once the encoder is told to stop, first the camera and then the frames are gone.
EncoderInv ==
    /\ capturing \/ encoding # Nil => running \/ Any(encoder, {"stop"})
    /\ compressor # Nil \/ pipeline # <<>> \/ delivering # <<>> => running \/ Any(encoder, Stops)
    /\ \A b \in Blocks(encoder) :
         b.do \in {"start", "configured"} =>
            b.gen \in 1 .. begun /\ (b.gen = owner => handle = owner)

\* News of a failure is of the last start, and there is none when a new one begins.
MainInv ==
    \A b \in Blocks(main) :
        /\ b.do = "start failed" =>
              b.gen \in 1 .. begun /\ (b.gen = owner => control = <<>> /\ handle = Nil)
        /\ b.do = "failed" => b.gen = begun /\ (handle # Nil \/ Any(main, {"stopped"}))

\* Only the session in use is open, or the one that is about to be.
SessionInv ==
    /\ \A h \in Handles :
         IsOpen(h) => h = handle
                      \/ \E b \in Blocks(control) : b.do \in {"opened", "hand over"} /\ b.gen = h
    /\ handle # Nil => (IsOpen(handle) <=> ~Any(control, {"forget"}))
    /\ \A b \in Blocks(control) : b.do \in {"opened", "hand over"} => IsOpen(b.gen)

\* A publisher that waits for no key frame has lost none since the last one, and
\* what it has announced and queued is of its own capture.
WorkerInv(h, worker) ==
    /\ worker.task \in {"closed", "none", "connecting"} => worker.needsKeyframe
    /\ worker.task = "connected" /\ ~worker.needsKeyframe => ~worker.gap
    /\ worker.announced \in {NoSource, h}
    /\ worker.task # "connected" => worker.frames = <<>>
    /\ worker.task = "connected" => worker.announced = h
    /\ \A i \in DOMAIN worker.frames :
         /\ worker.frames[i].source = h
         /\ worker.frames[i].key \/ worker.frames[i].follows

PhoneInv ==
    /\ PhoneTypeOK
    /\ StartsInv /\ StoreInv /\ StopInv /\ ControlInv /\ HandleInv /\ EncoderInv
    /\ MainInv /\ SessionInv
    /\ \A h \in Handles : WorkerInv(h, sessions[h])

LEMMA BlocksIn ==
    ASSUME NEW S, NEW q \in Seq(S)
    PROVE  /\ Blocks(q) \subseteq S
           /\ Blocks(q) = {} <=> q = <<>>
  BY DEF Blocks

LEMMA HeadOfOne == \A b : Head(<<b>>) = b
  OBVIOUS

LEMMA OneBlock == \A b : <<b>> \o <<>> = <<b>>
  OBVIOUS

LEMMA OneElement ==
    ASSUME NEW S, NEW q \in Seq(S), q # <<>>, Tail(q) = <<>>
    PROVE  q = <<Head(q)>>
  <1>1. Len(q) = 1 /\ Head(q) = q[1]
    <2>1. Len(Tail(q)) = Len(q) - 1 /\ Len(q) \in Nat
      OBVIOUS
    <2>2. Len(<<>>) = 0
      OBVIOUS
    <2>3. Len(q) = 1
      <3>1. Len(Tail(q)) = 0
        BY Zenon, <2>2
      <3> QED BY <2>1, <3>1
    <2>4. Head(q) = q[1]
      OBVIOUS
    <2> QED BY <2>3, <2>4
  <1> QED BY <1>1

LEMMA NoBlocks ==
    ASSUME NEW never
    PROVE  Blocks(<<>>) = {} /\ Ordered(<<>>, never)
  BY DEF Blocks, Ordered

LEMMA Appended ==
    ASSUME NEW S, NEW q \in Seq(S), NEW b \in S
    PROVE  /\ Append(q, b) \in Seq(S)
           /\ Blocks(Append(q, b)) = Blocks(q) \cup {b}
           /\ \A never : Ordered(q, never) /\ (\A c \in Blocks(q) : <<c.do, b.do>> \notin never)
                         => Ordered(Append(q, b), never)
  <1>1. /\ Append(q, b) \in Seq(S) /\ Len(Append(q, b)) = Len(q) + 1
        /\ Len(q) \in Nat /\ DOMAIN q = 1 .. Len(q) /\ DOMAIN Append(q, b) = 1 .. Len(q) + 1
        /\ \A i \in 1 .. Len(q) : Append(q, b)[i] = q[i]
        /\ Append(q, b)[Len(q) + 1] = b
    OBVIOUS
  <1>2. Blocks(Append(q, b)) = Blocks(q) \cup {b}
    <2>1. \A c \in Blocks(Append(q, b)) : c \in Blocks(q) \cup {b}
      BY <1>1 DEF Blocks
    <2>2. \A c \in Blocks(q) \cup {b} : c \in Blocks(Append(q, b))
      BY <1>1 DEF Blocks
    <2> QED BY <2>1, <2>2
  <1>3. ASSUME NEW never, Ordered(q, never), \A c \in Blocks(q) : <<c.do, b.do>> \notin never
        PROVE  Ordered(Append(q, b), never)
    <2> SUFFICES ASSUME NEW i \in 1 .. Len(q) + 1, NEW j \in 1 .. Len(q) + 1, i < j
                 PROVE  <<Append(q, b)[i].do, Append(q, b)[j].do>> \notin never
      BY <1>1 DEF Ordered
    <2>1. CASE j = Len(q) + 1
      <3>1. i \in 1 .. Len(q) /\ q[i] \in Blocks(q)
        BY <1>1, <2>1 DEF Blocks
      <3> QED BY <1>1, <1>3, <2>1, <3>1
    <2>2. CASE j # Len(q) + 1
      BY <1>1, <1>3, <2>2 DEF Ordered
    <2> QED BY <2>1, <2>2
  <1> QED BY <1>1, <1>2, <1>3

LEMMA Prepended ==
    ASSUME NEW S, NEW q \in Seq(S), NEW b \in S
    PROVE  /\ <<b>> \o q \in Seq(S)
           /\ Blocks(<<b>> \o q) = Blocks(q) \cup {b}
           /\ \A never : Ordered(q, never) /\ (\A c \in Blocks(q) : <<b.do, c.do>> \notin never)
                         => Ordered(<<b>> \o q, never)
  <1> DEFINE p == <<b>> \o q
  <1>1. /\ p \in Seq(S) /\ Len(q) \in Nat /\ DOMAIN q = 1 .. Len(q)
        /\ DOMAIN p = 1 .. Len(q) + 1 /\ p[1] = b
        /\ \A i \in 1 .. Len(q) : p[i + 1] = q[i]
    <2>1. p \in Seq(S) /\ Len(p) = Len(q) + 1 /\ Len(q) \in Nat
      OBVIOUS
    <2>2. p[1] = b /\ \A i \in 1 .. Len(q) : p[i + 1] = q[i]
      OBVIOUS
    <2> QED BY <2>1, <2>2
  <1> HIDE DEF p
  <1>2. \A i \in 2 .. Len(q) + 1 : i - 1 \in 1 .. Len(q) /\ p[i] = q[i - 1]
    <2> SUFFICES ASSUME NEW i \in 2 .. Len(q) + 1
                 PROVE  i - 1 \in 1 .. Len(q) /\ p[i] = q[i - 1]
      OBVIOUS
    <2>1. i - 1 \in 1 .. Len(q) /\ (i - 1) + 1 = i
      BY <1>1
    <2> QED BY <1>1, <2>1
  <1>3. Blocks(p) = Blocks(q) \cup {b}
    <2>1. \A c \in Blocks(p) : c \in Blocks(q) \cup {b}
      <3> SUFFICES ASSUME NEW i \in 1 .. Len(q) + 1
                   PROVE  p[i] \in Blocks(q) \cup {b}
        BY <1>1 DEF Blocks
      <3>1. CASE i = 1
        BY <1>1, <3>1
      <3>2. CASE i # 1
        <4>1. i - 1 \in 1 .. Len(q) /\ p[i] = q[i - 1]
          BY <1>2, <3>2
        <4> QED BY <1>1, <4>1 DEF Blocks
      <3> QED BY <3>1, <3>2
    <2>2. \A c \in Blocks(q) \cup {b} : c \in Blocks(p)
      <3>1. ASSUME NEW i \in 1 .. Len(q)
            PROVE  q[i] \in Blocks(p)
        <4>1. i + 1 \in 1 .. Len(q) + 1 /\ p[i + 1] = q[i]
          BY <1>1
        <4> QED BY <1>1, <4>1 DEF Blocks
      <3>2. b \in Blocks(p)
        BY <1>1 DEF Blocks
      <3> QED BY <1>1, <3>1, <3>2 DEF Blocks
    <2> QED BY <2>1, <2>2
  <1>4. ASSUME NEW never, Ordered(q, never), \A c \in Blocks(q) : <<b.do, c.do>> \notin never
        PROVE  Ordered(p, never)
    <2> SUFFICES ASSUME NEW i \in 1 .. Len(q) + 1, NEW j \in 1 .. Len(q) + 1, i < j
                 PROVE  <<p[i].do, p[j].do>> \notin never
      BY <1>1 DEF Ordered
    <2>1. j - 1 \in 1 .. Len(q) /\ p[j] = q[j - 1]
      BY <1>1, <1>2
    <2>2. CASE i = 1
      BY <1>1, <1>4, <2>1, <2>2 DEF Blocks
    <2>3. CASE i # 1
      <3>1. i - 1 \in 1 .. Len(q) /\ p[i] = q[i - 1] /\ i - 1 < j - 1
        BY <1>1, <1>2, <2>3
      <3> QED BY <1>1, <1>4, <2>1, <3>1 DEF Ordered
    <2> QED BY <2>2, <2>3
  <1> QED BY <1>1, <1>3, <1>4 DEF p

LEMMA Advanced ==
    ASSUME NEW S, NEW q \in Seq(S), q # <<>>
    PROVE  /\ Tail(q) \in Seq(S) /\ Head(q) \in Blocks(q) /\ Head(q) \in S
           /\ Blocks(q) = Blocks(Tail(q)) \cup {Head(q)}
           /\ \A never : Ordered(q, never) =>
                /\ Ordered(Tail(q), never)
                /\ \A c \in Blocks(Tail(q)) : <<Head(q).do, c.do>> \notin never
  <1> DEFINE t == Tail(q)
  <1>1. /\ t \in Seq(S) /\ Len(q) \in Nat \ {0} /\ Head(q) = q[1] /\ Head(q) \in S
        /\ DOMAIN q = 1 .. Len(q) /\ DOMAIN t = 1 .. Len(q) - 1
        /\ \A i \in 1 .. Len(q) - 1 : t[i] = q[i + 1]
    OBVIOUS
  <1> HIDE DEF t
  <1>2. \A i \in 2 .. Len(q) : i - 1 \in 1 .. Len(q) - 1 /\ q[i] = t[i - 1]
    <2> SUFFICES ASSUME NEW i \in 2 .. Len(q)
                 PROVE  i - 1 \in 1 .. Len(q) - 1 /\ q[i] = t[i - 1]
      OBVIOUS
    <2>1. i - 1 \in 1 .. Len(q) - 1 /\ (i - 1) + 1 = i
      BY <1>1
    <2> QED BY <1>1, <2>1
  <1>3. Blocks(q) = Blocks(t) \cup {Head(q)}
    <2>1. \A c \in Blocks(q) : c \in Blocks(t) \cup {Head(q)}
      <3> SUFFICES ASSUME NEW i \in 1 .. Len(q)
                   PROVE  q[i] \in Blocks(t) \cup {Head(q)}
        BY <1>1 DEF Blocks
      <3> QED BY <1>1, <1>2 DEF Blocks
    <2>2. \A c \in Blocks(t) : c \in Blocks(q)
      <3> SUFFICES ASSUME NEW i \in 1 .. Len(q) - 1
                   PROVE  t[i] \in Blocks(q)
        BY <1>1 DEF Blocks
      <3>1. i + 1 \in 1 .. Len(q) /\ t[i] = q[i + 1]
        BY <1>1
      <3> QED BY <1>1, <3>1 DEF Blocks
    <2>3. Head(q) \in Blocks(q)
      BY <1>1 DEF Blocks
    <2> QED BY <2>1, <2>2, <2>3
  <1>4. ASSUME NEW never, Ordered(q, never)
        PROVE  /\ Ordered(t, never)
               /\ \A c \in Blocks(t) : <<Head(q).do, c.do>> \notin never
    <2>1. ASSUME NEW i \in 1 .. Len(q) - 1, NEW j \in 1 .. Len(q) - 1, i < j
          PROVE  <<t[i].do, t[j].do>> \notin never
      <3>1. i + 1 \in 1 .. Len(q) /\ j + 1 \in 1 .. Len(q) /\ i + 1 < j + 1
            /\ t[i] = q[i + 1] /\ t[j] = q[j + 1]
        BY <1>1, <2>1
      <3> QED BY <1>1, <1>4, <3>1 DEF Ordered
    <2>2. ASSUME NEW i \in 1 .. Len(q) - 1
          PROVE  <<Head(q).do, t[i].do>> \notin never
      <3>1. 1 \in 1 .. Len(q) /\ i + 1 \in 1 .. Len(q) /\ 1 < i + 1 /\ t[i] = q[i + 1]
        BY <1>1
      <3> QED BY <1>1, <1>4, <3>1 DEF Ordered
    <2> QED BY <1>1, <2>1, <2>2 DEF Ordered, Blocks
  <1>5. Head(q) \in Blocks(q)
    BY <1>3
  <1> QED BY <1>1, <1>3, <1>4, <1>5 DEF t

LEMMA Replaced ==
    ASSUME NEW S, NEW q \in Seq(S), q # <<>>, NEW do, Block(do, Head(q).gen) \in S
    PROVE  /\ Becomes(q, do) \in Seq(S)
           /\ Blocks(Becomes(q, do)) = Blocks(Tail(q)) \cup {Block(do, Head(q).gen)}
           /\ \A never :
                Ordered(q, never) /\ (\A c \in Blocks(Tail(q)) : <<do, c.do>> \notin never)
                => Ordered(Becomes(q, do), never)
  <1>1. Block(do, Head(q).gen).do = do
    BY DEF Block
  <1>2. Tail(q) \in Seq(S) /\ \A never : Ordered(q, never) => Ordered(Tail(q), never)
    BY Advanced
  <1> DEFINE b == Block(do, Head(q).gen)
             t == Tail(q)
  <1>3. Becomes(q, do) = <<b>> \o t
    BY DEF Becomes
  <1>4. b \in S /\ b.do = do /\ t \in Seq(S) /\ \A never : Ordered(q, never) => Ordered(t, never)
    BY <1>1, <1>2
  <1> HIDE DEF b, t
  <1>5. /\ <<b>> \o t \in Seq(S)
        /\ Blocks(<<b>> \o t) = Blocks(t) \cup {b}
        /\ \A never : Ordered(t, never) /\ (\A c \in Blocks(t) : <<b.do, c.do>> \notin never)
                      => Ordered(<<b>> \o t, never)
    BY <1>4, Prepended
  <1>6. /\ Becomes(q, do) \in Seq(S)
        /\ Blocks(Becomes(q, do)) = Blocks(t) \cup {b}
        /\ \A never : Ordered(q, never) /\ (\A c \in Blocks(t) : <<do, c.do>> \notin never)
                      => Ordered(Becomes(q, do), never)
    BY <1>3, <1>4, <1>5
  <1> QED BY <1>6 DEF b, t

\* A queue whose head alone remains is empty behind it.
LEMMA Emptied ==
    ASSUME NEW S, NEW q \in Seq(S), q # <<>>, Blocks(Tail(q)) = {}
    PROVE  Tail(q) = <<>>
  <1>1. Tail(q) \in Seq(S)
    BY Advanced
  <1> QED BY <1>1, BlocksIn

-----------------------------------------------------------------------------
LEMMA StartsFinite ==
    ASSUME NEW S, NEW q \in Seq(S)
    PROVE  IsFiniteSet(Starts(q)) /\ Waiting(q) \in Nat
  <1>1. Len(q) \in Nat /\ Starts(q) \in SUBSET (1 .. Len(q))
    BY DEF Starts
  <1>2. IsFiniteSet(1 .. Len(q))
    BY <1>1, FS_Interval
  <1>3. IsFiniteSet(Starts(q))
    BY <1>1, <1>2, FS_Subset
  <1> QED BY <1>3, FS_CardinalityType DEF Waiting

LEMMA NoneWaiting == Waiting(<<>>) = 0
  <1>1. Starts(<<>>) = {}
    BY DEF Starts
  <1> QED BY <1>1, FS_EmptySet DEF Waiting

LEMMA WaitingAppended ==
    ASSUME NEW S, NEW q \in Seq(S), NEW b \in S
    PROVE  Waiting(Append(q, b)) = IF b.do = "start" THEN Waiting(q) + 1 ELSE Waiting(q)
  <1>1. /\ Len(q) \in Nat /\ DOMAIN q = 1 .. Len(q) /\ DOMAIN Append(q, b) = 1 .. Len(q) + 1
        /\ \A i \in 1 .. Len(q) : Append(q, b)[i] = q[i]
        /\ Append(q, b)[Len(q) + 1] = b
    OBVIOUS
  <1>2. Len(q) + 1 \notin Starts(q)
    BY <1>1 DEF Starts
  <1>3. CASE b.do = "start"
    <2>1. Starts(Append(q, b)) = Starts(q) \cup {Len(q) + 1}
      BY <1>1, <1>3 DEF Starts
    <2> QED BY <1>2, <1>3, <2>1, StartsFinite, FS_AddElement DEF Waiting
  <1>4. CASE b.do # "start"
    <2>1. Starts(Append(q, b)) = Starts(q)
      BY <1>1, <1>4 DEF Starts
    <2> QED BY <1>4, <2>1 DEF Waiting
  <1> QED BY <1>3, <1>4

LEMMA WaitingAdvanced ==
    ASSUME NEW S, NEW q \in Seq(S), q # <<>>
    PROVE  Waiting(Tail(q)) = IF Head(q).do = "start" THEN Waiting(q) - 1 ELSE Waiting(q)
  <1> DEFINE later == Starts(q) \ {1}
             t == Tail(q)
             up == [i \in Starts(t) |-> i + 1]
  <1>1. /\ Len(q) \in Nat \ {0} /\ Head(q) = q[1] /\ t \in Seq(S)
        /\ DOMAIN q = 1 .. Len(q) /\ DOMAIN t = 1 .. Len(q) - 1
        /\ \A i \in 1 .. Len(q) - 1 : t[i] = q[i + 1]
    OBVIOUS
  <1> HIDE DEF t
  <1>2. \A i \in Starts(t) : i \in 1 .. Len(q) - 1 /\ i + 1 \in later
    <2> SUFFICES ASSUME NEW i \in 1 .. Len(q) - 1, t[i].do = "start"
                 PROVE  i + 1 \in later
      BY <1>1 DEF Starts
    <2>1. i + 1 \in 1 .. Len(q) /\ i + 1 # 1 /\ q[i + 1] = t[i]
      BY <1>1
    <2> QED BY <1>1, <2>1 DEF Starts
  <1>3. \A j \in later : j - 1 \in Starts(t) /\ (j - 1) + 1 = j
    <2> SUFFICES ASSUME NEW j \in 1 .. Len(q), q[j].do = "start", j # 1
                 PROVE  j - 1 \in Starts(t) /\ (j - 1) + 1 = j
      BY <1>1 DEF Starts
    <2>1. j - 1 \in 1 .. Len(q) - 1 /\ (j - 1) + 1 = j
      BY <1>1
    <2> QED BY <1>1, <2>1 DEF Starts
  <1>4. up \in Bijection(Starts(t), later)
    <2>1. up \in [Starts(t) -> later]
      BY <1>2
    <2>2. \A i, j \in Starts(t) : up[i] = up[j] => i = j
      BY <1>2
    <2>3. \A j \in later : \E i \in Starts(t) : up[i] = j
      BY <1>3
    <2> HIDE DEF up, later
    <2> QED BY <2>1, <2>2, <2>3 DEF Bijection, Injection, Surjection, IsInjective
  <1>5. IsFiniteSet(Starts(t)) /\ IsFiniteSet(Starts(q)) /\ Waiting(q) \in Nat
    BY <1>1, StartsFinite
  <1>6. Cardinality(later) = Waiting(t)
    BY <1>4, <1>5, FS_Bijection DEF ExistsBijection, Waiting
  <1>7. Cardinality(later) = IF 1 \in Starts(q) THEN Waiting(q) - 1 ELSE Waiting(q)
    BY <1>5, FS_RemoveElement DEF Waiting
  <1>8. 1 \in Starts(q) <=> Head(q).do = "start"
    BY <1>1 DEF Starts
  <1> QED BY <1>6, <1>7, <1>8 DEF t

-----------------------------------------------------------------------------
LEMMA ControlOrder ==
    ASSUME NEW a \in ControlKinds, NEW d \in ControlKinds, <<a, d>> \notin ControlNever
    PROVE  /\ a \in Openings => d \notin Openings \cup {"polling"}
           /\ a = "cancel timer" => d \in Closings
           /\ d # "polling" /\ a \notin Closings
  BY DEF ControlNever, ControlKinds, Openings, Closings

LEMMA SamePlace ==
    ASSUME NEW a \in ControlKinds, NEW do, {a, do} \subseteq Openings \/ {a, do} \subseteq Closings,
           NEW d, <<a, d>> \notin ControlNever
    PROVE  do \in ControlKinds /\ <<do, d>> \notin ControlNever
  BY DEF ControlNever, ControlKinds, Openings, Closings

LEMMA Numbers ==
    ASSUME PhoneTypeOK
    PROVE  MaxStarts \in Nat /\ begun \in Nat /\ presses \in Nat /\ Nil = 0
  BY MaxStartsAssumption DEF PhoneTypeOK, Gens, Generations, Nil

LEMMA Named ==
    /\ \A h \in Handles : h \in Generations /\ h # Nil
    /\ \A n \in Nat : n # Nil => n \in 1 .. n
  BY HandlesAssumption, MaxStartsAssumption DEF Generations, Nil

-----------------------------------------------------------------------------
(***************************************************************************)
(* The user, and the blocks of the main queue.                             *)
(***************************************************************************)
LEMMA PressKeeps ==
    ASSUME PhoneInv, Press
    PROVE  PhoneInv'
  <1>1. PhoneTypeOK'
    BY MaxStartsAssumption DEF PhoneInv, PhoneTypeOK, Press, storeVars, controlVars, encoderVars,
       frameVars, queueVars
  <1>2. StartsInv'
    <2>1. Waiting(main) \in Nat /\ main' = main
      BY StartsFinite DEF PhoneInv, PhoneTypeOK, Press, queueVars
    <2> QED BY <2>1 DEF PhoneInv, PhoneTypeOK, StartsInv, Press, storeVars, Gens, Generations, Nil
  <1>3. UNCHANGED <<running, stopping, owner, begun, control, encoder, main, handle, timer, sets,
                    encoding, compressor, capturing, pipeline, delivering, sessions>>
    BY DEF Press, storeVars, controlVars, encoderVars, frameVars, queueVars
  <1> QED BY <1>1, <1>2, <1>3
          DEF PhoneInv, StoreInv, StopInv, ControlInv, HandleInv, EncoderInv, MainInv, SessionInv,
              IsOpen

LEMMA AnswerKeeps ==
    ASSUME PhoneInv, PermissionAnswered
    PROVE  PhoneInv'
  <1> DEFINE b == Block("start", Nil)
  <1>1. CASE main' = Append(main, b)
    <2>1. b \in MainBlock /\ b.do = "start" /\ main \in Seq(MainBlock)
      BY DEF PhoneInv, PhoneTypeOK, Block, MainBlock, MainKinds, Gens
    <2>2. /\ main' \in Seq(MainBlock) /\ Blocks(main') = Blocks(main) \cup {b}
          /\ Ordered(main', MainNever)
          /\ Waiting(main) \in Nat /\ Waiting(main') = Waiting(main) + 1
      <3>1. \A c \in Blocks(main) : <<c.do, "start">> \notin MainNever
        BY DEF MainNever
      <3>2. Ordered(main, MainNever)
        BY DEF PhoneInv, StopInv
      <3> HIDE DEF b
      <3> QED BY <1>1, <2>1, <3>1, <3>2, Appended, StartsFinite, WaitingAppended
    <2> HIDE DEF b
    <2>3. PhoneTypeOK'
      BY <2>2 DEF PhoneInv, PhoneTypeOK, PermissionAnswered, storeVars, controlVars, encoderVars,
         frameVars
    <2>4. StartsInv'
      BY <2>2 DEF PhoneInv, PhoneTypeOK, StartsInv, PermissionAnswered, storeVars, Gens,
         Generations, Nil
    <2>5. UNCHANGED <<running, stopping, owner, begun, control, encoder, handle, timer, sets,
                      encoding, compressor, capturing, pipeline, delivering, sessions>>
      BY DEF PermissionAnswered, storeVars, controlVars, encoderVars, frameVars
    <2>6. StopInv' /\ MainInv'
      BY <2>1, <2>2, <2>5 DEF PhoneInv, StopInv, MainInv, Any
    <2> QED BY <2>3, <2>4, <2>5, <2>6
            DEF PhoneInv, StoreInv, ControlInv, HandleInv, EncoderInv, SessionInv, IsOpen
  <1>2. CASE main' = main
    <2>1. PhoneTypeOK'
      BY <1>2 DEF PhoneInv, PhoneTypeOK, PermissionAnswered, storeVars, controlVars, encoderVars,
         frameVars
    <2>2. Waiting(main) \in Nat
      BY StartsFinite DEF PhoneInv, PhoneTypeOK
    <2>3. StartsInv'
      BY <1>2, <2>2 DEF PhoneInv, PhoneTypeOK, StartsInv, PermissionAnswered, storeVars, Gens,
         Generations, Nil
    <2>4. UNCHANGED <<running, stopping, owner, begun, control, encoder, handle, timer, sets,
                      encoding, compressor, capturing, pipeline, delivering, sessions>>
      BY DEF PermissionAnswered, storeVars, controlVars, encoderVars, frameVars
    <2> QED BY <1>2, <2>1, <2>3, <2>4
            DEF PhoneInv, StoreInv, StopInv, ControlInv, HandleInv, EncoderInv, MainInv,
                SessionInv, IsOpen
  <1> QED BY <1>1, <1>2 DEF PermissionAnswered

LEMMA ForegroundKeeps ==
    ASSUME PhoneInv, EnterForeground
    PROVE  PhoneInv'
  <1>1. PhoneTypeOK'
    BY DEF PhoneInv, PhoneTypeOK, EnterForeground, storeVars, controlVars, encoderVars,
       frameVars, queueVars
  <1>2. UNCHANGED <<running, stopping, owner, begun, control, encoder, main, handle, timer, sets,
                    encoding, compressor, capturing, pipeline, delivering, sessions, asking, presses>>
    BY DEF EnterForeground, storeVars, controlVars, encoderVars, frameVars, queueVars
  <1> QED BY <1>1, <1>2
          DEF PhoneInv, StartsInv, StoreInv, StopInv, ControlInv, HandleInv, EncoderInv, MainInv,
              SessionInv, IsOpen

\* What taking the block at the head of the main queue leaves.
LEMMA MainTaken ==
    ASSUME PhoneInv, main # <<>>, main' = Tail(main)
    PROVE  /\ main' \in Seq(MainBlock)
           /\ Blocks(main) = Blocks(main') \cup {Head(main)}
           /\ Head(main) \in MainBlock /\ Head(main) \in Blocks(main)
           /\ Ordered(main', MainNever)
           /\ \A c \in Blocks(main') : <<Head(main).do, c.do>> \notin MainNever
           /\ Waiting(main) \in Nat /\ Waiting(main') \in Nat /\ Waiting(main') <= Waiting(main)
           /\ Head(main).do = "start" => Waiting(main') = Waiting(main) - 1
  <1>1. main \in Seq(MainBlock) /\ Ordered(main, MainNever)
    BY DEF PhoneInv, PhoneTypeOK, StopInv
  <1>2. main' \in Seq(MainBlock)
    BY <1>1, Advanced
  <1>3. Waiting(main) \in Nat /\ Waiting(main') \in Nat
    BY <1>1, <1>2, StartsFinite
  <1>4. Waiting(main') = IF Head(main).do = "start" THEN Waiting(main) - 1 ELSE Waiting(main)
    BY <1>1, WaitingAdvanced
  <1> QED BY <1>1, <1>2, <1>3, <1>4, Advanced

\* A block of the main queue that finds nothing to do.
LEMMA MainPasses ==
    ASSUME PhoneInv, main # <<>>, Head(main).do # "stopped", main' = Tail(main),
           foreground' \in BOOLEAN,
           UNCHANGED <<presses, asking, storeVars, controlVars, captureGen, encoderVars, frameVars,
                       control, encoder, sessions>>
    PROVE  PhoneInv'
  <1>1. PhoneTypeOK'
    BY MainTaken DEF PhoneInv, PhoneTypeOK, storeVars, controlVars, encoderVars, frameVars
  <1>2. UNCHANGED <<running, stopping, owner, begun, control, encoder, handle, timer, sets,
                    encoding, compressor, capturing, pipeline, delivering, sessions>>
    BY DEF storeVars, controlVars, encoderVars, frameVars
  <1>3. StartsInv'
    BY <1>2, MainTaken DEF PhoneInv, PhoneTypeOK, StartsInv, Gens, Generations, Nil
  <1>4. StopInv' /\ MainInv'
    BY <1>2, MainTaken DEF PhoneInv, StopInv, MainInv, Any
  <1> QED BY <1>1, <1>2, <1>3, <1>4
          DEF PhoneInv, StoreInv, ControlInv, HandleInv, EncoderInv, SessionInv, IsOpen

LEMMA StartKeeps ==
    ASSUME PhoneInv, Start
    PROVE  PhoneInv'
  <1>1. main # <<>> /\ Head(main).do = "start" /\ main' = Tail(main)
    BY DEF Start, At
  <1>2. CASE MayStart
    <2> DEFINE b == Block("start", begun + 1)
    <2>1. UNCHANGED <<presses, asking, foreground, stopping, encoder, handle, timer, sets, captureGen,
                      encoding, compressor, capturing, force, pipeline, delivering, sessions>>
          /\ running' = TRUE /\ begun' = begun + 1 /\ owner' = begun + 1
          /\ control' = Append(control, b)
      BY <1>2 DEF Start, userVars, controlVars, encoderVars, frameVars
    <2>2. ~running /\ ~stopping /\ control = <<>> /\ handle = Nil /\ timer = Nil
      BY <1>2 DEF MayStart, PhoneInv, ControlInv, HandleInv
    <2>3. begun + 1 \in Generations /\ begun \in Nat /\ StartsInv'
      <3>1. /\ begun \in Nat /\ asking \in Nat /\ presses \in 0 .. MaxStarts
            /\ begun + asking + Waiting(main) <= presses
        BY Numbers DEF PhoneInv, PhoneTypeOK, StartsInv
      <3>2. /\ Waiting(main) \in Nat /\ Waiting(main') \in Nat
            /\ Waiting(main') = Waiting(main) - 1
        BY <1>1, MainTaken
      <3>3. begun + 1 \in Generations
        BY <3>1, <3>2, MaxStartsAssumption DEF Generations
      <3>4. begun' + asking' + Waiting(main') <= presses'
        BY <2>1, <3>1, <3>2
      <3> QED BY <3>1, <3>3, <3>4 DEF StartsInv
    <2>4. b \in ControlBlock /\ b.do = "start" /\ b.gen = begun + 1
      BY <2>3 DEF Block, ControlBlock, ControlKinds, Openings, Gens
    <2>5. control' \in Seq(ControlBlock) /\ Blocks(control') = {b} /\ Ordered(control', ControlNever)
      <3>1. <<>> \in Seq(ControlBlock) /\ Blocks(<<>>) = {} /\ Ordered(<<>>, ControlNever)
        BY NoBlocks
      <3> HIDE DEF b
      <3>2. /\ control \in Seq(ControlBlock) /\ Blocks(control) = {}
            /\ Ordered(control, ControlNever)
        BY <2>2, <3>1
      <3> QED BY <2>1, <2>4, <3>2, Appended
    <2> HIDE DEF b
    <2>6. PhoneTypeOK'
      <3>1. main' \in Seq(MainBlock)
        BY <1>1, MainTaken
      <3> QED BY <2>1, <2>3, <2>5, <3>1 DEF PhoneInv, PhoneTypeOK, Gens
    <2>7. StoreInv'
      BY <2>1, <2>2, <2>3 DEF StoreInv, Nil
    <2>8. StopInv'
      <3>1. ~Any(control', Closings) /\ ~Any(main, {"stopped"}) /\ ~Any(main', {"stopped"})
            /\ ~Any(encoder, Stops)
        BY <1>1, <2>2, <2>4, <2>5, MainTaken DEF PhoneInv, StopInv, Any, Closings
      <3> QED BY <1>1, <2>1, <2>2, <2>5, <3>1, MainTaken DEF PhoneInv, StopInv
    <2>9. ControlInv'
      <3>1. begun' # Nil
        BY <2>1, <2>3 DEF Nil
      <3> QED BY <2>1, <2>2, <2>4, <2>5, <3>1 DEF ControlInv, Any, Openings
    <2>10. HandleInv'
      BY <2>1, <2>2 DEF PhoneInv, HandleInv
    <2>11. EncoderInv'
      BY <2>1, <2>2, <2>3 DEF PhoneInv, PhoneTypeOK, EncoderInv
    <2>12. MainInv'
      <3>1. ~Any(main, {"stopped"})
        BY <2>2 DEF PhoneInv, StopInv
      <3>2. \A d \in Blocks(main) :
              /\ d.do = "start failed" => d.gen \in 1 .. begun
              /\ d.do # "failed"
        BY <2>2, <3>1 DEF PhoneInv, MainInv
      <3>3. \A d \in Blocks(main') :
              /\ d.do = "start failed" => d.gen \in 1 .. begun' /\ d.gen # owner'
              /\ d.do # "failed"
        <4>1. Blocks(main') \subseteq Blocks(main)
          BY <1>1, MainTaken
        <4>2. \A n \in 1 .. begun : n \in 1 .. begun + 1 /\ n # begun + 1
          BY <2>3
        <4> QED BY <2>1, <3>2, <4>1, <4>2
      <3> QED BY <3>3 DEF MainInv
    <2>13. SessionInv'
      BY <2>1, <2>2, <2>4, <2>5, NoBlocks DEF PhoneInv, SessionInv, IsOpen, Any
    <2> QED BY <2>1, <2>3, <2>6, <2>7, <2>8, <2>9, <2>10, <2>11, <2>12, <2>13 DEF PhoneInv
  <1>3. CASE ~MayStart
    <2>1. UNCHANGED <<presses, asking, storeVars, controlVars, captureGen, encoderVars, frameVars,
                      control, encoder, sessions, foreground>>
      BY <1>3 DEF Start, userVars, storeVars
    <2> QED BY <1>1, <2>1, MainPasses DEF PhoneInv, PhoneTypeOK
  <1> QED BY <1>2, <1>3

LEMMA StartFailedKeeps ==
    ASSUME PhoneInv, StartFailed
    PROVE  PhoneInv'
  <1>1. main # <<>> /\ Head(main).do = "start failed" /\ main' = Tail(main)
    BY DEF StartFailed, At
  <1>2. CASE owner = Head(main).gen
    <2>1. UNCHANGED <<presses, asking, foreground, stopping, begun, control, encoder, handle, timer,
                      sets, captureGen, encoding, compressor, capturing, force, pipeline, delivering,
                      sessions>>
          /\ running' = FALSE /\ owner' = Nil
      BY <1>2 DEF StartFailed, userVars, controlVars, encoderVars, frameVars
    <2>2. Head(main) \in Blocks(main) /\ Head(main).gen \in 1 .. begun /\ begun \in Nat
      <3>1. Head(main) \in Blocks(main)
        BY <1>1, MainTaken
      <3>2. Head(main).gen \in 1 .. begun
        BY <1>1, <3>1 DEF PhoneInv, MainInv
      <3>3. begun \in Nat
        BY Numbers DEF PhoneInv
      <3> QED BY <3>1, <3>2, <3>3
    <2>3. control = <<>> /\ handle = Nil /\ owner # Nil /\ running /\ ~stopping
      <3>1. control = <<>> /\ handle = Nil
        BY <1>1, <1>2, <2>2 DEF PhoneInv, MainInv
      <3>2. owner # Nil
        BY <1>2, <2>2 DEF Nil
      <3> QED BY <3>1, <3>2 DEF PhoneInv, StoreInv
    <2>4. PhoneTypeOK'
      <3>1. main' \in Seq(MainBlock)
        BY <1>1, MainTaken
      <3> QED BY <2>1, <3>1 DEF PhoneInv, PhoneTypeOK, Gens
    <2>5. StartsInv'
      <3>1. Waiting(main) \in Nat /\ Waiting(main') \in Nat /\ Waiting(main') <= Waiting(main)
        BY <1>1, MainTaken
      <3>2. /\ begun \in Nat /\ asking \in Nat /\ presses \in Nat
            /\ begun + asking + Waiting(main) <= presses
        BY Numbers DEF PhoneInv, PhoneTypeOK, StartsInv
      <3>3. begun' + asking' + Waiting(main') <= presses'
        BY <2>1, <3>1, <3>2
      <3> QED BY <3>3 DEF StartsInv
    <2>6. StoreInv'
      BY <2>1 DEF StoreInv, Nil
    <2>7. StopInv'
      <3>1. ~Any(control, Closings) /\ ~Any(main, {"stopped"}) /\ ~Any(main', {"stopped"})
            /\ ~Any(encoder, Stops)
        BY <1>1, <2>3, MainTaken DEF PhoneInv, StopInv, Any
      <3> QED BY <1>1, <2>1, <2>3, <3>1, MainTaken DEF PhoneInv, StopInv
    <2>8. ControlInv'
      BY <2>1, <2>3, NoBlocks DEF ControlInv, Any
    <2>9. HandleInv'
      BY <2>1, <2>3 DEF PhoneInv, HandleInv
    <2>10. EncoderInv'
      <3>1. \A b \in Blocks(encoder) :
              b.do \in {"start", "configured"} => b.gen \in 1 .. begun /\ b.gen # Nil
        BY <2>2 DEF PhoneInv, EncoderInv, Nil
      <3>2. ~capturing /\ encoding = Nil /\ compressor = Nil /\ pipeline = <<>> /\ delivering = <<>>
        <4>1. pipeline \in Seq(Picture) /\ delivering \in Seq([frame : Picture, handle : Gens])
          BY DEF PhoneInv, PhoneTypeOK
        <4> QED BY <2>3, <4>1 DEF PhoneInv, HandleInv
      <3> QED BY <2>1, <3>1, <3>2 DEF EncoderInv
    <2>11. MainInv'
      <3>1. ~Any(main, {"stopped"})
        BY <2>3 DEF PhoneInv, StopInv
      <3> QED BY <1>1, <2>1, <2>2, <2>3, <3>1, MainTaken DEF PhoneInv, MainInv, Any
    <2> QED BY <2>1, <2>4, <2>5, <2>6, <2>7, <2>8, <2>9, <2>10, <2>11 DEF PhoneInv, SessionInv, IsOpen
  <1>3. CASE owner # Head(main).gen
    <2>1. UNCHANGED <<presses, asking, storeVars, controlVars, captureGen, encoderVars, frameVars,
                      control, encoder, sessions, foreground>>
      BY <1>3 DEF StartFailed, userVars, storeVars
    <2> QED BY <1>1, <2>1, MainPasses DEF PhoneInv, PhoneTypeOK
  <1> QED BY <1>2, <1>3

LEMMA StopDoneKeeps ==
    ASSUME PhoneInv, StopDone
    PROVE  PhoneInv'
  <1>1. main # <<>> /\ Head(main).do = "stopped" /\ main' = Tail(main)
    BY DEF StopDone, At
  <1>2. UNCHANGED <<presses, asking, foreground, running, owner, begun, control, encoder, handle, timer,
                    sets, captureGen, encoding, compressor, capturing, force, pipeline, delivering,
                    sessions>>
        /\ stopping' = FALSE
    BY DEF StopDone, userVars, controlVars, encoderVars, frameVars
  <1>3. \A c \in Blocks(main') : c.do \notin {"stopped", "failed"}
    BY <1>1, MainTaken DEF MainNever
  <1>4. Any(main, {"stopped"}) /\ stopping /\ ~running /\ control = <<>> /\ handle = Nil
    BY <1>1, MainTaken DEF PhoneInv, StopInv, StoreInv, Any
  <1>5. ~Any(encoder, Stops) /\ ~Any(control, Closings) /\ ~Any(main', {"stopped"})
    BY <1>3, <1>4, NoBlocks DEF PhoneInv, StopInv, Any
  <1>6. PhoneTypeOK'
    BY <1>1, <1>2, MainTaken DEF PhoneInv, PhoneTypeOK
  <1>7. StartsInv'
    BY <1>1, <1>2, MainTaken DEF PhoneInv, PhoneTypeOK, StartsInv, Gens, Generations, Nil
  <1>8. StopInv'
    BY <1>1, <1>2, <1>5, MainTaken DEF PhoneInv, StopInv
  <1>9. ControlInv'
    BY <1>2, <1>4, NoBlocks DEF ControlInv, Any
  <1>10. MainInv'
    BY <1>1, <1>2, <1>3, <1>4, MainTaken DEF PhoneInv, MainInv
  <1>11. HandleInv'
    BY <1>2, <1>4 DEF PhoneInv, HandleInv
  <1> QED BY <1>2, <1>6, <1>7, <1>8, <1>9, <1>10, <1>11
          DEF PhoneInv, StoreInv, EncoderInv, SessionInv, IsOpen

\* stop() of the store, whoever calls it.
LEMMA StopKeeps ==
    ASSUME PhoneInv, running, StopEffects, foreground' \in BOOLEAN,
           \/ main' = main
           \/ main # <<>> /\ Head(main).do # "stopped" /\ main' = Tail(main),
           UNCHANGED <<presses, asking, controlVars, encoderVars, frameVars, sessions>>
    PROVE  PhoneInv'
  <1> DEFINE c == Block("cancel timer", Nil)
             e == Block("stop", Nil)
  <1>1. UNCHANGED <<presses, asking, begun, handle, timer, sets, encoding, compressor, capturing,
                    force, pipeline, delivering, sessions>>
        /\ running' = FALSE /\ stopping' = TRUE /\ owner' = Nil /\ captureGen' = Nil
        /\ control' = Append(control, c) /\ encoder' = Append(encoder, e)
    BY DEF StopEffects, controlVars, encoderVars, frameVars
  <1>2. /\ ~stopping /\ ~Any(encoder, Stops) /\ ~Any(control, Closings) /\ ~Any(main, {"stopped"})
        /\ ~Any(control, {"cancel timer"})
    BY DEF PhoneInv, StoreInv, StopInv, ControlInv
  <1>3. c \in ControlBlock /\ c.do = "cancel timer" /\ e \in EncoderBlock /\ e.do = "stop"
    BY DEF Block, ControlBlock, ControlKinds, EncoderBlock, EncoderKinds, Stops, Gens
  <1>4. /\ main' \in Seq(MainBlock) /\ Blocks(main') \subseteq Blocks(main)
        /\ Ordered(main', MainNever)
        /\ Waiting(main) \in Nat /\ Waiting(main') \in Nat /\ Waiting(main') <= Waiting(main)
    <2>1. main \in Seq(MainBlock) /\ Ordered(main, MainNever) /\ Waiting(main) \in Nat
      BY StartsFinite DEF PhoneInv, PhoneTypeOK, StopInv
    <2>2. CASE main' = main
      BY <2>1, <2>2
    <2>3. CASE main # <<>> /\ main' = Tail(main)
      BY <2>3, MainTaken
    <2> QED BY <2>2, <2>3
  <1> HIDE DEF c, e
  <1>5. /\ control' \in Seq(ControlBlock) /\ Blocks(control') = Blocks(control) \cup {c}
        /\ Ordered(control', ControlNever)
    <2>1. control \in Seq(ControlBlock) /\ Blocks(control) \subseteq ControlBlock
          /\ Ordered(control, ControlNever)
      BY BlocksIn DEF PhoneInv, PhoneTypeOK, StopInv
    <2>2. \A b \in Blocks(control) : <<b.do, c.do>> \notin ControlNever
      <3>1. \A b \in Blocks(control) : b.do \in {"polling"} \cup Openings
        BY <1>2, <2>1 DEF Any, ControlBlock, ControlKinds
      <3> QED BY <1>3, <3>1 DEF ControlNever, Openings, Closings
    <2> QED BY <1>1, <1>3, <2>1, <2>2, Appended
  <1>6. /\ encoder' \in Seq(EncoderBlock) /\ Blocks(encoder') = Blocks(encoder) \cup {e}
        /\ Ordered(encoder', EncoderNever)
    <2>1. encoder \in Seq(EncoderBlock) /\ Ordered(encoder, EncoderNever)
      BY DEF PhoneInv, PhoneTypeOK, StopInv
    <2>2. \A b \in Blocks(encoder) : <<b.do, e.do>> \notin EncoderNever
      BY <1>2 DEF Any, EncoderNever
    <2> QED BY <1>1, <1>3, <2>1, <2>2, Appended
  <1>7. PhoneTypeOK'
    BY <1>1, <1>4, <1>5, <1>6 DEF PhoneInv, PhoneTypeOK, Gens
  <1>8. StartsInv'
    BY <1>1, <1>4 DEF PhoneInv, PhoneTypeOK, StartsInv, Gens, Generations, Nil
  <1>9. StoreInv'
    BY <1>1 DEF StoreInv
  <1>10. StopInv'
    <2>1. ~Any(control', Closings) /\ ~Any(main', {"stopped"}) /\ Any(encoder', Stops)
      BY <1>2, <1>3, <1>4, <1>5, <1>6 DEF Any, Closings, Stops
    <2> QED BY <1>1, <1>4, <1>5, <1>6, <2>1 DEF StopInv
  <1>11. ControlInv'
    <2>1. Any(control', {"cancel timer"})
      BY <1>3, <1>5 DEF Any
    <2>2. ASSUME NEW b \in Blocks(control')
          PROVE  /\ b.do \in Openings => b.gen = begun /\ begun # Nil /\ handle = Nil
                 /\ b.do = "polling" => handle # Nil /\ b.gen \in {NoSource, handle}
                 /\ b.do \notin {"last poll", "forget"}
      BY <1>2, <1>3, <1>5 DEF PhoneInv, ControlInv, Any, Closings, Openings
    <2> QED BY <1>1, <2>1, <2>2 DEF ControlInv
  <1>12. HandleInv'
    BY <1>1 DEF PhoneInv, HandleInv
  <1>13. EncoderInv'
    <2>1. Any(encoder', Stops) /\ Any(encoder', {"stop"})
      BY <1>3, <1>6 DEF Any, Stops
    <2>2. \A b \in Blocks(encoder') : b.do \in {"start", "configured"} =>
              b.gen \in 1 .. begun /\ b.gen # Nil
      <3>1. begun \in Nat
        BY Numbers DEF PhoneInv
      <3>2. \A b \in Blocks(encoder) :
              b.do \in {"start", "configured"} => b.gen \in 1 .. begun
        BY DEF PhoneInv, EncoderInv
      <3>3. \A n \in 1 .. begun : n # Nil
        BY <3>1 DEF Nil
      <3> QED BY <1>3, <1>6, <3>2, <3>3
    <2> QED BY <1>1, <2>1, <2>2 DEF EncoderInv
  <1>14. MainInv'
    <2>1. \A b \in Blocks(main') :
            /\ b.do = "start failed" => b.gen \in 1 .. begun /\ b.gen # Nil
            /\ b.do = "failed" => b.gen = begun /\ handle # Nil
      <3>1. begun \in Nat
        BY Numbers DEF PhoneInv
      <3>2. \A b \in Blocks(main) :
              /\ b.do = "start failed" => b.gen \in 1 .. begun
              /\ b.do = "failed" => b.gen = begun /\ handle # Nil
        BY <1>2 DEF PhoneInv, MainInv
      <3>3. \A n \in 1 .. begun : n # Nil
        BY <3>1 DEF Nil
      <3> QED BY <1>4, <3>2, <3>3
    <2> QED BY <1>1, <2>1 DEF MainInv
  <1>15. SessionInv'
    BY <1>1, <1>3, <1>5 DEF PhoneInv, SessionInv, IsOpen, Any
  <1> QED BY <1>1, <1>7, <1>8, <1>9, <1>10, <1>11, <1>12, <1>13, <1>14, <1>15 DEF PhoneInv

LEMMA UserKeeps ==
    ASSUME PhoneInv, UserStep
    PROVE  PhoneInv'
  <1>1. CASE PressStop
    <2>1. UNCHANGED <<presses, asking, foreground, controlVars, encoderVars, frameVars, sessions, main>>
      BY <1>1 DEF PressStop, userVars
    <2> QED BY <1>1, <2>1, StopKeeps DEF PressStop, PhoneInv, PhoneTypeOK
  <1>2. CASE EnterBackground
    <2>1. foreground' \in BOOLEAN
          /\ UNCHANGED <<presses, asking, controlVars, encoderVars, frameVars, sessions, main>>
      BY <1>2 DEF EnterBackground
    <2>2. CASE running
      BY <1>2, <2>1, <2>2, StopKeeps DEF EnterBackground, StopIfRunning
    <2>3. CASE ~running
      <3>1. UNCHANGED <<storeVars, captureGen, control, encoder>>
        BY <1>2, <2>3 DEF EnterBackground, StopIfRunning
      <3>2. UNCHANGED <<running, stopping, owner, begun, handle, timer, sets, encoding, compressor,
                        capturing, force, pipeline, delivering>>
        BY <2>1, <3>1 DEF storeVars, controlVars, encoderVars, frameVars
      <3>3. PhoneTypeOK'
        BY <2>1, <3>1, <3>2 DEF PhoneInv, PhoneTypeOK
      <3> QED BY <2>1, <3>1, <3>2, <3>3
              DEF PhoneInv, StartsInv, StoreInv, StopInv, ControlInv, HandleInv, EncoderInv,
                  MainInv, SessionInv, IsOpen
    <2> QED BY <2>2, <2>3
  <1> QED BY <1>1, <1>2, PressKeeps, AnswerKeeps, ForegroundKeeps DEF UserStep

LEMMA MainKeeps ==
    ASSUME PhoneInv, MainStep
    PROVE  PhoneInv'
  <1>1. CASE CaptureFailed
    <2>1. /\ main # <<>> /\ Head(main).do # "stopped" /\ main' = Tail(main)
          /\ UNCHANGED <<presses, asking, foreground, controlVars, encoderVars, frameVars, sessions>>
      BY <1>1 DEF CaptureFailed, At, userVars
    <2>2. foreground' \in BOOLEAN
      BY <2>1 DEF PhoneInv, PhoneTypeOK
    <2>3. CASE running
      BY <1>1, <2>1, <2>2, <2>3, StopKeeps DEF CaptureFailed, StopIfRunning
    <2>4. CASE ~running
      <3>1. UNCHANGED <<storeVars, captureGen, control, encoder>>
        BY <1>1, <2>4 DEF CaptureFailed, StopIfRunning
      <3> QED BY <2>1, <2>2, <3>1, MainPasses
    <2> QED BY <2>3, <2>4
  <1> QED BY <1>1, StartKeeps, StartFailedKeeps, StopDoneKeeps DEF MainStep

-----------------------------------------------------------------------------
(***************************************************************************)
(* The library's sessions.                                                 *)
(***************************************************************************)
LEMMA NewWorkers ==
    /\ NoPublisher \in Worker /\ NoPublisher.task = "none"
    /\ Closed \in Worker /\ Closed.task = "closed"
    /\ \A h \in Handles : WorkerInv(h, NoPublisher) /\ WorkerInv(h, Closed)
    /\ \A h \in Handles : Started(h) \in Worker /\ Started(h).task = "connecting"
    /\ \A h \in Handles : WorkerInv(h, Started(h))
  <1>1. \A sets_ \in Sources \cup {NoSource} :
          Started(sets_) = [task |-> "connecting", announced |-> sets_, frames |-> <<>>,
                            needsKeyframe |-> TRUE, gap |-> TRUE]
    BY DEF Started
  <1>2. <<>> \in Seq(Frame) /\ DOMAIN <<>> = {}
    OBVIOUS
  <1>3. \A sets_ \in Sources \cup {NoSource} : Started(sets_) \in Worker
    <2> SUFFICES ASSUME NEW sets_ \in Sources \cup {NoSource}
                 PROVE  [task |-> "connecting", announced |-> sets_, frames |-> <<>>,
                         needsKeyframe |-> TRUE, gap |-> TRUE] \in Worker
      BY <1>1
    <2> QED BY <1>2 DEF Worker, Tasks
  <1>4. /\ NoPublisher.task = "none" /\ NoPublisher.announced = NoSource
        /\ NoPublisher.frames = <<>> /\ NoPublisher.needsKeyframe = TRUE
        /\ NoPublisher \in Worker
    <2> DEFINE w == Started(NoSource)
    <2>1. w \in Worker /\ w.announced = NoSource /\ w.frames = <<>> /\ w.needsKeyframe = TRUE
      BY <1>1, <1>3
    <2>2. NoPublisher = [w EXCEPT !.task = "none"]
      BY DEF NoPublisher
    <2> HIDE DEF w
    <2> QED BY <2>1, <2>2 DEF Worker, Tasks
  <1>5. /\ Closed.task = "closed" /\ Closed.announced = NoSource
        /\ Closed.frames = <<>> /\ Closed.needsKeyframe = TRUE
        /\ Closed \in Worker
    BY <1>4 DEF Closed, Worker, Tasks
  <1>6. NoPublisher \in Worker /\ Closed \in Worker
    BY <1>4, <1>5
  <1>7. \A h \in Handles : WorkerInv(h, NoPublisher) /\ WorkerInv(h, Closed)
    BY <1>2, <1>4, <1>5 DEF WorkerInv
  <1>8. \A h \in Handles : Started(h).task = "connecting" /\ WorkerInv(h, Started(h))
    BY <1>1, <1>2, HandlesAssumption DEF WorkerInv
  <1> QED BY <1>3, <1>4, <1>5, <1>6, <1>7, <1>8, HandlesAssumption

\* One worker is replaced by another that is in order.
LEMMA OneWorker ==
    ASSUME PhoneInv, NEW h \in Handles, NEW w \in Worker, WorkerInv(h, w),
           sessions' = [sessions EXCEPT ![h] = w]
    PROVE  /\ sessions' \in [Handles -> Worker]
           /\ \A k \in Handles : WorkerInv(k, sessions'[k])
           /\ \A k \in Handles : k # h => sessions'[k] = sessions[k]
           /\ sessions'[h] = w
  <1>1. sessions \in [Handles -> Worker] /\ \A k \in Handles : WorkerInv(k, sessions[k])
    BY DEF PhoneInv, PhoneTypeOK
  <1> QED BY <1>1

LEMMA NoElement ==
    ASSUME NEW S, NEW q \in Seq(S), DOMAIN q = {}
    PROVE  q = <<>>
  OBVIOUS

\* Without a session there is nothing of a capture.
LEMMA NoCapture ==
    ASSUME PhoneInv, handle = Nil
    PROVE  /\ pipeline = <<>> /\ delivering = <<>> /\ DOMAIN <<>> = {}
           /\ encoding = Nil /\ compressor = Nil /\ timer = Nil /\ ~capturing
  <1>1. pipeline \in Seq(Picture) /\ delivering \in Seq([frame : Picture, handle : Gens])
    BY DEF PhoneInv, PhoneTypeOK
  <1>2. DOMAIN pipeline = {} /\ DOMAIN delivering = {}
    BY DEF PhoneInv, HandleInv
  <1>3. DOMAIN <<>> = {}
    OBVIOUS
  <1>4. encoding = Nil /\ compressor = Nil /\ timer = Nil /\ ~capturing
    BY DEF PhoneInv, HandleInv
  <1> QED BY <1>1, <1>2, <1>3, <1>4, NoElement

-----------------------------------------------------------------------------
(***************************************************************************)
(* The blocks of the control queue.                                        *)
(***************************************************************************)
LEMMA ControlHead ==
    ASSUME PhoneInv, control # <<>>
    PROVE  /\ Tail(control) \in Seq(ControlBlock) /\ Ordered(Tail(control), ControlNever)
           /\ Blocks(control) = Blocks(Tail(control)) \cup {Head(control)}
           /\ Head(control) \in ControlBlock
           /\ \A c \in Blocks(Tail(control)) :
                /\ c \in ControlBlock
                /\ Head(control).do \in Openings => c.do \notin Openings \cup {"polling"}
                /\ Head(control).do = "cancel timer" => c.do \in Closings
                /\ c.do # "polling"
           /\ Head(control).do \in Closings => Tail(control) = <<>>
  <1>1. control \in Seq(ControlBlock) /\ Ordered(control, ControlNever)
    BY DEF PhoneInv, PhoneTypeOK, StopInv
  <1>2. /\ Tail(control) \in Seq(ControlBlock) /\ Ordered(Tail(control), ControlNever)
        /\ Blocks(control) = Blocks(Tail(control)) \cup {Head(control)}
        /\ Head(control) \in ControlBlock
        /\ \A c \in Blocks(Tail(control)) : <<Head(control).do, c.do>> \notin ControlNever
    BY <1>1, Advanced
  <1> DEFINE h == Head(control)
             t == Tail(control)
  <1>3. h \in ControlBlock /\ Blocks(t) \subseteq ControlBlock
    BY <1>2, BlocksIn
  <1> HIDE DEF h, t
  <1>6. ASSUME NEW c \in Blocks(t)
        PROVE  /\ h.do \in Openings => c.do \notin Openings \cup {"polling"}
               /\ h.do = "cancel timer" => c.do \in Closings
               /\ c.do # "polling"
               /\ h.do \notin Closings
    <2>1. h.do \in ControlKinds /\ c.do \in ControlKinds
      BY <1>3 DEF ControlBlock
    <2>2. <<h.do, c.do>> \notin ControlNever
      BY <1>2 DEF h, t
    <2> QED BY <2>1, <2>2, ControlOrder
  <1>7. h.do \in Closings => t = <<>>
    <2>1. h.do \in Closings => Blocks(t) = {}
      BY <1>6
    <2> QED BY <1>1, <2>1, Emptied DEF h, t
  <1> QED BY <1>2, <1>3, <1>6, <1>7 DEF h, t

LEMMA ControlBecomes ==
    ASSUME PhoneInv, control # <<>>, NEW do,
           {Head(control).do, do} \subseteq Openings \/ {Head(control).do, do} \subseteq Closings,
           control' = Becomes(control, do)
    PROVE  /\ control' \in Seq(ControlBlock) /\ Ordered(control', ControlNever)
           /\ Blocks(control') = Blocks(Tail(control)) \cup {Block(do, Head(control).gen)}
  <1>1. control \in Seq(ControlBlock) /\ Ordered(control, ControlNever)
    BY DEF PhoneInv, PhoneTypeOK, StopInv
  <1>2. Head(control) \in ControlBlock
        /\ \A c \in Blocks(Tail(control)) : <<Head(control).do, c.do>> \notin ControlNever
    BY <1>1, Advanced
  <1>3. do \in ControlKinds /\ Block(do, Head(control).gen) \in ControlBlock
    BY <1>2 DEF Block, ControlBlock, ControlKinds
  <1>4. \A c \in Blocks(Tail(control)) : <<do, c.do>> \notin ControlNever
    BY <1>2, SamePlace DEF ControlBlock
  <1> QED BY <1>1, <1>3, <1>4, Replaced

\* The last poll and the forgetting of a session are alone on the queue.
LEMMA NotAlone ==
    ASSUME PhoneInv, control # <<>>, Head(control).do \notin {"last poll", "forget"}
    PROVE  \A b \in Blocks(control) : b.do \notin {"last poll", "forget"}
  <1> SUFFICES ASSUME NEW b \in Blocks(control), b.do \in {"last poll", "forget"}
               PROVE  FALSE
    OBVIOUS
  <1>1. control = <<b>>
    BY DEF PhoneInv, ControlInv
  <1> QED BY <1>1, HeadOfOne

\* A start at the head of the control queue.
LEMMA OpeningHead ==
    ASSUME PhoneInv, control # <<>>, Head(control).do \in Openings
    PROVE  /\ Head(control).gen = begun /\ handle = Nil /\ timer = Nil
           /\ \A b \in Blocks(Tail(control)) : b.do \in {"cancel timer", "finish"}
           /\ ~Any(main, {"stopped"})
           /\ \A b \in Blocks(main) : b.do = "start failed" => b.gen # owner
           /\ Any(control, {"cancel timer"}) <=> Any(Tail(control), {"cancel timer"})
           /\ Any(control, Closings) <=> Any(Tail(control), Closings)
           /\ begun \in Handles /\ begun # Nil
  <1> DEFINE h == Head(control)
             t == Tail(control)
  <1>1. /\ Blocks(control) = Blocks(t) \cup {h} /\ h \in ControlBlock
        /\ \A c \in Blocks(t) : c \in ControlBlock /\ c.do \notin Openings \cup {"polling"}
    BY ControlHead
  <1>2. h.do \in Openings /\ h.do \notin {"last poll", "forget", "finish", "cancel timer"}
    BY DEF Openings
  <1>3. \A b \in Blocks(control) : b.do \notin {"last poll", "forget"}
    BY <1>2, NotAlone
  <1>4. \A b \in Blocks(t) : b.do \in {"cancel timer", "finish"}
    BY <1>1, <1>3 DEF ControlBlock, ControlKinds, Closings, Openings
  <1>5. h.gen = begun /\ handle = Nil /\ timer = Nil
    BY <1>1, <1>2 DEF PhoneInv, ControlInv, HandleInv
  <1>6. ~Any(main, {"stopped"}) /\ \A b \in Blocks(main) : b.do = "start failed" => b.gen # owner
    BY DEF PhoneInv, StopInv, MainInv
  <1>7. /\ Any(control, {"cancel timer"}) <=> Any(t, {"cancel timer"})
        /\ Any(control, Closings) <=> Any(t, Closings)
    BY <1>1, <1>2 DEF Any, Closings
  <1>8. begun \in Handles /\ begun # Nil
    <2>1. begun # Nil
      BY <1>1, <1>2 DEF PhoneInv, ControlInv
    <2> QED BY <2>1, HandlesAssumption DEF PhoneInv, PhoneTypeOK, Gens
  <1> QED BY <1>4, <1>5, <1>6, <1>7, <1>8

\* A start that comes too late: it is dropped, and its session is closed if it has one.
LEMMA LateStartKeeps ==
    ASSUME PhoneInv, control # <<>>, Head(control).do \in {"start", "opened"},
           owner # Head(control).gen, control' = Tail(control),
           \/ Head(control).do = "start" /\ sessions' = sessions
           \/ sessions' = [sessions EXCEPT ![Head(control).gen] = Closed],
           UNCHANGED <<userVars, storeVars, controlVars, captureGen, encoderVars, frameVars,
                       main, encoder>>
    PROVE  PhoneInv'
  <1> DEFINE h == Head(control)
  <1>1. UNCHANGED <<foreground, presses, asking, running, stopping, owner, begun, handle, timer,
                    sets, captureGen, encoding, compressor, capturing, force, pipeline, delivering,
                    main, encoder>>
    BY DEF userVars, storeVars, controlVars, encoderVars, frameVars
  <1>2. h.do \in Openings /\ h.do # "hand over"
    BY DEF Openings
  <1>3. /\ h.gen = begun /\ handle = Nil /\ timer = Nil /\ begun \in Handles /\ begun # Nil
        /\ \A b \in Blocks(control') : b.do \in {"cancel timer", "finish"}
        /\ ~Any(main, {"stopped"})
        /\ \A b \in Blocks(main) : b.do = "start failed" => b.gen # owner
        /\ Any(control, {"cancel timer"}) <=> Any(control', {"cancel timer"})
        /\ Any(control, Closings) <=> Any(control', Closings)
    BY <1>2, OpeningHead
  <1>4. /\ control' \in Seq(ControlBlock) /\ Ordered(control', ControlNever)
        /\ Blocks(control) = Blocks(control') \cup {h} /\ h \in ControlBlock
    BY ControlHead
  <1>5. ~running /\ stopping
    BY <1>3 DEF PhoneInv, StoreInv, ControlInv
  <1>6. /\ sessions' \in [Handles -> Worker]
        /\ \A k \in Handles : WorkerInv(k, sessions'[k])
        /\ \A k \in Handles : sessions'[k].task # "closed" =>
                sessions[k].task # "closed" /\ (h.do = "opened" => k # begun)
    <2>1. CASE h.do = "start" /\ sessions' = sessions
      BY <2>1 DEF PhoneInv, PhoneTypeOK
    <2>2. CASE sessions' = [sessions EXCEPT ![h.gen] = Closed]
      <3>1. /\ sessions' \in [Handles -> Worker]
            /\ \A k \in Handles : WorkerInv(k, sessions'[k])
            /\ \A k \in Handles : k # begun => sessions'[k] = sessions[k]
            /\ sessions'[begun] = Closed
        BY <1>3, <2>2, OneWorker, NewWorkers
      <3> QED BY <3>1, NewWorkers
    <2> QED BY <2>1, <2>2
  <1> HIDE DEF h
  <1>7. PhoneTypeOK'
    BY <1>1, <1>4, <1>6 DEF PhoneInv, PhoneTypeOK
  <1>8. StopInv'
    BY <1>1, <1>3, <1>4 DEF PhoneInv, StopInv
  <1>9. ControlInv'
    <2>1. \A b \in Blocks(control') : b.do \notin Openings \cup {"polling", "last poll", "forget"}
      BY <1>3 DEF Openings
    <2>2. stopping /\ Any(control, Openings) => Any(control, {"cancel timer"})
      BY DEF PhoneInv, ControlInv
    <2>3. Any(control, Openings)
      BY <1>2, <1>4 DEF Any
    <2> QED BY <1>1, <1>3, <1>5, <2>1, <2>2, <2>3 DEF ControlInv
  <1>10. MainInv'
    BY <1>1, <1>3 DEF PhoneInv, MainInv
  <1>11. SessionInv'
    <2>1. ASSUME NEW k \in Handles, sessions'[k].task # "closed"
          PROVE  FALSE
      <3>1. sessions[k].task # "closed" /\ (h.do = "opened" => k # begun)
        BY <1>6, <2>1
      <3>2. k # handle
        BY <1>3, Named
      <3>3. PICK b \in Blocks(control) : b.do \in {"opened", "hand over"} /\ b.gen = k
        BY <3>1, <3>2 DEF PhoneInv, SessionInv, IsOpen
      <3>4. b = h
        BY <1>3, <1>4, <3>3
      <3> QED BY <1>2, <1>3, <3>1, <3>3, <3>4
    <2> QED BY <1>1, <1>3, <2>1 DEF SessionInv, IsOpen
  <1> QED BY <1>1, <1>6, <1>7, <1>8, <1>9, <1>10, <1>11
          DEF PhoneInv, StartsInv, StoreInv, HandleInv, EncoderInv

LEMMA OpenKeeps ==
    ASSUME PhoneInv, Open
    PROVE  PhoneInv'
  <1> DEFINE h == Head(control)
  <1>1. control # <<>> /\ h.do = "start" /\ h.do \in Openings
    BY DEF Open, At, Openings
  <1>2. /\ h.gen = begun /\ handle = Nil /\ timer = Nil /\ begun \in Handles /\ begun # Nil
        /\ \A b \in Blocks(Tail(control)) : b.do \in {"cancel timer", "finish"}
        /\ ~Any(main, {"stopped"})
        /\ \A b \in Blocks(main) : b.do = "start failed" => b.gen # owner
        /\ Any(control, {"cancel timer"}) <=> Any(Tail(control), {"cancel timer"})
        /\ Any(control, Closings) <=> Any(Tail(control), Closings)
    BY <1>1, OpeningHead
  <1>3. /\ Tail(control) \in Seq(ControlBlock) /\ Ordered(Tail(control), ControlNever)
        /\ Blocks(control) = Blocks(Tail(control)) \cup {h} /\ h \in ControlBlock
    BY <1>1, ControlHead
  <1>4. UNCHANGED <<foreground, presses, asking, running, stopping, owner, begun, handle, timer,
                    sets, captureGen, encoding, compressor, capturing, force, pipeline, delivering,
                    encoder>>
    BY DEF Open, userVars, storeVars, controlVars, encoderVars, frameVars
  <1>5. CASE owner # h.gen /\ control' = Tail(control) /\ UNCHANGED <<main, sessions>>
    <2>1. UNCHANGED <<userVars, storeVars, controlVars, captureGen, encoderVars, frameVars,
                      main, encoder>>
      BY <1>5 DEF Open
    <2> QED BY <1>1, <1>5, <2>1, LateStartKeeps
  <1>6. CASE owner = h.gen /\ OpenSession(h.gen) /\ control' = Becomes(control, "opened")
             /\ UNCHANGED main
    <2> DEFINE n == Block("opened", h.gen)
    <2>1. n \in ControlBlock /\ n.do = "opened" /\ n.gen = begun
      BY <1>2, <1>3 DEF Block, ControlBlock, ControlKinds, Openings
    <2>2. /\ control' \in Seq(ControlBlock) /\ Ordered(control', ControlNever)
          /\ Blocks(control') = Blocks(Tail(control)) \cup {n}
      BY <1>1, <1>6, ControlBecomes DEF Openings
    <2> HIDE DEF n, h
    <2>3. /\ sessions' \in [Handles -> Worker]
          /\ \A k \in Handles : WorkerInv(k, sessions'[k])
          /\ \A k \in Handles : k # begun => sessions'[k] = sessions[k]
          /\ sessions'[begun].task = "none"
      <3>1. sessions' = [sessions EXCEPT ![begun] = NoPublisher]
        BY <1>2, <1>6 DEF OpenSession
      <3> QED BY <1>2, <3>1, OneWorker, NewWorkers
    <2>4. PhoneTypeOK'
      BY <1>4, <1>6, <2>2, <2>3 DEF PhoneInv, PhoneTypeOK
    <2>5. Any(control', {"cancel timer"}) <=> Any(control, {"cancel timer"})
      BY <1>2, <2>1, <2>2 DEF Any
    <2>6. Any(control', Closings) <=> Any(control, Closings)
      BY <1>2, <2>1, <2>2 DEF Any, Closings
    <2>7. StopInv'
      BY <1>2, <1>4, <1>6, <2>2, <2>6 DEF PhoneInv, StopInv
    <2>8. running /\ ~stopping
      BY <1>2, <1>6 DEF PhoneInv, StoreInv
    <2>9. ControlInv'
      <3>1. \A b \in Blocks(control') :
              b.do \notin {"polling", "last poll", "forget"} /\ (b.do \in Openings => b = n)
        BY <1>2, <2>1, <2>2 DEF Openings
      <3>2. ~Any(control', {"cancel timer"})
        BY <2>5, <2>8 DEF PhoneInv, ControlInv
      <3> QED BY <1>2, <1>4, <2>1, <2>8, <3>1, <3>2 DEF ControlInv
    <2>10. MainInv'
      BY <1>2, <1>4, <1>6 DEF PhoneInv, MainInv
    <2>11. SessionInv'
      <3>1. \A k \in Handles : sessions[k].task = "closed"
        <4> SUFFICES ASSUME NEW k \in Handles, sessions[k].task # "closed"
                     PROVE  FALSE
          OBVIOUS
        <4>1. k # handle
          BY <1>2, Named
        <4>2. PICK b \in Blocks(control) : b.do \in {"opened", "hand over"} /\ b.gen = k
          BY <4>1 DEF PhoneInv, SessionInv, IsOpen
        <4> QED BY <1>1, <1>2, <1>3, <4>2
      <3>2. \A b \in Blocks(control') : b.do \in {"opened", "hand over"} => b = n
        BY <1>2, <2>1, <2>2
      <3>3. n \in Blocks(control')
        BY <2>2
      <3> QED BY <1>2, <1>4, <2>1, <2>3, <3>1, <3>2, <3>3 DEF SessionInv, IsOpen
    <2> QED BY <1>4, <1>6, <2>3, <2>4, <2>7, <2>9, <2>10, <2>11
            DEF PhoneInv, StartsInv, StoreInv, HandleInv, EncoderInv
  <1>7. CASE owner = h.gen /\ control' = Tail(control) /\ UNCHANGED sessions
             /\ main' = Append(main, Block("start failed", h.gen))
    <2> DEFINE n == Block("start failed", h.gen)
    <2>1. n \in MainBlock /\ n.do = "start failed" /\ n.gen = begun
      BY <1>2 DEF PhoneInv, PhoneTypeOK, Block, MainBlock, MainKinds
    <2>2. main \in Seq(MainBlock) /\ \A c \in Blocks(main) : <<c.do, "start failed">> \notin MainNever
      BY DEF PhoneInv, PhoneTypeOK, MainNever
    <2> HIDE DEF n
    <2>3. /\ main' \in Seq(MainBlock) /\ Ordered(main', MainNever)
          /\ Blocks(main') = Blocks(main) \cup {n} /\ Waiting(main') = Waiting(main)
      <3>1. Ordered(main, MainNever) /\ main' = Append(main, n)
        BY <1>7 DEF PhoneInv, StopInv, n
      <3> QED BY <2>1, <2>2, <3>1, Appended, WaitingAppended
    <2>4. running /\ ~stopping
      BY <1>2, <1>7 DEF PhoneInv, StoreInv
    <2>5. control' = <<>>
      <3>1. ~Any(control, {"cancel timer"}) /\ ~Any(control, Closings)
        BY <2>4 DEF PhoneInv, ControlInv, StopInv
      <3>2. Blocks(Tail(control)) = {}
        BY <1>2, <3>1 DEF Any, Closings
      <3> QED BY <1>1, <1>3, <1>7, <3>2, BlocksIn
    <2>6. PhoneTypeOK'
      BY <1>3, <1>4, <1>7, <2>3 DEF PhoneInv, PhoneTypeOK
    <2>7. StartsInv'
      BY <1>4, <2>3 DEF PhoneInv, StartsInv
    <2>8. ~Any(main', {"stopped"}) /\ ~Any(main, {"stopped"})
      BY <1>2, <2>1, <2>3 DEF Any
    <2>9. StopInv'
      BY <1>2, <1>3, <1>4, <1>7, <2>3, <2>8 DEF PhoneInv, StopInv
    <2>10. ControlInv'
      BY <1>4, <2>4, <2>5, NoBlocks DEF ControlInv, Any
    <2>11. MainInv'
      <3>1. begun \in Nat
        BY Numbers DEF PhoneInv
      <3>2. begun \in 1 .. begun
        BY <1>2, <3>1, Named
      <3>3. \A b \in Blocks(main) :
              /\ b.do = "start failed" => b.gen \in 1 .. begun
              /\ b.do = "failed" => b.gen = begun /\ handle # Nil
        BY <2>8 DEF PhoneInv, MainInv
      <3> QED BY <1>2, <1>4, <2>1, <2>3, <2>5, <3>2, <3>3 DEF MainInv
    <2>12. SessionInv'
      <3>1. \A b \in Blocks(control) : b.do \notin {"opened", "hand over"}
        BY <1>1, <1>2, <1>3
      <3> QED BY <1>2, <1>4, <1>7, <2>5, <3>1, NoBlocks DEF PhoneInv, SessionInv, IsOpen
    <2> QED BY <1>4, <1>7, <2>6, <2>7, <2>9, <2>10, <2>11, <2>12
            DEF PhoneInv, StoreInv, HandleInv, EncoderInv
  <1> QED BY <1>5, <1>6, <1>7 DEF Open

LEMMA OpenedKeeps ==
    ASSUME PhoneInv, Opened
    PROVE  PhoneInv'
  <1> DEFINE h == Head(control)
  <1>1. control # <<>> /\ h.do = "opened" /\ h.do \in Openings
    BY DEF Opened, At, Openings
  <1>2. /\ h.gen = begun /\ handle = Nil /\ timer = Nil /\ begun \in Handles /\ begun # Nil
        /\ \A b \in Blocks(Tail(control)) : b.do \in {"cancel timer", "finish"}
        /\ ~Any(main, {"stopped"})
        /\ \A b \in Blocks(main) : b.do = "start failed" => b.gen # owner
    BY <1>1, OpeningHead
  <1>3. Blocks(control) = Blocks(Tail(control)) \cup {h} /\ h \in ControlBlock
    BY <1>1, ControlHead
  <1>4. CASE owner # h.gen
    <2>1. control' = Tail(control) /\ sessions' = [sessions EXCEPT ![h.gen] = Closed]
      BY <1>4 DEF Opened, CloseSession
    <2>2. UNCHANGED <<userVars, storeVars, controlVars, captureGen, encoderVars, frameVars,
                      main, encoder>>
      BY DEF Opened
    <2> QED BY <1>1, <1>4, <2>1, <2>2, LateStartKeeps
  <1>5. CASE owner = h.gen
    <2> DEFINE n == Block("hand over", h.gen)
    <2>1. n \in ControlBlock /\ n.do = "hand over" /\ n.gen = begun
      BY <1>2, <1>3 DEF Block, ControlBlock, ControlKinds, Openings
    <2>2. /\ control' \in Seq(ControlBlock) /\ Ordered(control', ControlNever)
          /\ Blocks(control') = Blocks(Tail(control)) \cup {n}
      <3>1. control' = Becomes(control, "hand over")
        BY <1>5 DEF Opened
      <3> QED BY <1>1, <3>1, ControlBecomes DEF Openings
    <2>3. UNCHANGED <<foreground, presses, asking, running, stopping, owner, begun, handle, timer,
                      sets, captureGen, encoding, compressor, capturing, force, pipeline, delivering,
                      main, encoder, sessions>>
      BY <1>5 DEF Opened, userVars, storeVars, controlVars, encoderVars, frameVars
    <2> HIDE DEF n, h
    <2>4. PhoneTypeOK'
      BY <2>2, <2>3 DEF PhoneInv, PhoneTypeOK
    <2>5. Any(control', {"cancel timer"}) <=> Any(control, {"cancel timer"})
      BY <1>1, <1>2, <1>3, <2>1, <2>2 DEF Any
    <2>6. Any(control', Closings) <=> Any(control, Closings)
      BY <1>1, <1>2, <1>3, <2>1, <2>2 DEF Any, Closings
    <2>7. StopInv'
      BY <1>2, <2>2, <2>3, <2>6 DEF PhoneInv, StopInv
    <2>8. running /\ ~stopping
      BY <1>2, <1>5 DEF PhoneInv, StoreInv
    <2>9. ControlInv'
      <3>1. \A b \in Blocks(control') :
              b.do \notin {"polling", "last poll", "forget"} /\ (b.do \in Openings => b = n)
        BY <1>2, <2>1, <2>2 DEF Openings
      <3>2. ~Any(control', {"cancel timer"})
        BY <2>5, <2>8 DEF PhoneInv, ControlInv
      <3> QED BY <1>2, <2>1, <2>3, <2>8, <3>1, <3>2 DEF ControlInv
    <2>10. MainInv'
      BY <1>2, <2>3 DEF PhoneInv, MainInv
    <2>11. SessionInv'
      <3>1. \A b \in Blocks(control) : b.do \in {"opened", "hand over"} <=> b = h
        BY <1>1, <1>2, <1>3
      <3>2. \A b \in Blocks(control') : b.do \in {"opened", "hand over"} <=> b = n
        BY <1>2, <2>1, <2>2
      <3>3. n \in Blocks(control') /\ h \in Blocks(control)
        BY <1>3, <2>2
      <3>4. IsOpen(begun) /\ \A k \in Handles : IsOpen(k) => k = begun
        BY <1>2, <3>1, <3>3, Named DEF PhoneInv, SessionInv
      <3> QED BY <1>2, <2>1, <2>3, <3>2, <3>3, <3>4 DEF SessionInv, IsOpen
    <2> QED BY <2>3, <2>4, <2>7, <2>9, <2>10, <2>11
            DEF PhoneInv, StartsInv, StoreInv, HandleInv, EncoderInv
  <1> QED BY <1>4, <1>5

LEMMA HandOverKeeps ==
    ASSUME PhoneInv, HandOver
    PROVE  PhoneInv'
  <1> DEFINE h == Head(control)
             n == Block("start", h.gen)
  <1>1. control # <<>> /\ h.do = "hand over" /\ h.do \in Openings
    BY DEF HandOver, At, Openings
  <1>2. /\ h.gen = begun /\ handle = Nil /\ timer = Nil /\ begun \in Handles /\ begun # Nil
        /\ \A b \in Blocks(Tail(control)) : b.do \in {"cancel timer", "finish"}
        /\ ~Any(main, {"stopped"})
        /\ \A b \in Blocks(main) : b.do = "start failed" => b.gen # owner
        /\ Any(control, {"cancel timer"}) <=> Any(Tail(control), {"cancel timer"})
        /\ Any(control, Closings) <=> Any(Tail(control), Closings)
    BY <1>1, OpeningHead
  <1>3. /\ Tail(control) \in Seq(ControlBlock) /\ Ordered(Tail(control), ControlNever)
        /\ Blocks(control) = Blocks(Tail(control)) \cup {h} /\ h \in ControlBlock
    BY <1>1, ControlHead
  <1>4. /\ UNCHANGED <<foreground, presses, asking, running, stopping, owner, begun, encoding,
                       compressor, capturing, force, pipeline, delivering, main, sessions>>
        /\ handle' = begun /\ sets' = NoSource /\ timer' = begun /\ captureGen' = begun
        /\ encoder' = Append(encoder, n) /\ control' = Tail(control)
    BY <1>2 DEF HandOver, userVars, storeVars, encoderVars, frameVars
  <1>5. n \in EncoderBlock /\ n.do = "start" /\ n.gen = begun
    BY <1>2 DEF PhoneInv, PhoneTypeOK, Block, EncoderBlock, EncoderKinds
  <1> HIDE DEF n, h
  <1>6. /\ encoder' \in Seq(EncoderBlock) /\ Ordered(encoder', EncoderNever)
        /\ Blocks(encoder') = Blocks(encoder) \cup {n}
    <2>1. encoder \in Seq(EncoderBlock) /\ Ordered(encoder, EncoderNever)
      BY DEF PhoneInv, PhoneTypeOK, StopInv
    <2>2. \A b \in Blocks(encoder) : <<b.do, n.do>> \notin EncoderNever
      BY <1>5 DEF EncoderNever, Stops
    <2> QED BY <1>4, <1>5, <2>1, <2>2, Appended
  <1>7. /\ Any(encoder', Stops) <=> Any(encoder, Stops)
        /\ Any(encoder', {"stop"}) <=> Any(encoder, {"stop"})
    BY <1>5, <1>6 DEF Any, Stops
  <1>8. PhoneTypeOK'
    BY <1>3, <1>4, <1>6 DEF PhoneInv, PhoneTypeOK, Gens, Sets
  <1>9. StopInv'
    BY <1>2, <1>3, <1>4, <1>6, <1>7 DEF PhoneInv, StopInv
  <1>10. running \/ stopping
    BY <1>1 DEF PhoneInv, ControlInv
  <1>11. stopping <=> Any(control, {"cancel timer"})
    <2>1. Any(control, Openings)
      BY <1>1, <1>3 DEF Any
    <2> QED BY <2>1 DEF PhoneInv, ControlInv
  <1>12. ControlInv'
    <2>1. \A b \in Blocks(control') : b.do \notin Openings \cup {"polling", "last poll", "forget"}
      BY <1>2, <1>4 DEF Openings
    <2> QED BY <1>2, <1>4, <1>10, <1>11, <2>1 DEF ControlInv
  <1>13. /\ pipeline = <<>> /\ delivering = <<>> /\ DOMAIN <<>> = {}
         /\ encoding = Nil /\ compressor = Nil /\ ~capturing
    BY <1>2, NoCapture
  <1>14. HandleInv'
    BY <1>2, <1>4, <1>10, <1>13 DEF HandleInv
  <1>15. EncoderInv'
    <2>1. begun \in 1 .. begun
      BY <1>2, Named, Numbers DEF PhoneInv
    <2>2. \A b \in Blocks(encoder) : b.do \in {"start", "configured"} =>
            b.gen \in 1 .. begun /\ b.gen # owner
      <3>1. \A k \in 1 .. begun : k # Nil
        BY Numbers DEF PhoneInv
      <3> QED BY <1>2, <3>1 DEF PhoneInv, EncoderInv
    <2> QED BY <1>4, <1>5, <1>6, <1>13, <2>1, <2>2 DEF EncoderInv
  <1>16. MainInv'
    BY <1>2, <1>4 DEF PhoneInv, MainInv
  <1>17. SessionInv'
    <2>1. \A b \in Blocks(control) : b.do \in {"opened", "hand over"} <=> b = h
      BY <1>1, <1>2, <1>3
    <2>2. \A b \in Blocks(control') : b.do \notin {"opened", "hand over", "forget"}
      BY <1>2, <1>4
    <2>3. h \in Blocks(control)
      BY <1>3
    <2>4. IsOpen(begun) /\ \A k \in Handles : IsOpen(k) => k = begun
      BY <1>2, <2>1, <2>3, Named DEF PhoneInv, SessionInv
    <2> QED BY <1>4, <2>2, <2>4 DEF SessionInv, IsOpen, Any
  <1> QED BY <1>4, <1>8, <1>9, <1>12, <1>14, <1>15, <1>16, <1>17
          DEF PhoneInv, StartsInv, StoreInv

LEMMA CancelTimerKeeps ==
    ASSUME PhoneInv, CancelTimer
    PROVE  PhoneInv'
  <1> DEFINE h == Head(control)
  <1>1. control # <<>> /\ h.do = "cancel timer" /\ control' = Tail(control)
    BY DEF CancelTimer, At
  <1>2. /\ control' \in Seq(ControlBlock) /\ Ordered(control', ControlNever)
        /\ Blocks(control) = Blocks(control') \cup {h}
        /\ \A c \in Blocks(control') : c.do \in Closings
    BY <1>1, ControlHead
  <1>3. \A b \in Blocks(control) : b.do \notin {"last poll", "forget"}
    BY <1>1, NotAlone
  <1>4. /\ UNCHANGED <<foreground, presses, asking, running, stopping, owner, begun, handle, sets,
                       captureGen, encoding, compressor, capturing, force, pipeline, delivering, main,
                       encoder, sessions>>
        /\ timer' = Nil
    BY DEF CancelTimer, userVars, storeVars, encoderVars, frameVars
  <1> HIDE DEF h
  <1>5. stopping /\ ~running /\ ~Any(main, {"stopped"})
    BY <1>1, <1>2 DEF PhoneInv, ControlInv, StoreInv, StopInv, Any
  <1>6. \A b \in Blocks(control') : b.do = "finish"
    BY <1>2, <1>3 DEF Closings
  <1>7. Any(control, Closings) <=> Any(control', Closings)
    BY <1>1, <1>2 DEF Any, Closings
  <1>8. PhoneTypeOK'
    BY <1>2, <1>4 DEF PhoneInv, PhoneTypeOK, Gens
  <1>9. StopInv'
    BY <1>2, <1>4, <1>5, <1>7 DEF PhoneInv, StopInv
  <1>10. ControlInv'
    BY <1>4, <1>5, <1>6 DEF ControlInv, Any, Openings
  <1>11. HandleInv'
    BY <1>4 DEF PhoneInv, HandleInv
  <1>12. MainInv'
    BY <1>1, <1>4 DEF PhoneInv, MainInv
  <1>13. SessionInv'
    BY <1>1, <1>2, <1>3, <1>4, <1>6 DEF PhoneInv, SessionInv, IsOpen, Any
  <1> QED BY <1>4, <1>8, <1>9, <1>10, <1>11, <1>12, <1>13
          DEF PhoneInv, StartsInv, StoreInv, EncoderInv

LEMMA PollKeeps ==
    ASSUME PhoneInv, Poll
    PROVE  PhoneInv'
  <1> DEFINE n == Block("polling", sets)
  <1>1. /\ UNCHANGED <<foreground, presses, asking, running, stopping, owner, begun, handle, timer,
                       sets, captureGen, encoding, compressor, capturing, force, pipeline, delivering,
                       main, encoder, sessions>>
        /\ timer # Nil /\ owner = timer /\ handle # Nil
        /\ control' = <<n>> \o control
    BY DEF Poll, userVars, storeVars, controlVars, encoderVars, frameVars
  <1>2. n \in ControlBlock /\ n.do = "polling" /\ n.gen \in {NoSource, handle}
    BY <1>1 DEF PhoneInv, PhoneTypeOK, HandleInv, Block, ControlBlock, ControlKinds
  <1>3. running /\ ~stopping /\ ~Any(main, {"stopped"}) /\ ~Any(control, Closings)
        /\ ~Any(control, {"cancel timer"})
    BY <1>1 DEF PhoneInv, StoreInv, StopInv, ControlInv
  <1>4. \A c \in Blocks(control) : c \in ControlBlock /\ c.do # "polling"
    <2>1. CASE control = <<>>
      BY <2>1, NoBlocks
    <2>2. CASE control # <<>>
      <3>1. Head(control).do # "polling"
        BY <2>2 DEF Poll, Underway, At
      <3> QED BY <2>2, <3>1, ControlHead
    <2> QED BY <2>1, <2>2
  <1> HIDE DEF n
  <1>5. /\ control' \in Seq(ControlBlock) /\ Ordered(control', ControlNever)
        /\ Blocks(control') = Blocks(control) \cup {n}
    <2>1. control \in Seq(ControlBlock) /\ Ordered(control, ControlNever)
      BY DEF PhoneInv, PhoneTypeOK, StopInv
    <2>2. \A c \in Blocks(control) : <<n.do, c.do>> \notin ControlNever
      BY <1>2, <1>4 DEF ControlNever, Closings
    <2> QED BY <1>1, <1>2, <2>1, <2>2, Prepended
  <1>6. ~Any(control', Closings) /\ ~Any(control', {"cancel timer"})
    BY <1>2, <1>3, <1>5 DEF Any, Closings
  <1>7. PhoneTypeOK'
    BY <1>1, <1>5 DEF PhoneInv, PhoneTypeOK
  <1>8. StopInv'
    BY <1>1, <1>3, <1>5, <1>6 DEF PhoneInv, StopInv
  <1>9. ControlInv'
    <2>1. \A b \in Blocks(control') : b.do \notin {"last poll", "forget"}
      BY <1>6 DEF Any, Closings
    <2>2. \A b \in Blocks(control) : b.do \in Openings => b.gen = begun /\ begun # Nil /\ handle = Nil
      BY DEF PhoneInv, ControlInv
    <2>3. n.do \notin Openings
      BY <1>2 DEF Openings
    <2> QED BY <1>1, <1>2, <1>3, <1>4, <1>5, <1>6, <2>1, <2>2, <2>3 DEF ControlInv
  <1>10. MainInv'
    BY <1>1 DEF PhoneInv, MainInv
  <1>11. SessionInv'
    BY <1>1, <1>2, <1>5 DEF PhoneInv, SessionInv, IsOpen, Any
  <1> QED BY <1>1, <1>7, <1>8, <1>9, <1>10, <1>11
          DEF PhoneInv, StartsInv, StoreInv, HandleInv, EncoderInv

LEMMA PollEndsKeeps ==
    ASSUME PhoneInv, PollEnds
    PROVE  PhoneInv'
  <1> DEFINE h == Head(control)
  <1>1. control # <<>> /\ h.do = "polling" /\ control' = Tail(control)
    BY DEF PollEnds, At
  <1>2. /\ control' \in Seq(ControlBlock) /\ Ordered(control', ControlNever)
        /\ Blocks(control) = Blocks(control') \cup {h}
        /\ \A c \in Blocks(control') : c.do # "polling"
    BY <1>1, ControlHead
  <1>3. \A b \in Blocks(control) : b.do \notin {"last poll", "forget"}
    BY <1>1, NotAlone
  <1>4. UNCHANGED <<foreground, presses, asking, running, stopping, owner, begun, handle, timer, sets,
                    captureGen, encoding, compressor, capturing, force, pipeline, delivering, main,
                    encoder>>
    BY DEF PollEnds, userVars, storeVars, controlVars, encoderVars, frameVars
  <1>5. handle # Nil /\ h.gen \in {NoSource, handle}
    BY <1>1, <1>2 DEF PhoneInv, ControlInv
  <1>6. handle \in Handles /\ IsOpen(handle)
    <2>1. ~Any(control, {"forget"})
      BY <1>3 DEF Any
    <2> QED BY <1>5, <2>1, HandlesAssumption DEF PhoneInv, PhoneTypeOK, SessionInv, Gens
  <1>7. ~Any(main, {"stopped"})
    BY <1>5 DEF PhoneInv, StopInv
  <1>8. /\ sessions' \in [Handles -> Worker]
        /\ \A k \in Handles : WorkerInv(k, sessions'[k])
        /\ \A k \in Handles : sessions'[k].task = "closed" <=> sessions[k].task = "closed"
    <2>1. CASE sessions' = sessions
      BY <2>1 DEF PhoneInv, PhoneTypeOK
    <2>2. ASSUME NEW grant \in BOOLEAN,
                 PollAnswered(handle, grant /\ h.gen # NoSource, h.gen)
          PROVE  /\ sessions' \in [Handles -> Worker]
                 /\ \A k \in Handles : WorkerInv(k, sessions'[k])
                 /\ \A k \in Handles : sessions'[k].task = "closed" <=> sessions[k].task = "closed"
      <3> DEFINE w == Reconciled(sessions[handle], grant /\ h.gen # NoSource, h.gen)
      <3>1. sessions' = [sessions EXCEPT ![handle] = w]
        BY <2>2 DEF PollAnswered
      <3>2. w \in {NoPublisher, Started(handle), sessions[handle]}
        BY <1>5 DEF Reconciled
      <3>3. /\ w \in Worker /\ WorkerInv(handle, w) /\ w.task # "closed"
        BY <1>6, <3>2, NewWorkers DEF PhoneInv, PhoneTypeOK, IsOpen
      <3> HIDE DEF w
      <3> QED BY <1>6, <3>1, <3>3, OneWorker DEF IsOpen
    <2> QED BY <2>1, <2>2 DEF PollEnds
  <1> HIDE DEF h
  <1>9. /\ Any(control, Closings) <=> Any(control', Closings)
        /\ Any(control, Openings) <=> Any(control', Openings)
        /\ Any(control, {"cancel timer"}) <=> Any(control', {"cancel timer"})
    BY <1>1, <1>2 DEF Any, Closings, Openings
  <1>10. PhoneTypeOK'
    BY <1>2, <1>4, <1>8 DEF PhoneInv, PhoneTypeOK
  <1>11. StopInv'
    BY <1>2, <1>4, <1>7, <1>9 DEF PhoneInv, StopInv
  <1>12. ControlInv'
    <2>1. running \/ stopping
      BY <1>1 DEF PhoneInv, ControlInv
    <2>2. \A b \in Blocks(control') :
            /\ b.do \in Openings => b.gen = begun /\ begun # Nil /\ handle = Nil
            /\ b.do \notin {"polling", "last poll", "forget"}
      BY <1>2, <1>3 DEF PhoneInv, ControlInv
    <2>3. /\ Any(control, {"cancel timer"}) => stopping
          /\ stopping /\ (timer # Nil \/ Any(control, Openings)) => Any(control, {"cancel timer"})
      BY DEF PhoneInv, ControlInv
    <2> QED BY <1>4, <1>9, <2>1, <2>2, <2>3 DEF ControlInv
  <1>13. MainInv'
    BY <1>4, <1>5 DEF PhoneInv, MainInv
  <1>14. SessionInv'
    <2>1. \A b \in Blocks(control) : b.do \in {"opened", "hand over"} => FALSE
      BY <1>5 DEF PhoneInv, ControlInv, Openings
    <2>2. \A k \in Handles : sessions'[k].task # "closed" => k = handle
      BY <1>8, <2>1 DEF PhoneInv, SessionInv, IsOpen
    <2>3. \A b \in Blocks(control') : b.do \notin {"opened", "hand over", "forget"}
      BY <1>2, <1>3, <2>1
    <2> QED BY <1>4, <1>6, <1>8, <2>2, <2>3 DEF SessionInv, IsOpen, Any
  <1> QED BY <1>4, <1>8, <1>10, <1>11, <1>12, <1>13, <1>14
          DEF PhoneInv, StartsInv, StoreInv, HandleInv, EncoderInv

\* The end of a stop on the control queue is all that is there.
LEMMA ClosingHead ==
    ASSUME PhoneInv, control # <<>>, Head(control).do \in Closings
    PROVE  /\ control = <<Head(control)>> /\ Blocks(control) = {Head(control)}
           /\ Tail(control) = <<>> /\ Head(control) \in ControlBlock
           /\ stopping /\ ~running /\ owner = Nil /\ timer = Nil
           /\ ~Any(encoder, Stops) /\ ~Any(main, {"stopped"})
           /\ ~capturing /\ encoding = Nil /\ compressor = Nil
           /\ pipeline = <<>> /\ delivering = <<>>
  <1>1. Tail(control) = <<>> /\ Head(control) \in ControlBlock
        /\ Blocks(control) = Blocks(Tail(control)) \cup {Head(control)}
    BY ControlHead
  <1>2. Blocks(control) = {Head(control)}
    BY <1>1, NoBlocks
  <1>3. control = <<Head(control)>>
    <2>1. control \in Seq(ControlBlock)
      BY DEF PhoneInv, PhoneTypeOK
    <2> QED BY <1>1, <2>1, OneElement
  <1>4. Any(control, Closings) /\ ~Any(control, {"cancel timer"})
    BY <1>2 DEF Any, Closings
  <1>5. stopping /\ ~running /\ owner = Nil /\ ~Any(encoder, Stops) /\ ~Any(main, {"stopped"})
    BY <1>4 DEF PhoneInv, StopInv, StoreInv
  <1>6. timer = Nil
    BY <1>4, <1>5 DEF PhoneInv, ControlInv
  <1>7. ~Any(encoder, {"stop"})
    BY <1>5 DEF Any, Stops
  <1>8. ~capturing /\ encoding = Nil /\ compressor = Nil /\ pipeline = <<>> /\ delivering = <<>>
    BY <1>5, <1>7 DEF PhoneInv, EncoderInv
  <1> QED BY <1>1, <1>2, <1>3, <1>5, <1>6, <1>8

\* The next step of the end of a stop.
LEMMA ClosingSteps ==
    ASSUME PhoneInv, control # <<>>, Head(control).do \in Closings,
           NEW do \in {"last poll", "forget"}, control' = Becomes(control, do),
           handle # Nil, NEW w \in Worker, WorkerInv(handle, w),
           w.task = "closed" <=> do = "forget",
           sessions' = [sessions EXCEPT ![handle] = w],
           UNCHANGED <<userVars, storeVars, controlVars, captureGen, encoderVars, frameVars,
                       main, encoder>>
    PROVE  PhoneInv'
  <1> DEFINE n == Block(do, Head(control).gen)
  <1>1. UNCHANGED <<foreground, presses, asking, running, stopping, owner, begun, handle, timer,
                    sets, captureGen, encoding, compressor, capturing, force, pipeline, delivering,
                    main, encoder>>
    BY DEF userVars, storeVars, controlVars, encoderVars, frameVars
  <1>2. /\ control = <<Head(control)>> /\ Blocks(control) = {Head(control)}
        /\ Tail(control) = <<>> /\ Head(control) \in ControlBlock
        /\ stopping /\ ~running /\ owner = Nil /\ timer = Nil
        /\ ~Any(encoder, Stops) /\ ~Any(main, {"stopped"})
    BY ClosingHead
  <1>3. n \in ControlBlock /\ n.do = do /\ do \in Closings
    BY <1>2 DEF Block, ControlBlock, ControlKinds, Closings
  <1>4. /\ control' \in Seq(ControlBlock) /\ Ordered(control', ControlNever)
        /\ Blocks(control') = {n}
    <2>1. {Head(control).do, do} \subseteq Closings
      BY <1>3
    <2> HIDE DEF n
    <2>2. /\ control' \in Seq(ControlBlock) /\ Ordered(control', ControlNever)
          /\ Blocks(control') = Blocks(Tail(control)) \cup {Block(do, Head(control).gen)}
      BY <2>1, ControlBecomes
    <2> QED BY <1>2, <2>2, NoBlocks DEF n
  <1>5. control' = <<n>>
    <2>1. control' = <<n>> \o <<>>
      BY <1>2 DEF Becomes
    <2> HIDE DEF n
    <2> QED BY <2>1, OneBlock
  <1> HIDE DEF n
  <1>6. Any(control', Closings) /\ Any(control, Closings)
    BY <1>2, <1>3, <1>4 DEF Any
  <1>7. handle \in Handles
    BY HandlesAssumption DEF PhoneInv, PhoneTypeOK, Gens
  <1>8. /\ sessions' \in [Handles -> Worker]
        /\ \A k \in Handles : WorkerInv(k, sessions'[k])
        /\ \A k \in Handles : k # handle => sessions'[k] = sessions[k]
        /\ sessions'[handle] = w
    BY <1>7, OneWorker
  <1>9. PhoneTypeOK'
    BY <1>1, <1>4, <1>8 DEF PhoneInv, PhoneTypeOK
  <1>10. StopInv'
    BY <1>1, <1>2, <1>4, <1>6 DEF PhoneInv, StopInv
  <1>11. ControlInv'
    BY <1>1, <1>2, <1>3, <1>4, <1>5 DEF ControlInv, Any, Openings
  <1>12. MainInv'
    BY <1>1 DEF PhoneInv, MainInv
  <1>13. SessionInv'
    <2>1. \A b \in Blocks(control) : b.do \notin {"opened", "hand over"}
      BY <1>2 DEF Closings
    <2>2. \A k \in Handles : sessions'[k].task # "closed" => k = handle
      BY <1>8, <2>1 DEF PhoneInv, SessionInv, IsOpen
    <2> QED BY <1>1, <1>3, <1>4, <1>8, <2>2 DEF SessionInv, IsOpen, Any
  <1> QED BY <1>1, <1>8, <1>9, <1>10, <1>11, <1>12, <1>13
          DEF PhoneInv, StartsInv, StoreInv, HandleInv, EncoderInv

\* The end of a stop, when the store is told.
LEMMA StopEnds ==
    ASSUME PhoneInv, control # <<>>, Head(control).do \in Closings, control' = Tail(control),
           \A k \in Handles : ~IsOpen(k), handle' = Nil,
           main' = Append(main, Block("stopped", Nil)),
           UNCHANGED <<userVars, storeVars, sets, timer, captureGen, encoderVars, frameVars,
                       encoder, sessions>>
    PROVE  PhoneInv'
  <1> DEFINE n == Block("stopped", Nil)
  <1>1. UNCHANGED <<foreground, presses, asking, running, stopping, owner, begun, timer,
                    sets, captureGen, encoding, compressor, capturing, force, pipeline, delivering,
                    encoder, sessions>>
    BY DEF userVars, storeVars, encoderVars, frameVars
  <1>2. /\ control = <<Head(control)>> /\ Blocks(control) = {Head(control)}
        /\ control' = <<>>
        /\ stopping /\ ~running /\ owner = Nil /\ timer = Nil
        /\ ~Any(encoder, Stops) /\ ~Any(main, {"stopped"})
        /\ ~capturing /\ encoding = Nil /\ compressor = Nil
        /\ pipeline = <<>> /\ delivering = <<>>
    BY ClosingHead
  <1>3. n \in MainBlock /\ n.do = "stopped"
    BY DEF Block, MainBlock, MainKinds, Gens
  <1> HIDE DEF n
  <1>4. /\ main' \in Seq(MainBlock) /\ Ordered(main', MainNever)
        /\ Blocks(main') = Blocks(main) \cup {n} /\ Waiting(main') = Waiting(main)
    <2>1. main \in Seq(MainBlock) /\ Ordered(main, MainNever) /\ main' = Append(main, n)
      BY DEF PhoneInv, PhoneTypeOK, StopInv, n
    <2>2. \A c \in Blocks(main) : <<c.do, n.do>> \notin MainNever
      BY <1>2, <1>3 DEF Any, MainNever
    <2> QED BY <1>3, <2>1, <2>2, Appended, WaitingAppended
  <1>5. Any(main', {"stopped"}) /\ Blocks(control') = {} /\ Ordered(control', ControlNever)
        /\ control' \in Seq(ControlBlock) /\ DOMAIN <<>> = {}
    <2>1. Any(main', {"stopped"})
      BY <1>3, <1>4 DEF Any
    <2>2. Blocks(<<>>) = {} /\ Ordered(<<>>, ControlNever)
      BY NoBlocks
    <2>3. <<>> \in Seq(ControlBlock) /\ DOMAIN <<>> = {}
      OBVIOUS
    <2> QED BY <1>2, <2>1, <2>2, <2>3
  <1>6. PhoneTypeOK'
    BY <1>1, <1>4, <1>5 DEF PhoneInv, PhoneTypeOK, Gens
  <1>7. StartsInv'
    BY <1>1, <1>4 DEF PhoneInv, StartsInv
  <1>8. StopInv'
    <2>1. ~Any(control', Closings)
      BY <1>5 DEF Any
    <2> QED BY <1>1, <1>2, <1>4, <1>5, <2>1 DEF PhoneInv, StopInv
  <1>9. ControlInv'
    BY <1>1, <1>2, <1>5 DEF ControlInv, Any
  <1>10. HandleInv'
    BY <1>1, <1>2, <1>5 DEF HandleInv
  <1>11. EncoderInv'
    <2>1. \A k \in 1 .. begun : k # Nil
      BY Numbers DEF PhoneInv
    <2>2. \A b \in Blocks(encoder) : b.do \in {"start", "configured"} =>
            b.gen \in 1 .. begun /\ b.gen # owner
      BY <1>2, <2>1 DEF PhoneInv, EncoderInv
    <2> QED BY <1>1, <1>2, <2>2 DEF EncoderInv
  <1>12. MainInv'
    <2>1. \A b \in Blocks(main) :
            /\ b.do = "start failed" => b.gen \in 1 .. begun
            /\ b.do = "failed" => b.gen = begun
      BY DEF PhoneInv, MainInv
    <2> QED BY <1>1, <1>2, <1>3, <1>4, <1>5, <2>1 DEF MainInv
  <1>13. SessionInv'
    BY <1>1, <1>5 DEF SessionInv, IsOpen
  <1> QED BY <1>1, <1>6, <1>7, <1>8, <1>9, <1>10, <1>11, <1>12, <1>13 DEF PhoneInv, StoreInv

LEMMA FinishKeeps ==
    ASSUME PhoneInv, Finish
    PROVE  PhoneInv'
  <1>1. control # <<>> /\ Head(control).do = "finish" /\ Head(control).do \in Closings
    BY DEF Finish, At, Closings
  <1>2. CASE handle # Nil
    <2>1. /\ control' = Becomes(control, "last poll")
          /\ sessions' = [sessions EXCEPT ![handle] = NoPublisher]
          /\ UNCHANGED <<userVars, storeVars, controlVars, captureGen, encoderVars, frameVars,
                         main, encoder>>
      BY <1>2 DEF Finish, StopPublisher
    <2>2. handle \in Handles
      BY <1>2, HandlesAssumption DEF PhoneInv, PhoneTypeOK, Gens
    <2>3. NoPublisher \in Worker /\ WorkerInv(handle, NoPublisher) /\ NoPublisher.task = "none"
      BY <2>2, NewWorkers
    <2> QED BY <1>1, <1>2, <2>1, <2>3, ClosingSteps
  <1>3. CASE handle = Nil
    <2>1. /\ control' = Tail(control) /\ main' = Append(main, Block("stopped", Nil))
          /\ handle' = Nil
          /\ UNCHANGED <<userVars, storeVars, sets, timer, captureGen, encoderVars, frameVars,
                         encoder, sessions>>
      BY <1>3 DEF Finish, controlVars
    <2>2. Blocks(control) = {Head(control)}
      BY <1>1, ClosingHead
    <2>3. \A k \in Handles : ~IsOpen(k)
      BY <1>1, <1>3, <2>2, Named DEF PhoneInv, SessionInv
    <2> QED BY <1>1, <2>1, <2>3, StopEnds
  <1> QED BY <1>2, <1>3

LEMMA CloseKeeps ==
    ASSUME PhoneInv, Close
    PROVE  PhoneInv'
  <1>1. control # <<>> /\ Head(control).do = "last poll" /\ Head(control).do \in Closings
    BY DEF Close, At, Closings
  <1>2. handle # Nil
    BY <1>1, ClosingHead DEF PhoneInv, ControlInv
  <1>3. /\ control' = Becomes(control, "forget")
        /\ sessions' = [sessions EXCEPT ![handle] = Closed]
        /\ UNCHANGED <<userVars, storeVars, controlVars, captureGen, encoderVars, frameVars,
                       main, encoder>>
    BY DEF Close, CloseSession
  <1>4. handle \in Handles
    BY <1>2, HandlesAssumption DEF PhoneInv, PhoneTypeOK, Gens
  <1>5. Closed \in Worker /\ WorkerInv(handle, Closed) /\ Closed.task = "closed"
    BY <1>4, NewWorkers
  <1> QED BY <1>1, <1>2, <1>3, <1>5, ClosingSteps

LEMMA ForgetKeeps ==
    ASSUME PhoneInv, Forget
    PROVE  PhoneInv'
  <1>1. control # <<>> /\ Head(control).do = "forget" /\ Head(control).do \in Closings
    BY DEF Forget, At, Closings
  <1>2. /\ control' = Tail(control) /\ main' = Append(main, Block("stopped", Nil))
        /\ handle' = Nil
        /\ UNCHANGED <<userVars, storeVars, sets, timer, captureGen, encoderVars, frameVars,
                       encoder, sessions>>
    BY DEF Forget
  <1>3. Blocks(control) = {Head(control)}
    BY <1>1, ClosingHead
  <1>4. handle # Nil /\ ~IsOpen(handle)
    BY <1>1, <1>3 DEF PhoneInv, ControlInv, SessionInv, Any
  <1>5. \A k \in Handles : ~IsOpen(k)
    BY <1>1, <1>3, <1>4 DEF PhoneInv, SessionInv
  <1> QED BY <1>1, <1>2, <1>5, StopEnds

LEMMA ControlKeeps ==
    ASSUME PhoneInv, ControlStep \/ Poll
    PROVE  PhoneInv'
  BY OpenKeeps, OpenedKeeps, HandOverKeeps, CancelTimerKeeps, PollKeeps, PollEndsKeeps,
     FinishKeeps, CloseKeeps, ForgetKeeps DEF ControlStep

-----------------------------------------------------------------------------
(***************************************************************************)
(* The blocks of the encoder's queue.                                      *)
(***************************************************************************)
LEMMA EncoderHead ==
    ASSUME PhoneInv, encoder # <<>>
    PROVE  /\ Tail(encoder) \in Seq(EncoderBlock) /\ Ordered(Tail(encoder), EncoderNever)
           /\ Blocks(encoder) = Blocks(Tail(encoder)) \cup {Head(encoder)}
           /\ Head(encoder) \in EncoderBlock
           /\ Head(encoder).do \in Stops => ~Any(Tail(encoder), Stops)
           /\ Head(encoder).do \notin Stops =>
                /\ Any(encoder, Stops) <=> Any(Tail(encoder), Stops)
                /\ Any(encoder, {"stop"}) <=> Any(Tail(encoder), {"stop"})
  <1> DEFINE h == Head(encoder)
             t == Tail(encoder)
  <1>1. encoder \in Seq(EncoderBlock) /\ Ordered(encoder, EncoderNever)
    BY DEF PhoneInv, PhoneTypeOK, StopInv
  <1>2. /\ t \in Seq(EncoderBlock) /\ Ordered(t, EncoderNever)
        /\ Blocks(encoder) = Blocks(t) \cup {h} /\ h \in EncoderBlock
        /\ \A c \in Blocks(t) : <<h.do, c.do>> \notin EncoderNever
    BY <1>1, Advanced
  <1> HIDE DEF h, t
  <1>3. h.do \in Stops => ~Any(t, Stops)
    BY <1>2 DEF Any, EncoderNever
  <1>4. h.do \notin Stops =>
           /\ Any(encoder, Stops) <=> Any(t, Stops)
           /\ Any(encoder, {"stop"}) <=> Any(t, {"stop"})
    BY <1>2 DEF Any, Stops
  <1> QED BY <1>2, <1>3, <1>4 DEF h, t

\* What a block of the encoder's queue may do to it: where a stop is stays, and so do
\* the generations of starts.
LEMMA EncoderFrame ==
    ASSUME PhoneInv, Ordered(encoder', EncoderNever),
           Any(encoder', Stops) <=> Any(encoder, Stops),
           \A b \in Blocks(encoder') : b.do \in {"start", "configured"} =>
                \E c \in Blocks(encoder) : c.do \in {"start", "configured"} /\ c.gen = b.gen,
           Ordered(main', MainNever),
           Any(main', {"stopped"}) <=> Any(main, {"stopped"}),
           UNCHANGED <<storeVars, control, handle, timer>>
    PROVE  /\ StopInv' /\ ControlInv' /\ StoreInv'
           /\ \A b \in Blocks(encoder') : b.do \in {"start", "configured"} =>
                b.gen \in 1 .. begun /\ (b.gen = owner => handle = owner)
  <1>1. UNCHANGED <<running, stopping, owner, begun>>
    BY DEF storeVars
  <1>2. StopInv'
    BY <1>1 DEF PhoneInv, StopInv
  <1>3. ControlInv' /\ StoreInv'
    BY <1>1 DEF PhoneInv, ControlInv, StoreInv
  <1>4. \A b \in Blocks(encoder') : b.do \in {"start", "configured"} =>
                b.gen \in 1 .. begun /\ (b.gen = owner => handle = owner)
    BY <1>1 DEF PhoneInv, EncoderInv
  <1> QED BY <1>2, <1>3, <1>4

LEMMA ConfigureKeeps ==
    ASSUME PhoneInv, Configure
    PROVE  PhoneInv'
  <1> DEFINE h == Head(encoder)
             n == Block("configured", h.gen)
  <1>1. encoder # <<>> /\ h.do = "start" /\ h.do \notin Stops
    BY DEF Configure, At, Stops
  <1>2. /\ Tail(encoder) \in Seq(EncoderBlock) /\ Ordered(Tail(encoder), EncoderNever)
        /\ Blocks(encoder) = Blocks(Tail(encoder)) \cup {h} /\ h \in EncoderBlock
        /\ Any(encoder, Stops) <=> Any(Tail(encoder), Stops)
        /\ Any(encoder, {"stop"}) <=> Any(Tail(encoder), {"stop"})
    BY <1>1, EncoderHead
  <1>3. UNCHANGED <<foreground, presses, asking, running, stopping, owner, begun, handle, timer,
                    sets, captureGen, encoding, compressor, capturing, force, pipeline, delivering,
                    main, control, sessions>>
    BY DEF Configure, userVars, storeVars, controlVars, encoderVars, frameVars
  <1>4. n \in EncoderBlock /\ n.do = "configured" /\ n.gen = h.gen /\ n.do \notin Stops
    BY <1>2 DEF Block, EncoderBlock, EncoderKinds, Stops
  <1>5. /\ encoder' \in Seq(EncoderBlock) /\ Ordered(encoder', EncoderNever)
        /\ Blocks(encoder') \subseteq Blocks(Tail(encoder)) \cup {n}
        /\ Blocks(Tail(encoder)) \subseteq Blocks(encoder')
    <2>1. CASE encoder' = Tail(encoder)
      BY <1>2, <2>1
    <2>2. CASE encoder' = Becomes(encoder, "configured")
      <3>1. encoder \in Seq(EncoderBlock) /\ Ordered(encoder, EncoderNever)
        BY DEF PhoneInv, PhoneTypeOK, StopInv
      <3>2. \A c \in Blocks(Tail(encoder)) : <<"configured", c.do>> \notin EncoderNever
        BY DEF EncoderNever, Stops
      <3> QED BY <1>1, <1>4, <2>2, <3>1, <3>2, Replaced
    <2> QED BY <2>1, <2>2 DEF Configure
  <1> HIDE DEF n, h
  <1>6. /\ Any(encoder', Stops) <=> Any(encoder, Stops)
        /\ Any(encoder', {"stop"}) <=> Any(encoder, {"stop"})
    BY <1>2, <1>4, <1>5 DEF Any, Stops
  <1>7. \A b \in Blocks(encoder') : b.do \in {"start", "configured"} =>
          \E c \in Blocks(encoder) : c.do \in {"start", "configured"} /\ c.gen = b.gen
    BY <1>1, <1>2, <1>4, <1>5
  <1>8. /\ StopInv' /\ ControlInv' /\ StoreInv'
        /\ \A b \in Blocks(encoder') : b.do \in {"start", "configured"} =>
                b.gen \in 1 .. begun /\ (b.gen = owner => handle = owner)
    BY <1>3, <1>5, <1>6, <1>7, EncoderFrame DEF PhoneInv, StopInv, storeVars
  <1>9. PhoneTypeOK'
    BY <1>3, <1>5 DEF PhoneInv, PhoneTypeOK
  <1>10. EncoderInv'
    BY <1>3, <1>6, <1>8 DEF PhoneInv, EncoderInv
  <1> QED BY <1>3, <1>8, <1>9, <1>10
          DEF PhoneInv, StartsInv, HandleInv, MainInv, SessionInv, IsOpen

\* A block that is gone from the encoder's queue, and was no stop.
LEMMA EncoderTaken ==
    ASSUME PhoneInv, encoder # <<>>, Head(encoder).do \notin Stops, encoder' = Tail(encoder),
           Ordered(main', MainNever),
           Any(main', {"stopped"}) <=> Any(main, {"stopped"}),
           UNCHANGED <<storeVars, control, handle, timer>>
    PROVE  /\ encoder' \in Seq(EncoderBlock)
           /\ Any(encoder', Stops) <=> Any(encoder, Stops)
           /\ Any(encoder', {"stop"}) <=> Any(encoder, {"stop"})
           /\ StopInv' /\ ControlInv' /\ StoreInv'
           /\ \A b \in Blocks(encoder') : b.do \in {"start", "configured"} =>
                b.gen \in 1 .. begun /\ (b.gen = owner => handle = owner)
  <1>1. /\ encoder' \in Seq(EncoderBlock) /\ Ordered(encoder', EncoderNever)
        /\ Blocks(encoder) = Blocks(encoder') \cup {Head(encoder)}
        /\ Any(encoder, Stops) <=> Any(encoder', Stops)
        /\ Any(encoder, {"stop"}) <=> Any(encoder', {"stop"})
    BY EncoderHead
  <1>2. \A b \in Blocks(encoder') : b.do \in {"start", "configured"} =>
          \E c \in Blocks(encoder) : c.do \in {"start", "configured"} /\ c.gen = b.gen
    BY <1>1
  <1> QED BY <1>1, <1>2, EncoderFrame

LEMMA StartRunningKeeps ==
    ASSUME PhoneInv, StartRunning
    PROVE  PhoneInv'
  <1> DEFINE h == Head(encoder)
  <1>1. encoder # <<>> /\ h.do = "configured" /\ h.do \notin Stops /\ encoder' = Tail(encoder)
    BY DEF StartRunning, At, Stops
  <1>2. UNCHANGED <<foreground, presses, asking, running, stopping, owner, begun, handle, timer,
                    sets, captureGen, compressor, force, pipeline, delivering, main, control,
                    sessions, storeVars>>
    BY DEF StartRunning, userVars, storeVars, controlVars, frameVars
  <1>3. /\ encoder' \in Seq(EncoderBlock)
        /\ Any(encoder', Stops) <=> Any(encoder, Stops)
        /\ Any(encoder', {"stop"}) <=> Any(encoder, {"stop"})
        /\ StopInv' /\ ControlInv' /\ StoreInv'
        /\ \A b \in Blocks(encoder') : b.do \in {"start", "configured"} =>
                b.gen \in 1 .. begun /\ (b.gen = owner => handle = owner)
    <2>1. Ordered(main', MainNever) /\ (Any(main', {"stopped"}) <=> Any(main, {"stopped"}))
      BY <1>2 DEF PhoneInv, StopInv
    <2>2. UNCHANGED <<storeVars, control, handle, timer>>
      BY <1>2
    <2> QED BY <1>1, <2>1, <2>2, EncoderTaken
  <1>4. h \in Blocks(encoder) /\ h \in EncoderBlock
    BY <1>1, EncoderHead
  <1>5. CASE Current(h.gen)
    <2>1. /\ h.gen = owner /\ h.gen \in 1 .. begun /\ handle = owner
      BY <1>1, <1>4, <1>5 DEF Current, PhoneInv, EncoderInv
    <2>2. encoding' = handle /\ capturing' = TRUE
      BY <1>5, <2>1 DEF StartRunning
    <2>3. handle # Nil /\ running
      <3>1. \A k \in 1 .. begun : k # Nil
        BY Numbers DEF PhoneInv
      <3> QED BY <2>1, <3>1 DEF PhoneInv, StoreInv
    <2>4. PhoneTypeOK'
      BY <1>2, <1>3, <2>2 DEF PhoneInv, PhoneTypeOK
    <2>5. HandleInv'
      BY <1>2, <2>2, <2>3 DEF PhoneInv, HandleInv
    <2>6. EncoderInv'
      BY <1>2, <1>3, <2>3 DEF EncoderInv
    <2> QED BY <1>2, <1>3, <2>4, <2>5, <2>6
            DEF PhoneInv, StartsInv, MainInv, SessionInv, IsOpen
  <1>6. CASE ~Current(h.gen)
    <2>1. UNCHANGED <<encoding, capturing>>
      BY <1>6 DEF StartRunning
    <2>2. PhoneTypeOK'
      BY <1>2, <1>3, <2>1 DEF PhoneInv, PhoneTypeOK
    <2>3. EncoderInv'
      BY <1>2, <1>3, <2>1 DEF PhoneInv, EncoderInv
    <2> QED BY <1>2, <1>3, <2>1, <2>2, <2>3
            DEF PhoneInv, StartsInv, HandleInv, MainInv, SessionInv, IsOpen
  <1> QED BY <1>5, <1>6

\* The news of a failure of the capture in use.
LEMMA FailureQueued ==
    ASSUME PhoneInv, handle # Nil, main' = Append(main, Block("failed", begun)),
           UNCHANGED <<storeVars, control, handle>>
    PROVE  /\ main' \in Seq(MainBlock) /\ Ordered(main', MainNever)
           /\ ~Any(main', {"stopped"}) /\ ~Any(main, {"stopped"})
           /\ Waiting(main') = Waiting(main)
           /\ MainInv'
  <1> DEFINE n == Block("failed", begun)
  <1>1. n \in MainBlock /\ n.do = "failed" /\ n.gen = begun
    BY DEF PhoneInv, PhoneTypeOK, Block, MainBlock, MainKinds
  <1>2. main \in Seq(MainBlock) /\ Ordered(main, MainNever) /\ ~Any(main, {"stopped"})
    BY DEF PhoneInv, PhoneTypeOK, StopInv
  <1> HIDE DEF n
  <1>3. \A c \in Blocks(main) : <<c.do, n.do>> \notin MainNever
    BY <1>1, <1>2 DEF Any, MainNever
  <1>4. main' = Append(main, n)
    BY DEF n
  <1>5. /\ main' \in Seq(MainBlock) /\ Ordered(main', MainNever)
        /\ Blocks(main') = Blocks(main) \cup {n} /\ Waiting(main') = Waiting(main)
    BY <1>1, <1>2, <1>3, <1>4, Appended, WaitingAppended
  <1>6. ~Any(main', {"stopped"})
    BY <1>1, <1>2, <1>5 DEF Any
  <1>7. MainInv'
    BY <1>1, <1>5 DEF PhoneInv, MainInv, storeVars
  <1> QED BY <1>2, <1>5, <1>6, <1>7

LEMMA ConfigureFailsKeeps ==
    ASSUME PhoneInv, ConfigureFails
    PROVE  PhoneInv'
  <1> DEFINE h == Head(encoder)
  <1>1. encoder # <<>> /\ h.do = "configured" /\ h.do \notin Stops /\ encoder' = Tail(encoder)
    BY DEF ConfigureFails, At, Stops
  <1>2. /\ UNCHANGED <<foreground, presses, asking, running, stopping, owner, begun, handle, timer,
                       sets, captureGen, compressor, capturing, force, pipeline, delivering, control,
                       sessions, storeVars>>
        /\ encoding' = Nil
    BY DEF ConfigureFails, userVars, storeVars, controlVars, frameVars
  <1>3. h \in Blocks(encoder) /\ h \in EncoderBlock
    BY <1>1, EncoderHead
  <1>4. /\ main' \in Seq(MainBlock) /\ Ordered(main', MainNever)
        /\ Any(main', {"stopped"}) <=> Any(main, {"stopped"})
        /\ Waiting(main') = Waiting(main)
        /\ MainInv'
    <2>1. CASE Current(h.gen)
      <3>1. /\ h.gen = owner /\ h.gen \in 1 .. begun /\ handle = owner
        BY <1>1, <1>3, <2>1 DEF Current, PhoneInv, EncoderInv
      <3>2. handle # Nil
        <4>1. \A k \in 1 .. begun : k # Nil
          BY Numbers DEF PhoneInv
        <4> QED BY <3>1, <4>1
      <3>3. h.gen = begun
        BY <3>1, <3>2 DEF PhoneInv, StoreInv
      <3>4. main' = Append(main, Block("failed", begun))
        BY <2>1, <3>3 DEF ConfigureFails
      <3>5. UNCHANGED <<storeVars, control, handle>>
        BY <1>2
      <3> QED BY <3>2, <3>4, <3>5, FailureQueued
    <2>2. CASE ~Current(h.gen)
      <3>1. main' = main
        BY <2>2 DEF ConfigureFails
      <3> QED BY <1>2, <3>1 DEF PhoneInv, PhoneTypeOK, StopInv, MainInv
    <2> QED BY <2>1, <2>2
  <1>5. /\ encoder' \in Seq(EncoderBlock)
        /\ Any(encoder', Stops) <=> Any(encoder, Stops)
        /\ Any(encoder', {"stop"}) <=> Any(encoder, {"stop"})
        /\ StopInv' /\ ControlInv' /\ StoreInv'
        /\ \A b \in Blocks(encoder') : b.do \in {"start", "configured"} =>
                b.gen \in 1 .. begun /\ (b.gen = owner => handle = owner)
    <2>1. UNCHANGED <<storeVars, control, handle, timer>>
      BY <1>2
    <2> QED BY <1>1, <1>4, <2>1, EncoderTaken
  <1>6. PhoneTypeOK'
    BY <1>2, <1>4, <1>5 DEF PhoneInv, PhoneTypeOK, Gens
  <1>7. HandleInv' /\ EncoderInv'
    BY <1>2, <1>5 DEF PhoneInv, HandleInv, EncoderInv
  <1> QED BY <1>2, <1>4, <1>5, <1>6, <1>7
          DEF PhoneInv, StartsInv, SessionInv, IsOpen

LEMMA SetForceKeeps ==
    ASSUME PhoneInv, SetForce
    PROVE  PhoneInv'
  <1>1. /\ encoder # <<>> /\ Head(encoder).do \notin Stops /\ encoder' = Tail(encoder)
        /\ force' \in BOOLEAN
    BY DEF SetForce, At, Stops
  <1>2. UNCHANGED <<foreground, presses, asking, running, stopping, owner, begun, handle, timer,
                    sets, captureGen, encoding, compressor, capturing, pipeline, delivering, main,
                    control, sessions, storeVars>>
    BY DEF SetForce, userVars, storeVars, controlVars, frameVars
  <1>3. /\ encoder' \in Seq(EncoderBlock)
        /\ Any(encoder', Stops) <=> Any(encoder, Stops)
        /\ Any(encoder', {"stop"}) <=> Any(encoder, {"stop"})
        /\ StopInv' /\ ControlInv' /\ StoreInv'
        /\ \A b \in Blocks(encoder') : b.do \in {"start", "configured"} =>
                b.gen \in 1 .. begun /\ (b.gen = owner => handle = owner)
    <2>1. Ordered(main', MainNever) /\ (Any(main', {"stopped"}) <=> Any(main, {"stopped"}))
      BY <1>2 DEF PhoneInv, StopInv
    <2>2. UNCHANGED <<storeVars, control, handle, timer>>
      BY <1>2
    <2> QED BY <1>1, <2>1, <2>2, EncoderTaken
  <1>4. PhoneTypeOK'
    BY <1>1, <1>2, <1>3 DEF PhoneInv, PhoneTypeOK
  <1>5. EncoderInv'
    BY <1>2, <1>3 DEF PhoneInv, EncoderInv
  <1> QED BY <1>2, <1>3, <1>4, <1>5
          DEF PhoneInv, StartsInv, HandleInv, MainInv, SessionInv, IsOpen

LEMMA StopCameraKeeps ==
    ASSUME PhoneInv, StopCamera
    PROVE  PhoneInv'
  <1> DEFINE h == Head(encoder)
             n == Block("complete frames", h.gen)
  <1>1. encoder # <<>> /\ h.do = "stop" /\ h.do \in Stops
        /\ encoder' = Becomes(encoder, "complete frames")
    BY DEF StopCamera, At, Stops
  <1>2. /\ UNCHANGED <<foreground, presses, asking, running, stopping, owner, begun, handle, timer,
                       sets, captureGen, compressor, force, pipeline, delivering, main, control,
                       sessions, storeVars>>
        /\ encoding' = Nil /\ capturing' = FALSE
    BY DEF StopCamera, userVars, storeVars, controlVars, frameVars
  <1>3. /\ Blocks(encoder) = Blocks(Tail(encoder)) \cup {h} /\ h \in EncoderBlock
        /\ ~Any(Tail(encoder), Stops)
    BY <1>1, EncoderHead
  <1>4. n \in EncoderBlock /\ n.do = "complete frames" /\ n.do \in Stops
    BY <1>3 DEF Block, EncoderBlock, EncoderKinds, Stops
  <1>5. /\ encoder' \in Seq(EncoderBlock) /\ Ordered(encoder', EncoderNever)
        /\ Blocks(encoder') = Blocks(Tail(encoder)) \cup {n}
    <2>1. encoder \in Seq(EncoderBlock) /\ Ordered(encoder, EncoderNever)
      BY DEF PhoneInv, PhoneTypeOK, StopInv
    <2>2. \A c \in Blocks(Tail(encoder)) : <<"complete frames", c.do>> \notin EncoderNever
      BY <1>3 DEF Any, EncoderNever
    <2> QED BY <1>1, <1>4, <2>1, <2>2, Replaced
  <1> HIDE DEF n, h
  <1>6. Any(encoder', Stops) /\ Any(encoder, Stops)
    BY <1>1, <1>3, <1>4, <1>5 DEF Any
  <1>7. \A b \in Blocks(encoder') : b.do \in {"start", "configured"} =>
          \E c \in Blocks(encoder) : c.do \in {"start", "configured"} /\ c.gen = b.gen
    BY <1>3, <1>4, <1>5
  <1>8. /\ StopInv' /\ ControlInv' /\ StoreInv'
        /\ \A b \in Blocks(encoder') : b.do \in {"start", "configured"} =>
                b.gen \in 1 .. begun /\ (b.gen = owner => handle = owner)
    <2>1. Ordered(main', MainNever) /\ (Any(main', {"stopped"}) <=> Any(main, {"stopped"}))
      BY <1>2 DEF PhoneInv, StopInv
    <2>2. UNCHANGED <<storeVars, control, handle, timer>>
      BY <1>2
    <2> QED BY <1>5, <1>6, <1>7, <2>1, <2>2, EncoderFrame
  <1>9. PhoneTypeOK'
    BY <1>2, <1>5 DEF PhoneInv, PhoneTypeOK, Gens
  <1>10. HandleInv' /\ EncoderInv'
    BY <1>2, <1>6, <1>8 DEF PhoneInv, HandleInv, EncoderInv
  <1> QED BY <1>2, <1>8, <1>9, <1>10 DEF PhoneInv, StartsInv, MainInv, SessionInv, IsOpen

LEMMA CompleteFramesKeeps ==
    ASSUME PhoneInv, CompleteFrames
    PROVE  PhoneInv'
  <1> DEFINE n == Block("finish", Nil)
  <1>1. /\ encoder # <<>> /\ Head(encoder).do = "complete frames" /\ Head(encoder).do \in Stops
        /\ encoder' = Tail(encoder) /\ control' = Append(control, n)
        /\ pipeline = <<>> /\ delivering = <<>>
    BY DEF CompleteFrames, At, Stops, Drained
  <1>2. /\ UNCHANGED <<foreground, presses, asking, running, stopping, owner, begun, handle, timer,
                       sets, captureGen, encoding, capturing, pipeline, delivering, main, sessions>>
        /\ compressor' = Nil /\ force' = TRUE
    BY DEF CompleteFrames, userVars, storeVars, controlVars, frameVars
  <1>3. /\ encoder' \in Seq(EncoderBlock) /\ Ordered(encoder', EncoderNever)
        /\ Blocks(encoder) = Blocks(encoder') \cup {Head(encoder)}
        /\ ~Any(encoder', Stops)
    BY <1>1, EncoderHead
  <1>4. Any(encoder, Stops)
    BY <1>1, <1>3 DEF Any
  <1>5. stopping /\ ~running /\ owner = Nil /\ ~Any(control, Closings) /\ ~Any(main, {"stopped"})
    BY <1>4 DEF PhoneInv, StopInv, StoreInv
  <1>6. n \in ControlBlock /\ n.do = "finish" /\ n.do \in Closings /\ n.do \notin Openings
    BY DEF Block, ControlBlock, ControlKinds, Closings, Openings, Gens
  <1> HIDE DEF n
  <1>7. /\ control' \in Seq(ControlBlock) /\ Ordered(control', ControlNever)
        /\ Blocks(control') = Blocks(control) \cup {n}
    <2>1. control \in Seq(ControlBlock) /\ Ordered(control, ControlNever)
      BY DEF PhoneInv, PhoneTypeOK, StopInv
    <2>2. \A c \in Blocks(control) : <<c.do, n.do>> \notin ControlNever
      BY <1>5, <1>6 DEF Any, ControlNever, Openings, Closings
    <2> QED BY <1>1, <1>6, <2>1, <2>2, Appended
  <1>8. /\ Any(control', Closings)
        /\ Any(control', {"cancel timer"}) <=> Any(control, {"cancel timer"})
        /\ Any(control', Openings) <=> Any(control, Openings)
    BY <1>6, <1>7 DEF Any
  <1>9. ~capturing /\ encoding = Nil
    <2>1. ~Any(encoder, {"stop"})
      BY <1>1, <1>3 DEF Any, Stops
    <2> QED BY <1>5, <2>1 DEF PhoneInv, EncoderInv
  <1>10. PhoneTypeOK'
    BY <1>2, <1>3, <1>7 DEF PhoneInv, PhoneTypeOK, Gens
  <1>11. StopInv'
    BY <1>2, <1>3, <1>5, <1>7, <1>8 DEF PhoneInv, StopInv
  <1>12. ControlInv'
    <2>1. \A b \in Blocks(control) : b.do \notin {"last poll", "forget"}
      BY <1>5 DEF Any, Closings
    <2>2. \A b \in Blocks(control') :
            /\ b.do \in Openings => b.gen = begun /\ begun # Nil /\ handle = Nil
            /\ b.do = "polling" => handle # Nil /\ b.gen \in {NoSource, handle}
            /\ b.do \notin {"last poll", "forget"}
      BY <1>6, <1>7, <2>1 DEF PhoneInv, ControlInv
    <2>3. stopping /\ (timer # Nil \/ Any(control, Openings)) => Any(control, {"cancel timer"})
      BY DEF PhoneInv, ControlInv
    <2> QED BY <1>2, <1>5, <1>8, <2>2, <2>3 DEF ControlInv
  <1>13. HandleInv'
    BY <1>2 DEF PhoneInv, HandleInv
  <1>14. EncoderInv'
    BY <1>1, <1>2, <1>3, <1>9 DEF PhoneInv, EncoderInv
  <1>15. MainInv'
    <2>1. \A k \in 1 .. begun : k # Nil
      BY Numbers DEF PhoneInv
    <2> QED BY <1>2, <1>5, <2>1 DEF PhoneInv, MainInv
  <1>16. SessionInv'
    BY <1>2, <1>6, <1>7 DEF PhoneInv, SessionInv, IsOpen, Any
  <1> QED BY <1>2, <1>10, <1>11, <1>12, <1>13, <1>14, <1>15, <1>16
          DEF PhoneInv, StartsInv, StoreInv

-----------------------------------------------------------------------------
(***************************************************************************)
(* Frames: of the camera, of the video encoder, and of the publisher.      *)
(***************************************************************************)
LEMMA EncodeKeeps ==
    ASSUME PhoneInv, Encode
    PROVE  PhoneInv'
  <1>1. /\ UNCHANGED <<foreground, presses, asking, running, stopping, owner, begun, handle, timer,
                       sets, captureGen, capturing, encoding, force, delivering, main, control,
                       encoder, sessions>>
        /\ encoding # Nil
    BY DEF Encode, Sample, userVars, storeVars, controlVars, queueVars
  <1>2. encoding = handle /\ handle # Nil /\ handle \in Sources
    BY <1>1, HandlesAssumption DEF PhoneInv, PhoneTypeOK, HandleInv, Gens
  <1>3. compressor' = handle
    BY <1>2 DEF Encode, PhoneInv, HandleInv
  <1>4. PICK key \in BOOLEAN : pipeline' = Append(pipeline, [source |-> handle, key |-> key])
    BY <1>3 DEF Encode
  <1>5. pipeline' \in Seq(Picture) /\ \A i \in DOMAIN pipeline' : pipeline'[i].source = handle
    <2> DEFINE p == [source |-> handle, key |-> key]
    <2>1. p \in Picture /\ p.source = handle
      BY <1>2 DEF Picture
    <2>2. pipeline \in Seq(Picture) /\ \A i \in DOMAIN pipeline : pipeline[i].source = handle
      BY DEF PhoneInv, PhoneTypeOK, HandleInv
    <2> HIDE DEF p
    <2>3. /\ pipeline' \in Seq(Picture) /\ Len(pipeline) \in Nat
          /\ DOMAIN pipeline' = 1 .. Len(pipeline) + 1 /\ DOMAIN pipeline = 1 .. Len(pipeline)
          /\ \A i \in 1 .. Len(pipeline) : pipeline'[i] = pipeline[i]
          /\ pipeline'[Len(pipeline) + 1] = p
      BY <1>4, <2>1, <2>2 DEF p
    <2> QED BY <2>1, <2>2, <2>3
  <1>6. running \/ Any(encoder, Stops)
    BY <1>1 DEF PhoneInv, EncoderInv, Any, Stops
  <1>7. PhoneTypeOK'
    BY <1>1, <1>2, <1>3, <1>5 DEF PhoneInv, PhoneTypeOK
  <1>8. HandleInv'
    BY <1>1, <1>2, <1>3, <1>5 DEF PhoneInv, HandleInv
  <1>9. EncoderInv'
    BY <1>1, <1>6 DEF PhoneInv, EncoderInv
  <1> QED BY <1>1, <1>7, <1>8, <1>9
          DEF PhoneInv, StartsInv, StoreInv, StopInv, ControlInv, MainInv, SessionInv, IsOpen

LEMMA EncodeFailsKeeps ==
    ASSUME PhoneInv, EncodeFails
    PROVE  PhoneInv'
  <1>1. /\ UNCHANGED <<foreground, presses, asking, running, stopping, owner, begun, handle, timer,
                       sets, captureGen, capturing, compressor, force, pipeline, delivering, control,
                       encoder, sessions, storeVars>>
        /\ encoding # Nil /\ encoding' = Nil /\ main' = Append(main, Block("failed", encoding))
    BY DEF EncodeFails, Sample, userVars, storeVars, controlVars, frameVars
  <1>2. encoding = begun /\ handle # Nil
    BY <1>1 DEF PhoneInv, HandleInv
  <1>3. /\ main' \in Seq(MainBlock) /\ Ordered(main', MainNever)
        /\ ~Any(main', {"stopped"}) /\ ~Any(main, {"stopped"})
        /\ Waiting(main') = Waiting(main)
        /\ MainInv'
    <2>1. UNCHANGED <<storeVars, control, handle>>
      BY <1>1
    <2> QED BY <1>1, <1>2, <2>1, FailureQueued
  <1>4. PhoneTypeOK'
    BY <1>1, <1>3 DEF PhoneInv, PhoneTypeOK, Gens
  <1>5. StopInv'
    BY <1>1, <1>3 DEF PhoneInv, StopInv
  <1>6. HandleInv' /\ EncoderInv'
    BY <1>1 DEF PhoneInv, HandleInv, EncoderInv
  <1> QED BY <1>1, <1>3, <1>4, <1>5, <1>6
          DEF PhoneInv, StartsInv, StoreInv, ControlInv, SessionInv, IsOpen

LEMMA EncodedKeeps ==
    ASSUME PhoneInv, Encoded
    PROVE  PhoneInv'
  <1> DEFINE d == [frame |-> Head(pipeline), handle |-> handle]
  <1>1. /\ UNCHANGED <<foreground, presses, asking, running, stopping, owner, begun, handle, timer,
                       captureGen, capturing, encoding, compressor, force, main, control, encoder,
                       sessions>>
        /\ pipeline # <<>> /\ pipeline' = Tail(pipeline)
        /\ sets' = Head(pipeline).source /\ delivering' = <<d>>
    BY DEF Encoded, userVars, storeVars, encoderVars, queueVars
  <1>2. pipeline \in Seq(Picture) /\ \A i \in DOMAIN pipeline : handle # Nil /\ pipeline[i].source = handle
    BY DEF PhoneInv, PhoneTypeOK, HandleInv
  <1>3. /\ Head(pipeline) = pipeline[1] /\ Head(pipeline) \in Picture /\ 1 \in DOMAIN pipeline
        /\ Tail(pipeline) \in Seq(Picture)
    BY <1>1, <1>2
  <1>4. handle # Nil /\ Head(pipeline).source = handle /\ handle \in Sources
    BY <1>2, <1>3 DEF Picture
  <1>5. \A i \in DOMAIN Tail(pipeline) : Tail(pipeline)[i].source = handle
    <2> SUFFICES ASSUME NEW i \in DOMAIN Tail(pipeline)
                 PROVE  Tail(pipeline)[i].source = handle
      OBVIOUS
    <2>1. i + 1 \in DOMAIN pipeline /\ Tail(pipeline)[i] = pipeline[i + 1]
      BY <1>1, <1>2
    <2> QED BY <1>2, <2>1
  <1>6. d \in [frame : Picture, handle : Gens] /\ d.handle = handle /\ d.frame.source = handle
    BY <1>3, <1>4 DEF PhoneInv, PhoneTypeOK
  <1> HIDE DEF d
  <1>7. /\ delivering' \in Seq([frame : Picture, handle : Gens]) /\ Len(delivering') <= 1
        /\ \A i \in DOMAIN delivering' : delivering'[i] = d
    BY <1>1, <1>6
  <1>8. PhoneTypeOK'
    BY <1>1, <1>3, <1>4, <1>7 DEF PhoneInv, PhoneTypeOK, Sets
  <1>9. HandleInv'
    BY <1>1, <1>4, <1>5, <1>6, <1>7 DEF PhoneInv, HandleInv
  <1>10. EncoderInv'
    BY <1>1 DEF PhoneInv, EncoderInv
  <1> QED BY <1>1, <1>8, <1>9, <1>10
          DEF PhoneInv, StartsInv, StoreInv, StopInv, ControlInv, MainInv, SessionInv, IsOpen

\* A publisher that is offered a frame of its own capture stays in order.
LEMMA OfferedKeeps ==
    ASSUME NEW h \in Handles, NEW w \in Worker, WorkerInv(h, w), NEW key \in BOOLEAN
    PROVE  /\ Offered(w, h, key) \in Worker /\ WorkerInv(h, Offered(w, h, key))
           /\ Offered(w, h, key).task = w.task
  <1>1. CASE Accepts(w, key)
    <2> DEFINE f == [source |-> h, key |-> key, follows |-> key \/ ~w.gap]
               q == Append(w.frames, f)
               v == Queued(w, h, key)
    <2>1. /\ w.frames \in Seq(Frame) /\ w.gap \in BOOLEAN /\ w.needsKeyframe \in BOOLEAN
          /\ w.task = "connected" /\ (w.needsKeyframe => key)
      BY <1>1 DEF Worker, Accepts, Wanted
    <2>2. f \in Frame /\ f.source = h /\ (f.key \/ f.follows)
      <3>1. (key \/ ~w.gap) \in BOOLEAN
        BY <2>1
      <3>2. key \/ ~w.gap
        BY <2>1 DEF WorkerInv
      <3> QED BY <3>1, <3>2, HandlesAssumption DEF Frame
    <2> HIDE DEF f
    <2>3. /\ q \in Seq(Frame)
          /\ \A i \in DOMAIN q : q[i].source = h /\ (q[i].key \/ q[i].follows)
      <3>1. /\ q \in Seq(Frame) /\ Len(w.frames) \in Nat
            /\ DOMAIN q = 1 .. Len(w.frames) + 1 /\ DOMAIN w.frames = 1 .. Len(w.frames)
            /\ \A i \in 1 .. Len(w.frames) : q[i] = w.frames[i]
            /\ q[Len(w.frames) + 1] = f
        BY <2>1, <2>2
      <3> QED BY <2>2, <3>1 DEF WorkerInv
    <2>4. v = [w EXCEPT !.frames = q, !.needsKeyframe = @ /\ ~key, !.gap = @ /\ ~key]
      BY DEF Queued, f
    <2> HIDE DEF v, q
    <2>5. /\ v.task = "connected" /\ v.announced = w.announced /\ v.frames = q
          /\ v.needsKeyframe = (w.needsKeyframe /\ ~key) /\ v.gap = (w.gap /\ ~key)
          /\ v \in Worker
      <3>1. (w.needsKeyframe /\ ~key) \in BOOLEAN /\ (w.gap /\ ~key) \in BOOLEAN
        BY <2>1
      <3> QED BY <2>1, <2>3, <2>4, <3>1 DEF Worker
    <2>6. WorkerInv(h, v)
      BY <2>1, <2>3, <2>5 DEF WorkerInv
    <2>7. Offered(w, h, key) = v
      BY <1>1 DEF Offered, v
    <2> QED BY <2>1, <2>5, <2>6, <2>7
  <1>2. CASE ~Accepts(w, key) /\ Wanted(w, key)
    <2> DEFINE v == [w EXCEPT !.needsKeyframe = TRUE, !.gap = TRUE]
    <2>1. v \in Worker /\ WorkerInv(h, v) /\ v.task = w.task
      BY DEF Worker, WorkerInv
    <2> QED BY <1>2, <2>1 DEF Offered, Overrun
  <1>3. CASE ~Accepts(w, key) /\ ~Wanted(w, key)
    <2> DEFINE v == [w EXCEPT !.gap = TRUE]
    <2>1. v \in Worker /\ v.task = w.task /\ v.needsKeyframe = w.needsKeyframe
          /\ v.announced = w.announced /\ v.frames = w.frames
      BY DEF Worker
    <2>2. w.task = "connected" => w.needsKeyframe
      BY <1>3 DEF Wanted
    <2> HIDE DEF v
    <2>3. WorkerInv(h, v)
      BY <2>1, <2>2 DEF WorkerInv
    <2> QED BY <1>3, <2>1, <2>3 DEF Offered, v
  <1> QED BY <1>1, <1>2, <1>3

\* What the sessions may do while nothing else moves but the answers to frames.
LEMMA FirstElement ==
    ASSUME NEW S, NEW q \in Seq(S), q # <<>>
    PROVE  1 \in DOMAIN q /\ q[1] \in S
  OBVIOUS

LEMMA SessionsMove ==
    ASSUME PhoneInv, sessions' \in [Handles -> Worker],
           \A h \in Handles : WorkerInv(h, sessions'[h]),
           \A h \in Handles : sessions'[h].task = "closed" <=> sessions[h].task = "closed",
           UNCHANGED <<handle, control>>
    PROVE  SessionInv' /\ \A h \in Handles : WorkerInv(h, sessions[h])'
  <1>1. \A b \in Blocks(control) : b.do \in {"opened", "hand over"} => b.gen \in Handles
    BY HandlesAssumption DEF PhoneInv, PhoneTypeOK, ControlInv, Openings, Gens
  <1>2. handle # Nil => handle \in Handles
    BY HandlesAssumption DEF PhoneInv, PhoneTypeOK, Gens
  <1> QED BY <1>1, <1>2 DEF PhoneInv, SessionInv, IsOpen

LEMMA DeliverKeeps ==
    ASSUME PhoneInv, Deliver
    PROVE  PhoneInv'
  <1> DEFINE d == delivering[1]
             to == d.handle
             open == to # Nil /\ IsOpen(to)
             answer == IF open /\ Accepts(sessions[to], d.frame.key) THEN "accepted" ELSE "refused"
             n == Block(answer, Nil)
  <1>1. /\ UNCHANGED <<foreground, presses, asking, running, stopping, owner, begun, handle, timer,
                       sets, captureGen, capturing, encoding, compressor, force, pipeline, main,
                       control, storeVars>>
        /\ delivering # <<>> /\ delivering' = <<>>
        /\ encoder' = Append(encoder, n)
        /\ sessions' = IF open
                       THEN [sessions EXCEPT ![to] = Offered(@, d.frame.source, d.frame.key)]
                       ELSE sessions
    BY DEF Deliver, userVars, storeVars, controlVars, encoderVars
  <1>2. 1 \in DOMAIN delivering /\ d \in [frame : Picture, handle : Gens]
    <2>1. delivering \in Seq([frame : Picture, handle : Gens]) /\ delivering # <<>>
      BY <1>1 DEF PhoneInv, PhoneTypeOK
    <2> QED
      BY <2>1, FirstElement
  <1>3. /\ handle # Nil /\ to = handle /\ d.frame.source = handle /\ d.frame.key \in BOOLEAN
        /\ handle \in Handles
    BY <1>2, HandlesAssumption DEF PhoneInv, PhoneTypeOK, HandleInv, Gens, Picture
  <1>4. n \in EncoderBlock /\ n.do \in {"accepted", "refused"}
    BY DEF Block, EncoderBlock, EncoderKinds, Gens
  <1> HIDE DEF n
  <1>5. /\ encoder' \in Seq(EncoderBlock) /\ Ordered(encoder', EncoderNever)
        /\ Blocks(encoder') = Blocks(encoder) \cup {n}
    <2>1. encoder \in Seq(EncoderBlock) /\ Ordered(encoder, EncoderNever)
      BY DEF PhoneInv, PhoneTypeOK, StopInv
    <2>2. \A c \in Blocks(encoder) : <<c.do, n.do>> \notin EncoderNever
      BY <1>4 DEF EncoderNever, Stops
    <2> QED BY <1>1, <1>4, <2>1, <2>2, Appended
  <1>6. /\ Any(encoder', Stops) <=> Any(encoder, Stops)
        /\ Any(encoder', {"stop"}) <=> Any(encoder, {"stop"})
    BY <1>4, <1>5 DEF Any, Stops
  <1>7. /\ StopInv' /\ ControlInv' /\ StoreInv'
        /\ \A b \in Blocks(encoder') : b.do \in {"start", "configured"} =>
                b.gen \in 1 .. begun /\ (b.gen = owner => handle = owner)
    <2>1. Ordered(main', MainNever) /\ (Any(main', {"stopped"}) <=> Any(main, {"stopped"}))
      BY <1>1 DEF PhoneInv, StopInv
    <2>2. UNCHANGED <<storeVars, control, handle, timer>>
      BY <1>1
    <2>3. \A b \in Blocks(encoder') : b.do \in {"start", "configured"} =>
            \E c \in Blocks(encoder) : c.do \in {"start", "configured"} /\ c.gen = b.gen
      BY <1>4, <1>5
    <2> QED BY <1>5, <1>6, <2>1, <2>2, <2>3, EncoderFrame
  <1>8. /\ sessions' \in [Handles -> Worker]
        /\ \A k \in Handles : WorkerInv(k, sessions'[k])
        /\ \A k \in Handles : sessions'[k].task = "closed" <=> sessions[k].task = "closed"
    <2>1. sessions \in [Handles -> Worker] /\ \A k \in Handles : WorkerInv(k, sessions[k])
      BY DEF PhoneInv, PhoneTypeOK
    <2>2. CASE open
      <3> DEFINE w == Offered(sessions[handle], handle, d.frame.key)
      <3>1. w \in Worker /\ WorkerInv(handle, w) /\ w.task = sessions[handle].task
        BY <1>3, <2>1, OfferedKeeps
      <3>2. sessions' = [sessions EXCEPT ![handle] = w]
        BY <1>1, <1>3, <2>2
      <3> HIDE DEF w
      <3> QED BY <1>3, <2>1, <3>1, <3>2
    <2>3. CASE ~open
      BY <1>1, <2>1, <2>3
    <2> QED BY <2>2, <2>3
  <1> HIDE DEF d
  <1>9. SessionInv' /\ \A h \in Handles : WorkerInv(h, sessions[h])'
    BY <1>1, <1>8, SessionsMove
  <1>10. delivering' \in Seq([frame : Picture, handle : Gens]) /\ Len(delivering') <= 1
         /\ DOMAIN delivering' = {}
    <2>1. <<>> \in Seq([frame : Picture, handle : Gens]) /\ Len(<<>>) = 0 /\ DOMAIN <<>> = {}
      OBVIOUS
    <2> QED BY <1>1, <2>1
  <1>11. PhoneTypeOK'
    BY <1>1, <1>5, <1>8, <1>10 DEF PhoneInv, PhoneTypeOK
  <1>12. HandleInv'
    BY <1>1, <1>10 DEF PhoneInv, HandleInv
  <1>13. EncoderInv'
    BY <1>1, <1>6, <1>7 DEF PhoneInv, EncoderInv
  <1> QED BY <1>1, <1>7, <1>9, <1>11, <1>12, <1>13 DEF PhoneInv, StartsInv, MainInv

LEMMA TaskKeeps ==
    ASSUME PhoneInv, NEW h \in Handles, TaskStep(h),
           UNCHANGED <<userVars, storeVars, controlVars, captureGen, encoderVars, frameVars, queueVars>>
    PROVE  PhoneInv'
  <1>1. UNCHANGED <<foreground, presses, asking, running, stopping, owner, begun, handle, timer,
                    sets, captureGen, capturing, encoding, compressor, force, pipeline, delivering,
                    main, control, encoder>>
    BY DEF userVars, storeVars, controlVars, encoderVars, frameVars, queueVars
  <1> DEFINE w == sessions[h]
  <1>2. sessions \in [Handles -> Worker] /\ w \in Worker /\ WorkerInv(h, w) /\ w.task # "closed"
    BY DEF PhoneInv, PhoneTypeOK, TaskStep, IsOpen
  <1>3. w.frames \in Seq(Frame) /\ w.announced \in Sources \cup {NoSource}
    BY <1>2 DEF Worker
  <1>4. \E v \in Worker : WorkerInv(h, v) /\ v.task # "closed" /\ sessions' = [sessions EXCEPT ![h] = v]
    <2>1. CASE Connects(h)
      <3> DEFINE v == [w EXCEPT !.task = "connected"]
      <3>1. sessions' = [sessions EXCEPT ![h] = v] /\ w.task = "connecting" /\ w.announced # NoSource
        BY <1>2, <2>1 DEF Connects
      <3>2. v \in Worker /\ v.task = "connected"
        BY <1>2 DEF Worker, Tasks
      <3>3. WorkerInv(h, v)
        BY <1>2, <3>1 DEF Worker, WorkerInv
      <3> QED BY <3>1, <3>2, <3>3
    <2>2. CASE ConnectFails(h) \/ TornDown(h)
      <3> DEFINE v == [w EXCEPT !.task = "finished"]
      <3>1. sessions' = [sessions EXCEPT ![h] = v] /\ w.task \in {"connecting", "closing"}
        BY <1>2, <2>2 DEF ConnectFails, TornDown
      <3>2. v \in Worker /\ v.task = "finished"
        BY <1>2 DEF Worker, Tasks
      <3>3. WorkerInv(h, v)
        BY <1>2, <3>1 DEF Worker, WorkerInv
      <3> QED BY <3>1, <3>2, <3>3
    <2>3. CASE Writes(h)
      <3> DEFINE t == Tail(w.frames)
                 v == [w EXCEPT !.frames = t]
      <3>1. sessions' = [sessions EXCEPT ![h] = v] /\ w.task = "connected" /\ w.frames # <<>>
        BY <1>2, <2>3 DEF Writes
      <3>2. t \in Seq(Frame) /\ \A i \in DOMAIN t : i + 1 \in DOMAIN w.frames /\ t[i] = w.frames[i + 1]
        BY <1>3, <3>1
      <3> HIDE DEF t
      <3>3. v \in Worker /\ v.task = "connected" /\ v.frames = t /\ v.announced = w.announced
            /\ v.needsKeyframe = w.needsKeyframe /\ v.gap = w.gap
        BY <1>2, <3>1, <3>2 DEF Worker
      <3> HIDE DEF v
      <3>4. WorkerInv(h, v)
        BY <1>2, <3>1, <3>2, <3>3 DEF WorkerInv
      <3> QED BY <3>1, <3>3, <3>4
    <2>4. CASE WriteFails(h)
      <3> DEFINE v == [w EXCEPT !.task = "closing", !.frames = <<>>]
      <3>1. sessions' = [sessions EXCEPT ![h] = v]
        BY <1>2, <2>4 DEF WriteFails
      <3>2. <<>> \in Seq(Frame) /\ DOMAIN <<>> = {}
        OBVIOUS
      <3>3. v \in Worker /\ v.task = "closing" /\ v.frames = <<>> /\ v.announced = w.announced
        BY <1>2, <3>2 DEF Worker, Tasks
      <3> HIDE DEF v
      <3>4. WorkerInv(h, v)
        BY <1>2, <3>2, <3>3 DEF WorkerInv
      <3> QED BY <3>1, <3>3, <3>4
    <2> QED BY <2>1, <2>2, <2>3, <2>4 DEF TaskStep
  <1>5. PICK v \in Worker : WorkerInv(h, v) /\ v.task # "closed" /\ sessions' = [sessions EXCEPT ![h] = v]
    BY <1>4
  <1>6. /\ sessions' \in [Handles -> Worker]
        /\ \A k \in Handles : WorkerInv(k, sessions'[k])
        /\ \A k \in Handles : k # h => sessions'[k] = sessions[k]
        /\ sessions'[h] = v
    BY <1>5, OneWorker
  <1>7. \A k \in Handles : sessions'[k].task = "closed" <=> sessions[k].task = "closed"
    BY <1>2, <1>5, <1>6
  <1>8. SessionInv' /\ \A k \in Handles : WorkerInv(k, sessions[k])'
    BY <1>1, <1>6, <1>7, SessionsMove
  <1>9. PhoneTypeOK'
    BY <1>1, <1>6 DEF PhoneInv, PhoneTypeOK
  <1> QED BY <1>1, <1>8, <1>9
          DEF PhoneInv, StartsInv, StoreInv, StopInv, ControlInv, HandleInv, EncoderInv, MainInv


-----------------------------------------------------------------------------
(***************************************************************************)
(* The invariant and what it says.                                         *)
(***************************************************************************)
\* Before the first press there is nothing but closed sessions.
LEMMA InitKeeps ==
    ASSUME Init
    PROVE  PhoneInv
  <1>1. /\ running = FALSE /\ stopping = FALSE /\ foreground = TRUE
        /\ presses = 0 /\ asking = 0 /\ owner = Nil /\ begun = Nil
        /\ main = <<>> /\ control = <<>> /\ encoder = <<>>
        /\ handle = Nil /\ sets = NoSource /\ timer = Nil
        /\ captureGen = Nil /\ capturing = FALSE /\ encoding = Nil /\ compressor = Nil
        /\ force = TRUE /\ pipeline = <<>> /\ delivering = <<>>
        /\ sessions = [h \in Handles |-> Closed]
    BY DEF Init, PublisherInit
  <1>2. /\ \A S : <<>> \in Seq(S)
        /\ DOMAIN <<>> = {} /\ Len(<<>>) = 0
    OBVIOUS
  <1>3. sessions \in [Handles -> Worker] /\ \A h \in Handles : sessions[h] = Closed
    BY <1>1, NewWorkers
  <1>4. PhoneTypeOK
    <2>1. /\ main \in Seq(MainBlock) /\ control \in Seq(ControlBlock)
          /\ encoder \in Seq(EncoderBlock) /\ pipeline \in Seq(Picture)
          /\ delivering \in Seq([frame : Picture, handle : Gens]) /\ Len(delivering) <= 1
      BY <1>1, <1>2
    <2>2. 0 \in 0 .. MaxStarts /\ Nil \in Gens /\ NoSource \in Sets /\ 0 \in Nat
      BY MaxStartsAssumption DEF Gens, Sets
    <2> QED BY <1>1, <1>3, <2>1, <2>2 DEF PhoneTypeOK
  <1>5. StartsInv
    BY <1>1, NoneWaiting DEF StartsInv, Nil
  <1>6. /\ Blocks(main) = {} /\ Blocks(control) = {} /\ Blocks(encoder) = {}
        /\ Ordered(main, MainNever) /\ Ordered(control, ControlNever)
        /\ Ordered(encoder, EncoderNever)
    BY <1>1, NoBlocks
  <1>7. StoreInv /\ StopInv
    BY <1>1, <1>6 DEF StoreInv, StopInv, Any
  <1>8. ControlInv /\ MainInv
    BY <1>1, <1>6 DEF ControlInv, MainInv, Any
  <1>9. HandleInv /\ EncoderInv
    BY <1>1, <1>2, <1>6 DEF HandleInv, EncoderInv
  <1>10. SessionInv
    BY <1>1, <1>3, <1>6, NewWorkers DEF SessionInv, IsOpen
  <1>11. \A h \in Handles : WorkerInv(h, sessions[h])
    BY <1>3, NewWorkers
  <1> QED BY <1>4, <1>5, <1>7, <1>8, <1>9, <1>10, <1>11 DEF PhoneInv

\* Every step of the application keeps the invariant.
LEMMA StepKeeps ==
    ASSUME PhoneInv, [Next]_vars
    PROVE  PhoneInv'
  <1>1. CASE UserStep \/ MainStep \/ ControlStep \/ Poll
    BY <1>1, UserKeeps, MainKeeps, ControlKeeps
  <1>2. CASE EncoderStep
    BY <1>2, ConfigureKeeps, StartRunningKeeps, ConfigureFailsKeeps, SetForceKeeps,
       StopCameraKeeps, CompleteFramesKeeps DEF EncoderStep
  <1>3. CASE Encode \/ EncodeFails \/ Encoded \/ Deliver
    BY <1>3, EncodeKeeps, EncodeFailsKeeps, EncodedKeeps, DeliverKeeps
  <1>4. CASE PublisherTask
    BY <1>4, TaskKeeps DEF PublisherTask
  <1>5. CASE UNCHANGED vars
    <2>1. UNCHANGED <<foreground, presses, asking, running, stopping, owner, begun, handle, timer,
                      sets, captureGen, capturing, encoding, compressor, force, pipeline,
                      delivering, main, control, encoder, sessions>>
      BY <1>5 DEF vars, userVars, storeVars, controlVars, encoderVars, frameVars, queueVars
    <2>2. PhoneTypeOK'
      BY <2>1 DEF PhoneInv, PhoneTypeOK
    <2>3. StartsInv' /\ StoreInv' /\ StopInv' /\ ControlInv'
      BY <2>1 DEF PhoneInv, StartsInv, StoreInv, StopInv, ControlInv
    <2>4. HandleInv' /\ EncoderInv' /\ MainInv' /\ SessionInv'
      BY <2>1 DEF PhoneInv, HandleInv, EncoderInv, MainInv, SessionInv, IsOpen
    <2>5. \A h \in Handles : WorkerInv(h, sessions[h])'
      BY <2>1 DEF PhoneInv
    <2> QED BY <2>2, <2>3, <2>4, <2>5 DEF PhoneInv
  <1> QED BY <1>1, <1>2, <1>3, <1>4, <1>5 DEF Next

\* The inductive invariant of the phone: the three queues, the state of the store, of
\* the encoder and of the library's sessions are of one and the same capture, and a
\* stop is at one place at a time (CameraStore.stop and CameraEncoder.stop).
THEOREM PhoneInvariant == Spec => []PhoneInv
  <1>1. Init => PhoneInv
    BY InitKeeps
  <1>2. PhoneInv /\ [Next]_vars => PhoneInv'
    BY StepKeeps
  <1> QED BY <1>1, <1>2, PTL DEF Spec

\* The types of the phone's state: no queue ever holds a block that it does not serve, and
\* no more starts begin than were pressed, so that every session has its handle.
THEOREM PhoneTypes == Spec => []PhoneTypeOK
  <1>1. PhoneInv => PhoneTypeOK
    BY DEF PhoneInv
  <1> QED BY <1>1, PhoneInvariant, PTL

\* When the store says that it has stopped, nothing of any capture is left: neither the
\* camera nor a frame, nor the timer, nor a session or publisher of the library.
THEOREM NothingIsLeft == Spec => []NothingSurvivesStop
  <1>1. ASSUME PhoneInv PROVE NothingSurvivesStop
    <2> SUFFICES ASSUME ~running, ~stopping
                 PROVE  /\ ~capturing /\ encoding = Nil /\ pipeline = <<>> /\ delivering = <<>>
                        /\ timer = Nil /\ handle = Nil
                        /\ \A h \in Handles : sessions[h].task \in {"closed", "none"}
      BY DEF NothingSurvivesStop
    <2>1. handle = Nil
      BY <1>1 DEF PhoneInv, HandleInv
    <2>2. Blocks(control) = {}
      BY <1>1, NoBlocks DEF PhoneInv, ControlInv
    <2>3. \A h \in Handles : ~IsOpen(h)
      BY <1>1, <2>1, <2>2, Named DEF PhoneInv, SessionInv
    <2> QED BY <1>1, <2>1, <2>3, NoCapture DEF IsOpen
  <1> QED BY <1>1, PhoneInvariant, PTL

\* A frame of the encoder's callback is given to a session that is still open: the
\* encoder has drained before the session it feeds is closed.
THEOREM FramesFindTheirSession == Spec => []FramesReachOpenSession
  <1>1. ASSUME PhoneInv PROVE FramesReachOpenSession
    <2> SUFFICES ASSUME NEW i \in DOMAIN delivering, delivering[i].handle # Nil
                 PROVE  IsOpen(delivering[i].handle)
      BY DEF FramesReachOpenSession
    <2>1. handle # Nil /\ delivering[i].handle = handle
      BY <1>1 DEF PhoneInv, HandleInv
    <2>2. running \/ Any(encoder, Stops)
      <3>1. DOMAIN <<>> = {}
        OBVIOUS
      <3> QED BY <1>1, <3>1 DEF PhoneInv, EncoderInv
    <2>3. ~Any(control, Closings)
      BY <1>1, <2>2 DEF PhoneInv, StoreInv, StopInv
    <2>4. ~Any(control, {"forget"})
      BY <2>3 DEF Any, Closings
    <2> QED BY <1>1, <2>1, <2>4 DEF PhoneInv, SessionInv
  <1> QED BY <1>1, PhoneInvariant, PTL

\* What a publisher has queued can be decoded with the parameter sets it announced, and
\* after any loss begins with a key frame (SessionWorker.frame, publisher's channel).
THEOREM QueuedFramesDecode == Spec => []WireDecodable
  <1>1. ASSUME PhoneInv PROVE WireDecodable
    <2> SUFFICES ASSUME NEW h \in Handles, NEW i \in DOMAIN sessions[h].frames
                 PROVE  /\ sessions[h].frames[i].key \/ sessions[h].frames[i].follows
                        /\ sessions[h].frames[i].source = sessions[h].announced
      BY DEF WireDecodable
    <2>1. WorkerInv(h, sessions[h])
      BY <1>1 DEF PhoneInv
    <2>2. DOMAIN <<>> = {}
      OBVIOUS
    <2> QED BY <2>1, <2>2 DEF WorkerInv
  <1> QED BY <1>1, PhoneInvariant, PTL

\* The failure that stops a running capture is its own, though the message that brings
\* it to the main thread does not say whose it is.
THEOREM FailuresAreCurrent == Spec => []FailureIsCurrent
  <1>1. ASSUME PhoneInv PROVE FailureIsCurrent
    <2> SUFFICES ASSUME NEW i \in DOMAIN main, main[i].do = "failed", running
                 PROVE  main[i].gen = owner
      BY DEF FailureIsCurrent
    <2>1. main[i] \in Blocks(main)
      BY DEF Blocks
    <2> QED BY <1>1, <2>1 DEF PhoneInv, MainInv, StoreInv
  <1> QED BY <1>1, PhoneInvariant, PTL
=============================================================================
