------------------------ MODULE ResourceReportProofs ------------------------
(***************************************************************************)
(* Proofs about ResourceReport, for every set of kinds and labels, number  *)
(* of ReSyncs and restarts and capacity of ResponseChan: its type          *)
(* invariant, that no status loop waits on a replaced channel that nobody  *)
(* closes, and that at rest the platform knows what is in the cluster.     *)
(***************************************************************************)
EXTENDS ResourceReport, SequenceTheorems, TLAPS

-----------------------------------------------------------------------------
\* The inductive invariant.

\* A status loop waits on a channel that was made.
WaitInv == \A g \in Gens : gens[g].loop = "wait" => gens[g].on # 0

\* As long as no two calls of ReSync meet, every channel is closed before the
\* next is made.
StopInv ==
  ~ghost.overlap =>
    /\ stopCh.making <= 1
    /\ \A c \in 1..stopCh.current : c # stopCh.current \/ stopCh.making = 1 => c \in stopCh.closed

IInv == TypeOK /\ WaitInv /\ StopInv

-----------------------------------------------------------------------------
\* Steps of one kind.

\* What the controllers, the cluster and the platform do leaves the generations
\* and the stop channel alone.
LEMMA OutsideGens ==
  ASSUME WaitInv, StopInv, UNCHANGED <<gens, stopCh>>, ghost'.overlap = ghost.overlap
  PROVE  WaitInv' /\ StopInv'
  BY DEF WaitInv, StopInv, Gens

\* A message that fits is appended.
LEMMA SendType ==
  ASSUME TypeOK, Room, NEW msg \in Messages, Send(msg)
  PROVE  chan' \in Seq(Messages) /\ Len(chan') <= ChanSize
<1>1. chan \in Seq(Messages) /\ ChanSize \in Nat
  BY ReportAssumption DEF TypeOK
<1>2. Append(chan, msg) \in Seq(Messages) /\ Len(Append(chan, msg)) = Len(chan) + 1
  BY <1>1, AppendProperties
<1>3. Len(chan) \in Nat
  BY <1>1, LenProperties
<1>4. QED
  BY <1>1, <1>2, <1>3 DEF Send, Room

\* The initial states satisfy the invariant.
LEMMA InitInv == Init => IInv
<1> SUFFICES ASSUME Init PROVE IInv
  OBVIOUS
<1> USE ReportAssumption DEF Init, Gens, Nothing
<1>1. cluster \in [Kinds -> Objects] /\ cache \in [Kinds -> Objects] /\ view \in [Kinds -> Objects]
  BY DEF Objects
<1>2. chan \in Seq(Messages) /\ gens \in Seq(Generations) /\ Len(chan) = 0 /\ Len(gens) = 0
  BY EmptySeq
<1>3. /\ stopCh \in Channels /\ ghost \in Ghosts /\ used \in Counters
  BY DEF Counters, Channels, Ghosts, NoChannel
<1>6. TypeOK
  BY <1>1, <1>2, <1>3 DEF TypeOK, NoChannel
<1>4. WaitInv /\ StopInv
  BY <1>2 DEF WaitInv, StopInv, NoChannel
<1>5. QED
  BY <1>4, <1>6 DEF IInv

\* The cluster, the caches and the controllers.
LEMMA ControllersInv ==
  ASSUME IInv, Changes \/ Notices \/ Reconciles \/ ReadFails \/ JobFinishes
  PROVE  IInv'
<1> USE ReportAssumption
<1>1. UNCHANGED <<gens, stopCh, life, ghost>>
  BY DEF Changes, Notices, Reconciles, ReadFails, JobFinishes
<1>2. WaitInv' /\ StopInv'
  BY <1>1, OutsideGens DEF IInv
<1>3. ASSUME chan' \in Seq(Messages), Len(chan') <= ChanSize, queue' \subseteq Kinds,
             forgotten' \subseteq Kinds, cluster' \in [Kinds -> Objects], cache' \in [Kinds -> Objects],
             used' \in Counters, view' = view
      PROVE  IInv'
  <2>1. TypeOK'
    BY <1>1, <1>3 DEF IInv, TypeOK, Gens
  <2>2. QED
    BY <1>2, <2>1 DEF IInv
<1>4. /\ chan \in Seq(Messages) /\ Len(chan) <= ChanSize /\ queue \subseteq Kinds /\ forgotten \subseteq Kinds
      /\ cluster \in [Kinds -> Objects] /\ cache \in [Kinds -> Objects]
      /\ used \in Counters
  BY DEF IInv, TypeOK
<1>5. ASSUME used.errors < MaxErrors
      PROVE  [used EXCEPT !.errors = @ + 1] \in Counters
  BY <1>4, <1>5 DEF Counters
<1>6. CASE Changes
  <2>1. PICK k \in Kinds, label \in Labels, gone \in BOOLEAN :
          cluster' = [cluster EXCEPT ![k] = IF gone THEN Nothing ELSE [v |-> used.changes + 1, label |-> label]]
    BY <1>6 DEF Changes
  <2>2. used.changes < MaxChanges /\ used' = [used EXCEPT !.changes = @ + 1]
    BY <1>6 DEF Changes
  <2>3. Nothing \in Objects /\ [v |-> used.changes + 1, label |-> label] \in Objects
    BY <1>4, <2>2 DEF Objects, Nothing, Counters
  <2>4. cluster' \in [Kinds -> Objects]
    BY <1>4, <2>1, <2>3
  <2>5. used' \in Counters
    BY <1>4, <2>2 DEF Counters
  <2>6. /\ view' = view /\ forgotten' = forgotten /\ chan' = chan /\ queue' = queue /\ cache' = cache
    BY <1>6 DEF Changes
  <2>7. QED
    BY <1>3, <1>4, <2>4, <2>5, <2>6, Zenon
<1>7. CASE Notices
  <2>1. PICK k \in Kinds : cache' = [cache EXCEPT ![k] = cluster[k]] /\ queue' = queue \cup {k}
    BY <1>7 DEF Notices
  <2>2. cache' \in [Kinds -> Objects] /\ queue' \subseteq Kinds
    BY <1>4, <2>1
  <2>3. /\ view' = view /\ forgotten' = forgotten /\ chan' = chan /\ used' = used /\ cluster' = cluster
    BY <1>7 DEF Notices
  <2>4. QED
    BY <1>3, <1>4, <2>2, <2>3, Zenon
<1>8. CASE Reconciles
  <2>1. PICK k \in queue :
          /\ IF Reports(k) THEN Room /\ Send([type |-> "resource", kind |-> k, obj |-> cache[k]])
             ELSE UNCHANGED chan
          /\ queue' = queue \ {k} /\ forgotten' = forgotten \ {k}
    BY <1>8 DEF Reconciles
  <2>2. [type |-> "resource", kind |-> k, obj |-> cache[k]] \in Messages
    BY <1>4, <2>1 DEF Messages
  <2>3. chan' \in Seq(Messages) /\ Len(chan') <= ChanSize
    BY <1>4, <2>1, <2>2, SendType DEF IInv
  <2>4. queue' \subseteq Kinds /\ forgotten' \subseteq Kinds
    BY <1>4, <2>1
  <2>5. /\ view' = view /\ used' = used /\ cluster' = cluster /\ cache' = cache
    BY <1>8 DEF Reconciles
  <2>6. QED
    BY <1>3, <1>4, <2>3, <2>4, <2>5, Zenon
<1>9. CASE ReadFails
  <2>1. /\ used' \in Counters
        /\ view' = view /\ chan' = chan /\ cluster' = cluster /\ cache' = cache
    BY <1>5, <1>9 DEF ReadFails
  <2>2. queue' \subseteq Kinds /\ forgotten' \subseteq Kinds
    BY <1>4, <1>9 DEF ReadFails
  <2>3. QED
    BY <1>3, <1>4, <2>1, <2>2, Zenon
<1>10. CASE JobFinishes
  <2>1. [type |-> "resource", kind |-> "Job", obj |-> cache["Job"]] \in Messages
    BY <1>4, <1>10 DEF JobFinishes, Messages
  <2>2. chan' \in Seq(Messages) /\ Len(chan') <= ChanSize
    BY <1>10, <2>1, SendType DEF JobFinishes, IInv
  <2>3. Nothing \in Objects
    BY ReportAssumption DEF Nothing, Objects
  <2>4. cluster' \in [Kinds -> Objects]
    BY <1>4, <1>10, <2>3 DEF JobFinishes
  <2>5. used' \in Counters
    BY <1>4, <1>5, <1>10 DEF JobFinishes
  <2>6. queue' \subseteq Kinds
    BY <1>4, <1>10 DEF JobFinishes
  <2>7. view' = view /\ forgotten' = forgotten /\ cache' = cache
    BY <1>10 DEF JobFinishes
  <2>8. QED
    BY <1>3, <1>4, <2>2, <2>4, <2>5, <2>6, <2>7, Zenon
<1>11. QED
  BY <1>6, <1>7, <1>8, <1>9, <1>10

-----------------------------------------------------------------------------
\* The goroutines of the generations.

\* What the goroutines leave alone, and what of the type is theirs to keep.
LEMMA GensStep ==
  ASSUME IInv, UNCHANGED <<cluster, cache, queue, view, forgotten>>, ghost' \in Ghosts,
         life' \in {"running", "stopping", "dead"},
         chan' \in Seq(Messages), Len(chan') <= ChanSize, gens' \in Seq(Generations),
         \A g \in 1..Len(gens') : gens'[g].on <= stopCh'.current,
         stopCh' \in Channels,
         stopCh'.closed \subseteq 1..stopCh'.current, stopCh'.current = Len(gens'),
         used' \in Counters
  PROVE  TypeOK'
  BY DEF IInv, TypeOK, Gens

\* A generation that is changed in its place.
LEMMA GensUpdate ==
  ASSUME TypeOK, NEW g \in Gens, NEW r \in Generations, r.on <= stopCh.current,
         gens' = [gens EXCEPT ![g] = r]
  PROVE  /\ gens' \in Seq(Generations) /\ Len(gens') = Len(gens) /\ Gens' = Gens
         /\ gens'[g] = r
         /\ \A h \in Gens : h # g => gens'[h] = gens[h]
         /\ \A h \in Gens : gens'[h].on <= stopCh.current
<1>1. gens \in Seq(Generations) /\ Gens = 1..Len(gens)
  BY DEF TypeOK, Gens
<1>2. gens' \in Seq(Generations) /\ Len(gens') = Len(gens)
  BY <1>1, ExceptSeq
<1>3. gens'[g] = r /\ \A h \in Gens : h # g => gens'[h] = gens[h]
  BY <1>1
<1>4. QED
  BY <1>1, <1>2, <1>3 DEF Gens, TypeOK

\* One generation goes on: its lister or its status loop.
LEMMA GoroutineStep ==
  ASSUME IInv, NEW g \in Gens, NEW r \in Generations, r.on <= stopCh.current,
         gens' = [gens EXCEPT ![g] = r],
         r.loop = "wait" => r.on # 0,
         UNCHANGED <<cluster, cache, queue, view, forgotten, ghost, stopCh>>,
         life' \in {"running", "stopping", "dead"}, used' \in Counters,
         chan' \in Seq(Messages), Len(chan') <= ChanSize
  PROVE  IInv'
<1>1. /\ gens' \in Seq(Generations) /\ Len(gens') = Len(gens) /\ Gens' = Gens
      /\ gens'[g] = r
      /\ \A h \in Gens : h # g => gens'[h] = gens[h]
      /\ \A h \in Gens : gens'[h].on <= stopCh.current
  BY GensUpdate DEF IInv
<1>2. TypeOK'
  <2>1. /\ ghost' \in Ghosts /\ stopCh' \in Channels
        /\ stopCh'.closed \subseteq 1..stopCh'.current /\ stopCh'.current = Len(gens')
    BY <1>1 DEF IInv, TypeOK
  <2>2. \A h \in 1..Len(gens') : gens'[h].on <= stopCh'.current
    BY <1>1 DEF Gens
  <2>3. QED
    BY <1>1, <2>1, <2>2, GensStep
<1>3. WaitInv'
  BY <1>1 DEF IInv, WaitInv
<1>4. StopInv'
  BY DEF IInv, StopInv
<1>5. QED
  BY <1>2, <1>3, <1>4 DEF IInv

\* The fields of a generation that a step of its goroutines changes.
LEMMA GensType ==
  ASSUME TypeOK, NEW g \in Gens
  PROVE  /\ gens[g] \in Generations /\ gens[g].on <= stopCh.current
         /\ gens[g].todo \in SUBSET Listed /\ gens[g].found \in SUBSET Listed
         /\ gens[g].absent \in SUBSET Listed /\ gens[g].skipped \in SUBSET Listed
         /\ stopCh.current \in Nat /\ stopCh.current # 0
         /\ chan \in Seq(Messages) /\ Len(chan) <= ChanSize
         /\ life \in {"running", "stopping", "dead"} /\ used \in Counters
<1>1. /\ gens \in Seq(Generations) /\ Gens = 1..Len(gens) /\ g \in 1..Len(gens)
      /\ stopCh.current = Len(gens) /\ stopCh.current \in Nat
  BY LenProperties DEF TypeOK, Gens
<1>2. gens[g] \in Generations
  BY <1>1
<1>3. QED
  BY <1>1, <1>2 DEF TypeOK, Generations

\* The listers.
LEMMA ListersInv ==
  ASSUME IInv, Lists \/ ListFails \/ SendsList
  PROVE  IInv'
<1> USE ReportAssumption
<1>1. TypeOK /\ WaitInv
  BY DEF IInv
<1>2. CASE Lists
  <2>1. PICK g \in Gens : \E k \in gens[g].todo :
          gens' = [gens EXCEPT ![g] = [gens[g] EXCEPT !.todo = gens[g].todo \ {k},
            !.found = gens[g].found \cup {h \in {k} : cluster[k] # Nothing /\ cluster[k].label = "release"},
            !.absent = gens[g].absent \cup {h \in {k} : ~(cluster[k] # Nothing /\ cluster[k].label = "release")}]]
    BY <1>2 DEF Lists
  <2>2. PICK k \in gens[g].todo :
          gens' = [gens EXCEPT ![g] = [gens[g] EXCEPT !.todo = gens[g].todo \ {k},
            !.found = gens[g].found \cup {h \in {k} : cluster[k] # Nothing /\ cluster[k].label = "release"},
            !.absent = gens[g].absent \cup {h \in {k} : ~(cluster[k] # Nothing /\ cluster[k].label = "release")}]]
    BY <2>1
  <2>3. PICK found \in SUBSET Listed, absent \in SUBSET Listed :
          /\ found = gens[g].found \cup {h \in {k} : cluster[k] # Nothing /\ cluster[k].label = "release"}
          /\ absent = gens[g].absent \cup {h \in {k} : ~(cluster[k] # Nothing /\ cluster[k].label = "release")}
    BY <1>1, <2>2, GensType
  <2>g. gens[g] \in Generations /\ gens[g].on <= stopCh.current
    BY <1>1, GensType
  <2>4. gens[g].todo \ {k} \in SUBSET Listed /\ gens[g].skipped \in SUBSET Listed
    BY <1>1, GensType
  <2>e. PICK gen \in Generations, todo \in SUBSET Listed, skipped \in SUBSET Listed :
          gen = gens[g] /\ todo = gens[g].todo \ {k} /\ skipped = gens[g].skipped
    BY <2>4, <2>g
  <2>f. PICK r : r = [gen EXCEPT !.todo = todo, !.found = found, !.absent = absent]
    OBVIOUS
  <2>5. r \in Generations /\ r.on = gens[g].on /\ r.loop = gens[g].loop
    BY <2>e, <2>f DEF Generations
  <2>9. r.on <= stopCh.current /\ (r.loop = "wait" => r.on # 0)
    BY <1>1, <2>5, GensType DEF WaitInv
  <2>7. gens' = [gens EXCEPT ![g] = r]
    BY <2>2, <2>3, <2>e, <2>f
  <2>6. /\ UNCHANGED <<cluster, cache, queue, view, forgotten, ghost, stopCh>>
        /\ life' \in {"running", "stopping", "dead"} /\ used' \in Counters
        /\ chan' \in Seq(Messages) /\ Len(chan') <= ChanSize
    BY <1>1, <1>2, <2>1, GensType DEF Lists
  <2>8. QED
    BY <2>5, <2>6, <2>7, <2>9, GoroutineStep
<1>3. CASE ListFails
  <2>0. PICK g \in Gens : \E k \in gens[g].todo :
          IF k = "StatefulSet"
          THEN /\ gens' = [gens EXCEPT ![g] = [gens[g] EXCEPT !.todo = gens[g].todo \ {k},
                                                    !.skipped = gens[g].skipped \cup {k}]]
               /\ UNCHANGED life
          ELSE life' = "dead" /\ UNCHANGED gens
    BY <1>3 DEF ListFails
  <2>1. PICK k \in gens[g].todo :
          IF k = "StatefulSet"
          THEN /\ gens' = [gens EXCEPT ![g] = [gens[g] EXCEPT !.todo = gens[g].todo \ {k},
                                                    !.skipped = gens[g].skipped \cup {k}]]
               /\ UNCHANGED life
          ELSE life' = "dead" /\ UNCHANGED gens
    BY <2>0
  <2>2. /\ UNCHANGED <<cluster, cache, queue, view, forgotten, ghost, stopCh, chan>>
        /\ life' \in {"running", "stopping", "dead"} /\ used' \in Counters
        /\ chan' \in Seq(Messages) /\ Len(chan') <= ChanSize
    <3>1. used.errors < MaxErrors /\ used' = [used EXCEPT !.errors = @ + 1]
      BY <1>3 DEF ListFails
    <3>2. used' \in Counters
      <4>1. used \in Counters
        BY <1>1 DEF TypeOK
      <4>2. QED
        BY <3>1, <4>1 DEF Counters
    <3>3. QED
      BY <1>1, <1>3, <2>1, <3>2, GensType DEF ListFails
  <2>3. CASE k = "StatefulSet"
    <3>g. gens[g] \in Generations /\ gens[g].on <= stopCh.current
      BY <1>1, GensType
    <3>1. /\ gens[g].todo \ {k} \in SUBSET Listed /\ gens[g].skipped \cup {k} \in SUBSET Listed
          /\ gens[g].found \in SUBSET Listed /\ gens[g].absent \in SUBSET Listed
      BY <1>1, <2>1, GensType
    <3>e. PICK gen \in Generations, todo \in SUBSET Listed, found \in SUBSET Listed,
               absent \in SUBSET Listed, skipped \in SUBSET Listed :
            gen = gens[g] /\ todo = gens[g].todo \ {k} /\ skipped = gens[g].skipped \cup {k}
      BY <3>1, <3>g
    <3>f. PICK r : r = [gen EXCEPT !.todo = todo, !.skipped = skipped]
      OBVIOUS
    <3>2. r \in Generations /\ r.on = gens[g].on /\ r.loop = gens[g].loop
      BY <3>e, <3>f DEF Generations
    <3>3. r.on <= stopCh.current /\ (r.loop = "wait" => r.on # 0)
      BY <1>1, <3>2, GensType DEF WaitInv
    <3>5. gens' = [gens EXCEPT ![g] = r]
      BY <2>1, <2>3, <3>e, <3>f
    <3>4. QED
      BY <2>2, <3>2, <3>3, <3>5, GoroutineStep
  <2>4. CASE k # "StatefulSet"
    <3>1. UNCHANGED gens
      BY <2>1, <2>4
    <3>2. TypeOK'
      BY <1>1, <2>2, <3>1 DEF TypeOK, Gens
    <3>3. WaitInv' /\ StopInv'
      BY <2>2, <3>1, OutsideGens DEF IInv
    <3>4. QED
      BY <3>2, <3>3 DEF IInv
  <2>5. QED
    BY <2>3, <2>4
<1>4. CASE SendsList
  <2>0. PICK g \in Gens : \E k \in gens[g].found \cup gens[g].absent :
          /\ Room
          /\ Send([type |-> "list", kind |-> k, there |-> k \in gens[g].found])
          /\ gens' = [gens EXCEPT ![g] = [gens[g] EXCEPT !.found = gens[g].found \ {k},
                                                    !.absent = gens[g].absent \ {k}]]
    BY <1>4 DEF SendsList
  <2>1. PICK k \in gens[g].found \cup gens[g].absent :
          /\ Room
          /\ Send([type |-> "list", kind |-> k, there |-> k \in gens[g].found])
          /\ gens' = [gens EXCEPT ![g] = [gens[g] EXCEPT !.found = gens[g].found \ {k},
                                                    !.absent = gens[g].absent \ {k}]]
    BY <2>0
  <2>g. gens[g] \in Generations /\ gens[g].on <= stopCh.current
    BY <1>1, GensType
  <2>2. /\ gens[g].found \ {k} \in SUBSET Listed /\ gens[g].absent \ {k} \in SUBSET Listed
        /\ gens[g].todo \in SUBSET Listed /\ gens[g].skipped \in SUBSET Listed
    BY <1>1, GensType
  <2>e. PICK gen \in Generations, todo \in SUBSET Listed, found \in SUBSET Listed,
             absent \in SUBSET Listed, skipped \in SUBSET Listed :
          gen = gens[g] /\ found = gens[g].found \ {k} /\ absent = gens[g].absent \ {k}
    BY <2>2, <2>g
  <2>f. PICK r : r = [gen EXCEPT !.found = found, !.absent = absent]
    OBVIOUS
  <2>3. r \in Generations /\ r.on = gens[g].on /\ r.loop = gens[g].loop
    BY <2>e, <2>f DEF Generations
  <2>4. r.on <= stopCh.current /\ (r.loop = "wait" => r.on # 0)
    BY <1>1, <2>3, GensType DEF WaitInv
  <2>9. gens' = [gens EXCEPT ![g] = r]
    BY <2>1, <2>e, <2>f
  <2>5. [type |-> "list", kind |-> k, there |-> k \in gens[g].found] \in Messages
    BY <1>1, <2>1, GensType DEF Messages
  <2>6. chan' \in Seq(Messages) /\ Len(chan') <= ChanSize
    BY <1>1, <2>1, <2>5, SendType
  <2>7. /\ UNCHANGED <<cluster, cache, queue, view, forgotten, ghost, stopCh>>
        /\ life' \in {"running", "stopping", "dead"} /\ used' \in Counters
    BY <1>1, <1>4, <2>1, GensType DEF SendsList
  <2>8. QED
    BY <2>3, <2>4, <2>6, <2>7, <2>9, GoroutineStep
<1>5. QED
  BY <1>2, <1>3, <1>4

\* The status loops.
LEMMA LoopsInv ==
  ASSUME IInv, StatusWaits \/ StatusTicks \/ StatusSends \/ StatusEnds
  PROVE  IInv'
<1> USE ReportAssumption
<1>1. TypeOK
  BY DEF IInv
<1>2. PICK g \in Gens, loop \in {"wait", "send", "ended"}, on \in {0, stopCh.current} :
        /\ gens' = [gens EXCEPT ![g] = [@ EXCEPT !.loop = loop, !.on = on]]
        /\ loop = "wait" => on = stopCh.current
  BY DEF StatusWaits, StatusTicks, StatusSends, StatusEnds
<1> DEFINE r == [gens[g] EXCEPT !.loop = loop, !.on = on]
<1>3. gens[g] \in Generations /\ stopCh.current \in Nat /\ stopCh.current # 0
  BY <1>1, GensType
<1>4. /\ r \in Generations /\ r.on = on /\ r.loop = loop
  <2>1. loop \in {"top", "wait", "send", "ended"} /\ on \in Nat
    BY <1>3
  <2>2. QED
    BY <1>3, <2>1 DEF Generations
<1>5. gens' = [gens EXCEPT ![g] = r]
  BY <1>2
<1> HIDE DEF r
<1>6. r.on <= stopCh.current /\ (r.loop = "wait" => r.on # 0)
  BY <1>2, <1>3, <1>4
<1>7. UNCHANGED chan \/ (Room /\ Send([type |-> "status"]))
  BY DEF StatusWaits, StatusTicks, StatusSends, StatusEnds
<1>8. chan' \in Seq(Messages) /\ Len(chan') <= ChanSize
  <2>1. [type |-> "status"] \in Messages
    BY DEF Messages
  <2>2. QED
    BY <1>1, <1>7, <2>1, GensType, SendType
<1>9. /\ UNCHANGED <<cluster, cache, queue, view, forgotten, ghost, stopCh>>
      /\ life' \in {"running", "stopping", "dead"} /\ used' \in Counters
  BY <1>1, <1>2, GensType DEF StatusWaits, StatusTicks, StatusSends, StatusEnds
<1>10. QED
  BY <1>4, <1>5, <1>6, <1>8, <1>9, GoroutineStep

-----------------------------------------------------------------------------
\* Shutdown, failure and ReSync.

\* WatcherCloses: the channel that is current is closed, or was before.
LEMMA WatcherClosesInv ==
  ASSUME IInv, WatcherCloses
  PROVE  IInv'
<1>1. PICK g \in Gens :
        /\ gens' = [gens EXCEPT ![g] = [@ EXCEPT !["watcher"] = "off"]]
        /\ IF stopCh.current \in stopCh.closed
           THEN life' = "dead" /\ UNCHANGED stopCh
           ELSE stopCh' = [stopCh EXCEPT !.closed = @ \cup {stopCh.current}] /\ UNCHANGED life
  BY DEF WatcherCloses
<1>2. /\ gens[g] \in Generations /\ gens[g].on <= stopCh.current /\ Gens = 1..Len(gens)
      /\ Len(gens) = stopCh.current /\ stopCh.current \in Nat
      /\ stopCh \in Channels
      /\ stopCh.closed \subseteq 1..stopCh.current
      /\ g \in 1..Len(gens)
  BY DEF IInv, TypeOK, Gens, Channels
<1> DEFINE r == [gens[g] EXCEPT !["watcher"] = "off"]
<1>3. /\ r \in Generations /\ r.on = gens[g].on /\ r.loop = gens[g].loop
  BY <1>2 DEF Generations
<1>4. gens' = [gens EXCEPT ![g] = r]
  BY <1>1
<1> HIDE DEF r
<1>5. /\ gens' \in Seq(Generations) /\ Len(gens') = Len(gens) /\ Gens' = Gens
      /\ gens'[g] = r
      /\ \A h \in Gens : h # g => gens'[h] = gens[h]
      /\ \A h \in Gens : gens'[h].on <= stopCh.current
  BY <1>2, <1>3, <1>4, GensUpdate DEF IInv
<1>6. /\ stopCh' \in Channels
      /\ stopCh'.current = stopCh.current /\ stopCh'.making = stopCh.making
      /\ stopCh'.closed = stopCh.closed \cup {stopCh.current}
      /\ stopCh'.closed \subseteq 1..stopCh.current
  <2>1. stopCh.current \in 1..stopCh.current
    BY <1>2
  <2>2. CASE stopCh.current \in stopCh.closed
    BY <1>1, <1>2, <2>2
  <2>3. CASE stopCh.current \notin stopCh.closed
    BY <1>1, <1>2, <2>1, <2>3 DEF Channels
  <2>4. QED
    BY <2>2, <2>3
<1>7. TypeOK'
  <2>1. /\ UNCHANGED <<cluster, cache, queue, view, forgotten>> /\ used' \in Counters
        /\ ghost' \in Ghosts
        /\ chan' \in Seq(Messages) /\ Len(chan') <= ChanSize
        /\ life' \in {"running", "stopping", "dead"}
    BY <1>1 DEF WatcherCloses, IInv, TypeOK
  <2>2. stopCh'.closed \subseteq 1..stopCh'.current /\ stopCh'.current = Len(gens')
    BY <1>2, <1>5, <1>6
  <2>3. \A h \in 1..Len(gens') : gens'[h].on <= stopCh'.current
    BY <1>2, <1>5, <1>6
  <2>4. QED
    BY <1>5, <1>6, <2>1, <2>2, <2>3, GensStep
<1>8. WaitInv'
  BY <1>3, <1>5 DEF IInv, WaitInv
<1>9. StopInv'
  BY <1>6 DEF WatcherCloses, IInv, StopInv
<1>10. QED
  BY <1>7, <1>8, <1>9 DEF IInv

\* ReSyncCloses: the old channel is closed, or the process ends.
LEMMA ReSyncClosesInv ==
  ASSUME IInv, ReSyncCloses
  PROVE  IInv'
<1>1. /\ UNCHANGED <<cluster, cache, queue, chan, view, forgotten, gens>>
      /\ used.resyncs < MaxReSyncs /\ used' = [used EXCEPT !.resyncs = @ + 1]
      /\ IF stopCh.current \in stopCh.closed
         THEN life' = "dead" /\ UNCHANGED <<stopCh, ghost>>
         ELSE /\ stopCh' = [stopCh EXCEPT !.closed = @ \cup ({stopCh.current} \ {0}), !.making = @ + 1]
              /\ ghost' = [ghost EXCEPT !.overlap = @ \/ stopCh.making > 0]
              /\ UNCHANGED life
  BY DEF ReSyncCloses, ClosesChannel
<1>2. /\ stopCh \in Channels /\ ghost \in Ghosts
      /\ stopCh.closed \subseteq 1..stopCh.current /\ stopCh.current = Len(gens)
      /\ gens \in Seq(Generations) /\ \A g \in 1..Len(gens) : gens[g].on <= stopCh.current
      /\ chan \in Seq(Messages) /\ Len(chan) <= ChanSize
      /\ life \in {"running", "stopping", "dead"}
  BY DEF IInv, TypeOK, Gens
<1>3. used' \in Counters
  <2>1. used \in Counters
    BY DEF IInv, TypeOK
  <2>2. QED
    BY <1>1, <2>1, ReportAssumption DEF Counters
<1>4. CASE stopCh.current \in stopCh.closed
  <2>1. TypeOK'
    BY <1>1, <1>2, <1>3, <1>4, GensStep
  <2>2. WaitInv' /\ StopInv'
    BY <1>1, <1>4, OutsideGens DEF IInv
  <2>3. QED
    BY <2>1, <2>2 DEF IInv
<1>5. CASE stopCh.current \notin stopCh.closed
  <2>1. /\ stopCh' = [stopCh EXCEPT !.closed = @ \cup ({stopCh.current} \ {0}), !.making = @ + 1]
        /\ ghost' = [ghost EXCEPT !.overlap = @ \/ stopCh.making > 0]
        /\ life' = life
    BY <1>1, <1>5
  <2>2. /\ stopCh' \in Channels /\ stopCh'.current = stopCh.current
        /\ stopCh'.making = stopCh.making + 1
        /\ stopCh'.closed = stopCh.closed \cup ({stopCh.current} \ {0})
        /\ stopCh.current \in Nat /\ stopCh.making \in Nat
    <3>1. /\ stopCh.current \in Nat /\ stopCh.making \in Nat /\ stopCh.closed \in SUBSET Nat
          /\ stopCh = [current |-> stopCh.current, closed |-> stopCh.closed, making |-> stopCh.making]
      BY <1>2 DEF Channels
    <3>2. stopCh' = [current |-> stopCh.current, closed |-> stopCh.closed \cup ({stopCh.current} \ {0}),
                     making |-> stopCh.making + 1]
      BY <2>1, <3>1
    <3>3. QED
      BY <3>1, <3>2 DEF Channels
  <2>3. stopCh'.closed \subseteq 1..stopCh'.current
    BY <1>2, <2>2
  <2>4. ghost' \in Ghosts /\ (~ghost'.overlap => ~ghost.overlap /\ ~(stopCh.making > 0))
    BY <1>2, <2>1 DEF Ghosts
  <2>5. TypeOK'
    BY <1>1, <1>2, <1>3, <2>1, <2>2, <2>3, <2>4, GensStep
  <2>6. WaitInv'
    BY <1>1 DEF IInv, WaitInv, Gens
  <2>7. StopInv'
    <3> SUFFICES ASSUME ~ghost'.overlap
                 PROVE  /\ stopCh'.making <= 1
                        /\ \A c \in 1..stopCh'.current : c \in stopCh'.closed
      BY DEF StopInv
    <3>1. stopCh.making = 0
      BY <2>2, <2>4
    <3>2. \A c \in 1..stopCh.current : c # stopCh.current => c \in stopCh.closed
      BY <2>4 DEF IInv, StopInv
    <3>3. QED
      BY <2>2, <3>1, <3>2
  <2>8. QED
    BY <2>5, <2>6, <2>7 DEF IInv
<1>6. QED
  BY <1>4, <1>5

\* ReSyncMakes: the next channel, with a generation that waits on none yet.
LEMMA ReSyncMakesInv ==
  ASSUME IInv, ReSyncMakes
  PROVE  IInv'
<1>1. /\ UNCHANGED <<cluster, cache, queue, chan, view, forgotten, life, ghost, used>>
      /\ stopCh.making > 0
      /\ stopCh' = [stopCh EXCEPT !.current = @ + 1, !.making = @ - 1]
      /\ gens' = Append(gens, NewGen)
  BY DEF ReSyncMakes
<1>2. /\ stopCh \in Channels /\ ghost \in Ghosts /\ used \in Counters
      /\ stopCh.closed \subseteq 1..stopCh.current /\ stopCh.current = Len(gens)
      /\ gens \in Seq(Generations) /\ \A g \in 1..Len(gens) : gens[g].on <= stopCh.current
      /\ \A g \in 1..Len(gens) : gens[g] \in Generations
      /\ chan \in Seq(Messages) /\ Len(chan) <= ChanSize
      /\ life \in {"running", "stopping", "dead"}
  BY DEF IInv, TypeOK, Gens
<1>3. NewGen \in Generations /\ NewGen.loop = "top" /\ NewGen.on = 0
  BY DEF NewGen, Generations
<1>4. /\ gens' \in Seq(Generations) /\ Len(gens') = Len(gens) + 1
      /\ \A h \in 1..Len(gens) : gens'[h] = gens[h]
      /\ gens'[Len(gens) + 1] = NewGen
  BY <1>1, <1>2, <1>3, AppendProperties
<1>5. /\ stopCh' \in Channels /\ stopCh'.current = stopCh.current + 1
      /\ stopCh'.making = stopCh.making - 1 /\ stopCh'.closed = stopCh.closed
      /\ stopCh.current \in Nat /\ stopCh.making \in Nat
  <2>1. /\ stopCh.current \in Nat /\ stopCh.making \in Nat /\ stopCh.closed \in SUBSET Nat
        /\ stopCh = [current |-> stopCh.current, closed |-> stopCh.closed, making |-> stopCh.making]
    BY <1>2 DEF Channels
  <2>2. stopCh' = [current |-> stopCh.current + 1, closed |-> stopCh.closed,
                   making |-> stopCh.making - 1]
    BY <1>1, <2>1
  <2>3. stopCh.making - 1 \in Nat
    BY <1>1, <2>1
  <2>4. QED
    BY <2>1, <2>2, <2>3 DEF Channels
<1>6. stopCh'.closed \subseteq 1..stopCh'.current /\ stopCh'.current = Len(gens')
  BY <1>2, <1>4, <1>5
<1>7. \A h \in 1..Len(gens') : h \in 1..Len(gens) \/ h = Len(gens) + 1
  BY <1>2, <1>4, <1>5
<1>8. \A h \in 1..Len(gens') : gens'[h].on <= stopCh'.current
  <2> TAKE h \in 1..Len(gens')
  <2>1. CASE h \in 1..Len(gens)
    <3>1. gens'[h] = gens[h] /\ gens[h].on <= stopCh.current /\ gens[h].on \in Nat
      BY <1>2, <1>4, <2>1 DEF Generations
    <3>2. QED
      BY <1>5, <3>1
  <2>2. CASE h = Len(gens) + 1
    BY <1>3, <1>4, <1>5, <2>2
  <2>3. QED
    BY <1>7, <2>1, <2>2
<1>9. TypeOK'
  BY <1>1, <1>2, <1>4, <1>5, <1>6, <1>8, GensStep
<1>10. WaitInv'
  BY <1>3, <1>4, <1>7 DEF IInv, WaitInv, Gens
<1>11. StopInv'
  <2> SUFFICES ASSUME ~ghost.overlap
               PROVE  /\ stopCh'.making = 0
                      /\ \A c \in 1..stopCh'.current : c # stopCh'.current => c \in stopCh.closed
    BY <1>1, <1>5 DEF StopInv
  <2>1. stopCh.making = 1
    BY <1>1, <1>5 DEF IInv, StopInv
  <2>2. \A c \in 1..stopCh.current : c \in stopCh.closed
    BY <2>1 DEF IInv, StopInv
  <2>3. QED
    BY <1>5, <2>1, <2>2
<1>12. QED
  BY <1>9, <1>10, <1>11 DEF IInv

\* The begin of the shutdown.
LEMMA StopsInv ==
  ASSUME IInv, Stops
  PROVE  IInv'
<1>1. /\ UNCHANGED <<cluster, cache, queue, chan, view, forgotten, gens, stopCh, ghost>>
      /\ life' = "stopping" /\ used.errors < MaxErrors /\ used' = [used EXCEPT !.errors = @ + 1]
  BY DEF Stops
<1>2. used' \in Counters
  <2>1. used \in Counters
    BY DEF IInv, TypeOK
  <2>2. QED
    BY <1>1, <2>1, ReportAssumption DEF Counters
<1>3. TypeOK'
  BY <1>1, <1>2 DEF IInv, TypeOK, Gens
<1>4. WaitInv' /\ StopInv'
  BY <1>1, OutsideGens DEF IInv
<1>5. QED
  BY <1>3, <1>4 DEF IInv

\* A new process has no generation yet.
LEMMA RestartsInv ==
  ASSUME IInv, Restarts
  PROVE  IInv'
<1>1. gens' = << >> /\ chan' = << >> /\ stopCh' = NoChannel /\ life' = "running" /\ forgotten' = {}
  BY DEF Restarts
<1>2. gens' \in Seq(Generations) /\ chan' \in Seq(Messages) /\ Len(gens') = 0 /\ Len(chan') = 0
  BY <1>1, EmptySeq
<1>3. Gens' = {}
  BY <1>2 DEF Gens
<1>4. used' \in Counters
  <2>1. used \in Counters /\ used.starts < MaxStarts /\ used' = [used EXCEPT !.starts = @ + 1]
    BY DEF Restarts, IInv, TypeOK
  <2>2. QED
    BY <2>1, ReportAssumption DEF Counters
<1>5. ghost' \in Ghosts
  <2>1. ghost \in Ghosts
    BY DEF IInv, TypeOK
  <2>2. QED
    BY <2>1 DEF Restarts, Ghosts
<1>6. /\ cluster' \in [Kinds -> Objects] /\ cache' \in [Kinds -> Objects] /\ view' \in [Kinds -> Objects]
      /\ queue' \subseteq Kinds
  BY DEF Restarts, IInv, TypeOK
<1>7. stopCh' \in Channels /\ stopCh'.closed = {} /\ stopCh'.current = 0 /\ stopCh'.making = 0
  BY <1>1 DEF NoChannel, Channels
<1>8. TypeOK'
  BY <1>1, <1>2, <1>3, <1>4, <1>5, <1>6, <1>7, ReportAssumption DEF TypeOK
<1>9. WaitInv' /\ StopInv'
  BY <1>3, <1>7 DEF WaitInv, StopInv
<1>10. QED
  BY <1>8, <1>9 DEF IInv

\* The platform takes a message.
LEMMA DeliversInv ==
  ASSUME IInv, Delivers
  PROVE  IInv'
<1>1. UNCHANGED <<cluster, cache, queue, forgotten, gens, stopCh, life, used>>
  BY DEF Delivers
<1>2. /\ chan \in Seq(Messages) /\ chan # << >> /\ Len(chan) <= ChanSize
      /\ view \in [Kinds -> Objects] /\ cluster \in [Kinds -> Objects]
      /\ ghost \in Ghosts
  BY DEF Delivers, IInv, TypeOK
<1>3. /\ Head(chan) \in Messages
      /\ chan' \in Seq(Messages) /\ Len(chan') = Len(chan) - 1
  BY <1>2, HeadTailProperties, EmptySeq DEF Delivers
<1>4. Len(chan') <= ChanSize
  BY <1>2, <1>3, LenProperties, ReportAssumption
<1>5. view' \in [Kinds -> Objects] /\ ghost' \in Ghosts /\ ghost'.overlap = ghost.overlap
  <2> DEFINE msg == Head(chan)
  <2>1. Nothing \in Objects
    BY ReportAssumption DEF Nothing, Objects
  <2>2. CASE msg.type = "resource"
    <3>1. msg.kind \in Kinds /\ msg.obj \in Objects
      BY <1>3, <2>2 DEF Messages
    <3>2. /\ view' = [view EXCEPT ![msg.kind] = msg.obj]
          /\ ghost' = [ghost EXCEPT !.missed = @ \ {msg.kind}, !.pruned = @ \ {msg.kind},
                                    !.named = @ \ {msg.kind}]
      BY <2>2 DEF Delivers
    <3>3. QED
      BY <1>2, <3>1, <3>2 DEF Ghosts
  <2>3. CASE msg.type = "list"
    <3>1. /\ view' = [k \in Kinds |-> IF k \in Unlisted(msg) THEN Nothing ELSE view[k]]
          /\ ghost' = [ghost EXCEPT !.missed = @ \ Unlisted(msg),
                         !.pruned = @ \cup {k \in Unlisted(msg) : cluster[k] # Nothing},
                         !.named = @ \cup {k \in {msg.kind} : msg.there}]
      BY <2>3 DEF Delivers
    <3>2. msg.kind \in Kinds /\ Unlisted(msg) \subseteq Kinds
      BY <1>3, <2>3 DEF Unlisted, Listed, Messages
    <3>3. QED
      BY <1>2, <2>1, <3>1, <3>2 DEF Ghosts
  <2>4. CASE msg.type = "status"
    BY <1>2, <2>4 DEF Delivers
  <2>5. QED
    BY <2>2, <2>3, <2>4 DEF Delivers
<1>6. TypeOK'
  BY <1>1, <1>3, <1>4, <1>5 DEF IInv, TypeOK, Gens
<1>7. QED
  BY <1>1, <1>5, <1>6, OutsideGens DEF IInv

\* Every step keeps the invariant.
LEMMA NextInv == IInv /\ [Next]_vars => IInv'
<1> SUFFICES ASSUME IInv, [Next]_vars
             PROVE  IInv'
  OBVIOUS
<1>1. CASE Changes \/ Notices \/ Reconciles \/ ReadFails \/ JobFinishes
  BY <1>1, ControllersInv
<1>2. CASE Lists \/ ListFails \/ SendsList
  BY <1>2, ListersInv
<1>3. CASE StatusWaits \/ StatusTicks \/ StatusSends \/ StatusEnds
  BY <1>3, LoopsInv
<1>4. CASE WatcherCloses
  BY <1>4, WatcherClosesInv
<1>5. CASE ReSyncCloses
  BY <1>5, ReSyncClosesInv
<1>6. CASE ReSyncMakes
  BY <1>6, ReSyncMakesInv
<1>7. CASE Stops
  BY <1>7, StopsInv
<1>8. CASE Restarts
  BY <1>8, RestartsInv
<1>9. CASE Delivers
  BY <1>9, DeliversInv
<1>10. CASE UNCHANGED vars
  BY <1>10 DEF vars, IInv, TypeOK, WaitInv, StopInv, Gens
<1>11. QED
  BY <1>1, <1>2, <1>3, <1>4, <1>5, <1>6, <1>7, <1>8, <1>9, <1>10 DEF Next, Agent

\* The invariant holds in every reachable state.
LEMMA SpecInv == Spec => []IInv
<1>1. QED
  BY InitInv, NextInv, PTL DEF Spec

-----------------------------------------------------------------------------
\* What the platform knows.

\* The reports of one resource that are on their way; the last of them counts.
Sent(k) == {i \in 1..Len(chan) : chan[i].type = "resource" /\ chan[i].kind = k}
LastSent(k, obj) == \E i \in Sent(k) : chan[i].obj = obj /\ \A j \in Sent(k) : j <= i

\* A list of the kind is on its way, or a lister has still to read or to send it,
\* or has skipped it.
ListSent(k) == \E i \in 1..Len(chan) : chan[i].type = "list" /\ chan[i].kind = k
Pending(gen) == gen.todo \cup gen.found \cup gen.absent \cup gen.skipped

\* Of what the controllers have seen, the platform knows: or it has been misled
\* by a list or by a restart, or the controllers are about to see a change.
Known(k) ==
  \/ view[k] = cache[k]
  \/ cache[k] = Nothing /\ k \in ghost.missed
  \/ cache[k] # Nothing /\ (k \in ghost.pruned \/ cache[k] # cluster[k])

\* A version that was seen does not come again.
VersionInv ==
  \A k \in Kinds : cluster[k].v <= used.changes /\ cache[k].v <= used.changes

\* What need not be reconciled has been reported, unless its read was forgotten.
SettledInv ==
  \A k \in Kinds \ queue :
    Reports(k) => \/ k \in forgotten /\ ~Controller[k].gone
                  \/ LastSent(k, cache[k])
                  \/ Sent(k) = {} /\ Known(k)

\* What a restart missed is found by the lists that are under way, as long as no
\* list has been through.
ListInv ==
  \A k \in Listed \cap ghost.missed :
    view[k].label = "release" =>
      k \in ghost.named \/ ListSent(k) \/ \A g \in Gens : k \in Pending(gens[g])

ViewInv == VersionInv /\ SettledInv /\ ListInv

\* A message that is sent comes after the others.
LEMMA SendSent ==
  ASSUME TypeOK, NEW msg \in Messages, Send(msg), NEW k
  PROVE  /\ ListSent(k) => ListSent(k)'
         /\ msg.type = "list" /\ msg.kind = k => ListSent(k)'
         /\ msg.type = "resource" /\ msg.kind = k => LastSent(k, msg.obj)'
         /\ ~(msg.type = "resource" /\ msg.kind = k)
              => Sent(k)' = Sent(k) /\ \A obj : LastSent(k, obj) => LastSent(k, obj)'
<1>1. /\ chan \in Seq(Messages) /\ Len(chan) \in Nat
      /\ chan' = Append(chan, msg)
  BY LenProperties DEF TypeOK, Send
<1>2. /\ Len(chan') = Len(chan) + 1 /\ chan'[Len(chan) + 1] = msg
      /\ \A i \in 1..Len(chan) : chan'[i] = chan[i]
  BY <1>1, AppendProperties
<1>3. \A i \in 1..Len(chan') : i \in 1..Len(chan) \/ i = Len(chan) + 1
  BY <1>1, <1>2
<1>4. Len(chan) + 1 \in 1..Len(chan') /\ 1..Len(chan) \subseteq 1..Len(chan')
  BY <1>1, <1>2
<1>5. (ListSent(k) => ListSent(k)') /\ (msg.type = "list" /\ msg.kind = k => ListSent(k)')
  BY <1>2, <1>4 DEF ListSent
<1>6. CASE msg.type = "resource" /\ msg.kind = k
  <2>1. Len(chan) + 1 \in Sent(k)'
    BY <1>2, <1>4, <1>6 DEF Sent
  <2>2. \A j \in Sent(k)' : j <= Len(chan) + 1
    BY <1>1, <1>2 DEF Sent
  <2>3. QED
    BY <1>2, <1>5, <1>6, <2>1, <2>2 DEF LastSent
<1>7. CASE ~(msg.type = "resource" /\ msg.kind = k)
  <2>1. Sent(k)' = Sent(k)
    BY <1>2, <1>3, <1>4, <1>7 DEF Sent
  <2>2. \A i \in Sent(k) : chan'[i] = chan[i]
    BY <1>2 DEF Sent
  <2>3. QED
    BY <1>5, <1>7, <2>1, <2>2 DEF LastSent
<1>8. QED
  BY <1>6, <1>7

\* A message that is taken was before the others.
LEMMA TailSent ==
  ASSUME TypeOK, chan # << >>, chan' = Tail(chan), NEW k
  PROVE  /\ ListSent(k) => ListSent(k)' \/ (Head(chan).type = "list" /\ Head(chan).kind = k)
         /\ Sent(k) = {} => /\ Sent(k)' = {}
                            /\ ~(Head(chan).type = "resource" /\ Head(chan).kind = k)
         /\ \A obj : LastSent(k, obj) =>
              \/ LastSent(k, obj)'
              \/ /\ Sent(k)' = {} /\ Head(chan).type = "resource"
                 /\ Head(chan).kind = k /\ Head(chan).obj = obj
<1>1. /\ chan \in Seq(Messages) /\ Len(chan) \in Nat /\ Len(chan) # 0
  BY LenProperties, EmptySeq DEF TypeOK
<1>2. /\ Len(chan') = Len(chan) - 1 /\ Head(chan) = chan[1]
      /\ \A i \in 1..Len(chan') : chan'[i] = chan[i + 1]
  BY <1>1, HeadTailProperties
<1>3. \A i \in 1..Len(chan') : i + 1 \in 1..Len(chan)
  BY <1>1, <1>2
<1>4. \A i \in 1..Len(chan) : i # 1 => i - 1 \in 1..Len(chan') /\ chan'[i - 1] = chan[i]
  BY <1>1, <1>2
<1>5. 1 \in 1..Len(chan)
  BY <1>1
<1>6. ListSent(k) => ListSent(k)' \/ (Head(chan).type = "list" /\ Head(chan).kind = k)
  BY <1>2, <1>4 DEF ListSent
<1>7. \A i \in Sent(k)' : i + 1 \in Sent(k)
  BY <1>2, <1>3 DEF Sent
<1>8. \A i \in Sent(k) : i # 1 => i - 1 \in Sent(k)' /\ chan'[i - 1] = chan[i]
  BY <1>4 DEF Sent
<1>9. Sent(k) = {} => /\ Sent(k)' = {}
                      /\ ~(Head(chan).type = "resource" /\ Head(chan).kind = k)
  BY <1>2, <1>5, <1>7 DEF Sent
<1>10. ASSUME NEW obj, LastSent(k, obj)
       PROVE  \/ LastSent(k, obj)'
              \/ /\ Sent(k)' = {} /\ Head(chan).type = "resource"
                 /\ Head(chan).kind = k /\ Head(chan).obj = obj
  <2>1. PICK i \in Sent(k) : chan[i].obj = obj /\ \A j \in Sent(k) : j <= i
    BY <1>10 DEF LastSent
  <2>2. /\ i \in 1..Len(chan) /\ chan[i].type = "resource" /\ chan[i].kind = k
        /\ \A j \in Sent(k)' : j \in Nat \ {0}
    BY <1>1, <1>2 DEF Sent
  <2>3. CASE i = 1
    <3>1. \A j \in Sent(k)' : j + 1 <= 1
      BY <1>7, <2>1, <2>3
    <3>2. Sent(k)' = {}
      BY <2>2, <3>1
    <3>3. QED
      BY <1>2, <2>1, <2>2, <2>3, <3>2
  <2>4. CASE i # 1
    <3>1. i - 1 \in Sent(k)' /\ chan'[i - 1].obj = obj
      BY <1>8, <2>1, <2>4
    <3>2. \A j \in Sent(k)' : j <= i - 1
      BY <1>7, <2>1, <2>2
    <3>3. QED
      BY <3>1, <3>2 DEF LastSent
  <2>5. QED
    BY <2>3, <2>4
<1>11. QED
  BY <1>6, <1>9, <1>10

\* The goroutines of the generations change nothing the platform knows; a list
\* stays under way.
LEMMA ViewKept ==
  ASSUME ViewInv, UNCHANGED <<cluster, cache, queue, view, forgotten, ghost>>,
         used'.changes = used.changes,
         \A k : Sent(k)' = Sent(k) /\ \A obj : LastSent(k, obj) => LastSent(k, obj)',
         \A k : ListSent(k) => ListSent(k)',
         \A k \in Listed : (\A g \in Gens : k \in Pending(gens[g]))
                             => ListSent(k)' \/ \A g \in Gens' : k \in Pending(gens'[g])
  PROVE  ViewInv'
<1>1. VersionInv'
  BY DEF ViewInv, VersionInv
<1>2. SettledInv'
  BY DEF ViewInv, SettledInv, Reports, Known
<1>3. ListInv'
  BY DEF ViewInv, ListInv
<1>4. QED
  BY <1>1, <1>2, <1>3 DEF ViewInv

\* One generation goes on.
LEMMA GenerationKept ==
  ASSUME IInv, ViewInv, UNCHANGED <<cluster, cache, queue, view, forgotten, ghost>>,
         used'.changes = used.changes,
         NEW g \in Gens, NEW r, gens' = [gens EXCEPT ![g] = r],
         \A k \in Listed : k \in Pending(gens[g]) => k \in Pending(r) \/ ListSent(k)',
         UNCHANGED chan \/ \E msg \in Messages : msg.type # "resource" /\ Send(msg)
  PROVE  ViewInv'
<1>1. TypeOK
  BY DEF IInv
<1>2. Len(gens') = Len(gens) /\ Gens' = Gens /\ \A h \in Gens : gens'[h] = IF h = g THEN r ELSE gens[h]
  <2>1. gens \in Seq(Generations) /\ Gens = 1..Len(gens)
    BY <1>1 DEF TypeOK, Gens
  <2>2. QED
    BY <2>1 DEF Gens
<1>3. /\ \A k : Sent(k)' = Sent(k) /\ \A obj : LastSent(k, obj) => LastSent(k, obj)'
      /\ \A k : ListSent(k) => ListSent(k)'
  <2>1. CASE UNCHANGED chan
    BY <2>1 DEF Sent, LastSent, ListSent
  <2>2. CASE \E msg \in Messages : msg.type # "resource" /\ Send(msg)
    BY <1>1, <2>2, SendSent
  <2>3. QED
    BY <2>1, <2>2
<1>4. QED
  BY <1>2, <1>3, ViewKept

\* The listers: what is read has to be sent, and what is sent is on its way.
LEMMA ListerSteps ==
  ASSUME IInv, ViewInv, Lists \/ ListFails \/ SendsList
  PROVE  ViewInv'
<1>1. TypeOK /\ UNCHANGED <<cluster, cache, queue, view, forgotten, ghost>>
  BY DEF IInv, Lists, ListFails, SendsList
<1>2. used'.changes = used.changes
  BY <1>1 DEF Lists, ListFails, SendsList, TypeOK, Counters
<1>3. CASE Lists
  <2>1. PICK g \in Gens : \E k \in gens[g].todo :
          gens' = [gens EXCEPT ![g] = [gens[g] EXCEPT !.todo = gens[g].todo \ {k},
            !.found = gens[g].found \cup {h \in {k} : cluster[k] # Nothing /\ cluster[k].label = "release"},
            !.absent = gens[g].absent \cup {h \in {k} : ~(cluster[k] # Nothing /\ cluster[k].label = "release")}]]
    BY <1>3 DEF Lists
  <2>0. PICK k \in gens[g].todo :
          gens' = [gens EXCEPT ![g] = [gens[g] EXCEPT !.todo = gens[g].todo \ {k},
            !.found = gens[g].found \cup {h \in {k} : cluster[k] # Nothing /\ cluster[k].label = "release"},
            !.absent = gens[g].absent \cup {h \in {k} : ~(cluster[k] # Nothing /\ cluster[k].label = "release")}]]
    BY <2>1
  <2>2. PICK gen, todo, found, absent :
          /\ gen \in Generations /\ gen = gens[g] /\ todo = gens[g].todo \ {k}
          /\ found = gens[g].found \cup {h \in {k} : cluster[k] # Nothing /\ cluster[k].label = "release"}
          /\ absent = gens[g].absent \cup {h \in {k} : ~(cluster[k] # Nothing /\ cluster[k].label = "release")}
    BY <1>1, GensType
  <2>3. PICK r : r = [gen EXCEPT !.todo = todo, !.found = found, !.absent = absent]
    OBVIOUS
  <2>7. gens' = [gens EXCEPT ![g] = r]
    BY <2>0, <2>2, <2>3
  <2>4. r.todo = todo /\ r.found = found /\ r.absent = absent /\ r.skipped = gen.skipped
    BY <2>2, <2>3 DEF Generations
  <2>5. \A h \in Pending(gens[g]) : h \in Pending(r)
    BY <2>2, <2>4 DEF Pending
  <2>6. QED
    BY <1>1, <1>2, <1>3, <2>5, <2>7, GenerationKept DEF Lists
<1>4. CASE ListFails
  <2>1. PICK g \in Gens : \E k \in gens[g].todo :
          \/ gens' = [gens EXCEPT ![g] = [gens[g] EXCEPT !.todo = gens[g].todo \ {k},
                                                         !.skipped = gens[g].skipped \cup {k}]]
          \/ UNCHANGED gens
    BY <1>4 DEF ListFails
  <2>2. UNCHANGED chan
    BY <1>4 DEF ListFails
  <2>3. CASE UNCHANGED gens
    BY <1>1, <1>2, <2>2, <2>3, ViewKept DEF Sent, LastSent, ListSent, Gens
  <2>4. CASE ~UNCHANGED gens
    <3>0. PICK k \in gens[g].todo :
            gens' = [gens EXCEPT ![g] = [gens[g] EXCEPT !.todo = gens[g].todo \ {k},
                                                        !.skipped = gens[g].skipped \cup {k}]]
      BY <2>1, <2>4
    <3>1. PICK gen, todo, skipped :
            gen \in Generations /\ gen = gens[g] /\ todo = gens[g].todo \ {k} /\ skipped = gens[g].skipped \cup {k}
      BY <1>1, GensType
    <3>2. PICK r : r = [gen EXCEPT !.todo = todo, !.skipped = skipped]
      OBVIOUS
    <3>6. gens' = [gens EXCEPT ![g] = r]
      BY <3>0, <3>1, <3>2
    <3>3. r.todo = todo /\ r.found = gen.found /\ r.absent = gen.absent /\ r.skipped = skipped
      BY <3>1, <3>2 DEF Generations
    <3>4. \A h \in Pending(gens[g]) : h \in Pending(r)
      BY <3>1, <3>3 DEF Pending
    <3>5. QED
      BY <1>1, <1>2, <2>2, <3>4, <3>6, GenerationKept
  <2>5. QED
    BY <2>3, <2>4
<1>5. CASE SendsList
  <2>1. PICK g \in Gens : \E k \in gens[g].found \cup gens[g].absent :
          /\ Send([type |-> "list", kind |-> k, there |-> k \in gens[g].found])
          /\ gens' = [gens EXCEPT ![g] = [gens[g] EXCEPT !.found = gens[g].found \ {k},
                                                        !.absent = gens[g].absent \ {k}]]
    BY <1>5 DEF SendsList
  <2>0. PICK k \in gens[g].found \cup gens[g].absent :
          /\ Send([type |-> "list", kind |-> k, there |-> k \in gens[g].found])
          /\ gens' = [gens EXCEPT ![g] = [gens[g] EXCEPT !.found = gens[g].found \ {k},
                                                        !.absent = gens[g].absent \ {k}]]
    BY <2>1
  <2>2. PICK gen, found, absent :
          gen \in Generations /\ gen = gens[g] /\ found = gens[g].found \ {k} /\ absent = gens[g].absent \ {k}
    BY <1>1, GensType
  <2>3. PICK r : r = [gen EXCEPT !.found = found, !.absent = absent]
    OBVIOUS
  <2>11. gens' = [gens EXCEPT ![g] = r]
    BY <2>0, <2>2, <2>3
  <2>4. r.todo = gen.todo /\ r.found = found /\ r.absent = absent /\ r.skipped = gen.skipped
    BY <2>2, <2>3 DEF Generations
  <2>12. k \in Listed
    BY <1>1, GensType
  <2>5. PICK msg \in Messages : msg = [type |-> "list", kind |-> k, there |-> k \in gens[g].found] /\ Send(msg)
    <3>1. [type |-> "list", kind |-> k, there |-> k \in gens[g].found] \in Messages
      BY <2>12 DEF Messages
    <3>2. QED
      BY <2>0, <3>1
  <2>6. msg.type = "list" /\ msg.kind = k
    BY <2>5
  <2>7. ListSent(k)'
    BY <1>1, <2>5, <2>6, SendSent
  <2>8. \A h \in Pending(gens[g]) : h \in Pending(r) \/ ListSent(h)'
    BY <2>2, <2>4, <2>7 DEF Pending
  <2>9. \E m \in Messages : m.type # "resource" /\ Send(m)
    BY <2>5, <2>6
  <2>10. QED
    BY <1>1, <1>2, <2>8, <2>9, <2>11, GenerationKept
<1>6. QED
  BY <1>3, <1>4, <1>5

\* The status loops and the watchers leave the lists alone.
LEMMA LoopSteps ==
  ASSUME IInv, ViewInv, StatusWaits \/ StatusTicks \/ StatusSends \/ StatusEnds \/ WatcherCloses
  PROVE  ViewInv'
<1>1. TypeOK /\ UNCHANGED <<cluster, cache, queue, view, forgotten, ghost, used>>
  BY DEF IInv, StatusWaits, StatusTicks, StatusSends, StatusEnds, WatcherCloses
<1>2. PICK g \in Gens :
        \/ \E loop \in {"wait", "send", "ended"}, on \in {0, stopCh.current} :
             gens' = [gens EXCEPT ![g] = [@ EXCEPT !.loop = loop, !.on = on]]
        \/ gens' = [gens EXCEPT ![g] = [@ EXCEPT !["watcher"] = "off"]]
  BY DEF StatusWaits, StatusTicks, StatusSends, StatusEnds, WatcherCloses
<1>3. PICK gen \in Generations : gen = gens[g]
  BY <1>1, GensType
<1>9. PICK r : /\ gens' = [gens EXCEPT ![g] = r]
               /\ \/ \E loop \in {"wait", "send", "ended"}, on \in {0, stopCh.current} :
                       r = [gen EXCEPT !.loop = loop, !.on = on]
                  \/ r = [gen EXCEPT !["watcher"] = "off"]
  BY <1>2, <1>3
<1>4. r.todo = gen.todo /\ r.found = gen.found /\ r.absent = gen.absent /\ r.skipped = gen.skipped
  BY <1>9 DEF Generations
<1>5. Pending(gens[g]) = Pending(r)
  BY <1>3, <1>4 DEF Pending
<1>6. UNCHANGED chan \/ Send([type |-> "status"])
  BY DEF StatusWaits, StatusTicks, StatusSends, StatusEnds, WatcherCloses
<1>7. UNCHANGED chan \/ \E msg \in Messages : msg.type # "resource" /\ Send(msg)
  <2>1. [type |-> "status"] \in Messages /\ [type |-> "status"].type # "resource"
    BY DEF Messages
  <2>2. QED
    BY <1>6, <2>1
<1>8. QED
  BY <1>1, <1>5, <1>7, <1>9, GenerationKept

\* ReSync starts the lists anew; the shutdown ends none.
LEMMA ReSyncSteps ==
  ASSUME IInv, ViewInv, ReSyncCloses \/ ReSyncMakes \/ Stops
  PROVE  ViewInv'
<1>1. TypeOK
  BY DEF IInv
<1>2. /\ UNCHANGED <<cluster, cache, queue, chan, view, forgotten>>
      /\ ghost'.missed = ghost.missed /\ ghost'.named = ghost.named /\ ghost'.pruned = ghost.pruned
  BY <1>1 DEF ReSyncCloses, ClosesChannel, ReSyncMakes, Stops, TypeOK, Ghosts
<1>3. used'.changes = used.changes
  BY <1>1 DEF ReSyncCloses, ClosesChannel, ReSyncMakes, Stops, TypeOK, Counters
<1>4. gens' = gens \/ gens' = Append(gens, NewGen)
  BY DEF ReSyncCloses, ClosesChannel, ReSyncMakes, Stops
<1>5. \A k \in Listed : (\A g \in Gens : k \in Pending(gens[g])) => \A g \in Gens' : k \in Pending(gens'[g])
  <2>1. CASE gens' = gens
    BY <2>1 DEF Gens
  <2>2. CASE gens' = Append(gens, NewGen)
    <3>1. gens \in Seq(Generations) /\ NewGen \in Generations /\ Len(gens) \in Nat
      BY <1>1, LenProperties DEF TypeOK, NewGen, Generations
    <3>2. /\ Len(gens') = Len(gens) + 1 /\ gens'[Len(gens) + 1] = NewGen
          /\ \A g \in 1..Len(gens) : gens'[g] = gens[g]
      BY <2>2, <3>1, AppendProperties
    <3>3. \A g \in Gens' : g \in Gens \/ g = Len(gens) + 1
      BY <3>1, <3>2 DEF Gens
    <3>4. Pending(NewGen) = Listed
      BY DEF Pending, NewGen
    <3>5. QED
      BY <3>2, <3>3, <3>4 DEF Gens
  <2>3. QED
    BY <1>4, <2>1, <2>2
<1>6. VersionInv'
  BY <1>2, <1>3 DEF ViewInv, VersionInv
<1>7. SettledInv'
  BY <1>2 DEF ViewInv, SettledInv, Reports, Known, Sent, LastSent
<1>8. ListInv'
  BY <1>2, <1>5 DEF ViewInv, ListInv, ListSent
<1>9. QED
  BY <1>6, <1>7, <1>8 DEF ViewInv

\* A change of the cluster, and the controllers seeing it.
LEMMA ChangeSteps ==
  ASSUME IInv, ViewInv, Changes \/ Notices \/ ReadFails
  PROVE  ViewInv'
<1>1. /\ \A k \in Kinds : /\ cluster[k].v \in Nat /\ cache[k].v \in Nat
      /\ cluster \in [Kinds -> Objects] /\ cache \in [Kinds -> Objects]
      /\ used.changes \in Nat /\ used \in Counters
  BY DEF IInv, TypeOK, Objects, Counters
<1>2. UNCHANGED <<chan, view, gens, ghost>>
  BY DEF Changes, Notices, ReadFails
<1>3. ListInv'
  BY <1>2 DEF ViewInv, ListInv, ListSent, Gens
<1>4. \A k : Sent(k)' = Sent(k) /\ \A obj : LastSent(k, obj) <=> LastSent(k, obj)'
  BY <1>2 DEF Sent, LastSent
<1>5. CASE Changes
  <2>1. PICK k \in Kinds, label \in Labels, gone \in BOOLEAN :
          cluster' = [cluster EXCEPT ![k] = IF gone THEN Nothing
                                            ELSE [v |-> used.changes + 1, label |-> label]]
    BY <1>5 DEF Changes
  <2>2. used' = [used EXCEPT !.changes = @ + 1] /\ cache' = cache /\ queue' = queue /\ forgotten' = forgotten
    BY <1>5 DEF Changes
  <2>3. used'.changes = used.changes + 1
    BY <1>1, <2>2 DEF Counters
  <2>4. /\ \A h \in Kinds : h # k => cluster'[h] = cluster[h]
        /\ cluster'[k] = Nothing \/ cluster'[k].v = used.changes + 1
    BY <1>1, <2>1
  <2>5. VersionInv'
    BY <1>1, <2>2, <2>3, <2>4 DEF ViewInv, VersionInv, Nothing
  <2>6. cache[k] # Nothing => cache[k] # cluster'[k]
    BY <1>1, <2>4 DEF ViewInv, VersionInv
  <2>7. \A h \in Kinds : Known(h) => Known(h)'
    BY <1>2, <2>2, <2>4, <2>6 DEF Known
  <2>8. SettledInv'
    BY <1>4, <2>2, <2>7 DEF ViewInv, SettledInv, Reports
  <2>9. QED
    BY <1>3, <2>5, <2>8 DEF ViewInv
<1>6. CASE Notices
  <2>1. PICK k \in Kinds : cache' = [cache EXCEPT ![k] = cluster[k]] /\ queue' = queue \cup {k}
    BY <1>6 DEF Notices
  <2>2. cluster' = cluster /\ used' = used /\ forgotten' = forgotten
    BY <1>6 DEF Notices
  <2>3. \A h \in Kinds : cache'[h] = IF h = k THEN cluster[k] ELSE cache[h]
    BY <1>1, <2>1
  <2>4. VersionInv'
    BY <2>2, <2>3 DEF ViewInv, VersionInv
  <2>5. SettledInv'
    BY <1>2, <1>4, <2>1, <2>2, <2>3 DEF ViewInv, SettledInv, Reports, Known
  <2>6. QED
    BY <1>3, <2>4, <2>5 DEF ViewInv
<1>7. CASE ReadFails
  <2>1. PICK k \in queue :
          IF Controller[k].gone THEN UNCHANGED <<queue, forgotten>>
          ELSE queue' = queue \ {k} /\ forgotten' = forgotten \cup {k}
    BY <1>7 DEF ReadFails
  <2>2. cluster' = cluster /\ cache' = cache /\ used'.changes = used.changes
    BY <1>1, <1>7 DEF ReadFails, Counters
  <2>3. VersionInv'
    BY <2>2 DEF ViewInv, VersionInv
  <2>4. \A h \in Kinds \ queue' : h \notin queue \/ (h \in forgotten' /\ ~Controller[h].gone)
    BY <2>1
  <2>5. forgotten \subseteq forgotten'
    BY <2>1
  <2>6. SettledInv'
    BY <1>2, <1>4, <2>2, <2>4, <2>5 DEF ViewInv, SettledInv, Reports, Known
  <2>7. QED
    BY <1>3, <2>3, <2>6 DEF ViewInv
<1>8. QED
  BY <1>5, <1>6, <1>7

\* What is reconciled is reported as the controllers have seen it.
LEMMA ReconcileSteps ==
  ASSUME IInv, ViewInv, Reconciles \/ JobFinishes
  PROVE  ViewInv'
<1>1. TypeOK /\ cache \in [Kinds -> Objects] /\ cluster \in [Kinds -> Objects] /\ queue \subseteq Kinds
  BY DEF IInv, TypeOK
<1>2. UNCHANGED <<cache, view, gens, ghost>>
  BY DEF Reconciles, JobFinishes
<1>3. PICK k \in queue :
        /\ queue' = queue \ {k} /\ forgotten \ {k} \subseteq forgotten'
        /\ \/ Send([type |-> "resource", kind |-> k, obj |-> cache[k]])
           \/ ~Reports(k) /\ UNCHANGED chan
        /\ \/ UNCHANGED cluster
           \/ k = "Job" /\ cluster' = [cluster EXCEPT !["Job"] = Nothing]
              /\ Send([type |-> "resource", kind |-> k, obj |-> cache[k]])
  BY DEF Reconciles, JobFinishes
<1>4. /\ \A h \in Kinds : h # k => cluster'[h] = cluster[h]
      /\ cluster'[k] = cluster[k] \/ cluster'[k] = Nothing
  BY <1>1, <1>3
<1>5. used'.changes = used.changes
  BY <1>1 DEF Reconciles, JobFinishes, TypeOK, Counters
<1>6. VersionInv'
  BY <1>1, <1>2, <1>4, <1>5 DEF ViewInv, VersionInv, Nothing, TypeOK, Counters
<1>7. [type |-> "resource", kind |-> k, obj |-> cache[k]] \in Messages
  BY <1>1 DEF Messages
<1>8. /\ \A h : ListSent(h) => ListSent(h)'
      /\ Reports(k) => LastSent(k, cache[k])'
      /\ \A h : h # k => Sent(h)' = Sent(h) /\ \A obj : LastSent(h, obj) => LastSent(h, obj)'
  <2>1. CASE Send([type |-> "resource", kind |-> k, obj |-> cache[k]])
    <3>1. PICK msg \in Messages :
            /\ msg = [type |-> "resource", kind |-> k, obj |-> cache[k]]
            /\ Send(msg)
      BY <1>7, <2>1
    <3>2. PICK obj : obj = cache[k]
      OBVIOUS
    <3>3. msg.type = "resource" /\ msg.kind = k /\ msg.obj = obj
      BY <3>1, <3>2
    <3>4. LastSent(k, obj)'
      BY <1>1, <3>1, <3>3, SendSent
    <3>5. LastSent(k, cache[k])'
      BY <1>2, <3>2, <3>4 DEF LastSent
    <3>6. QED
      BY <1>1, <3>1, <3>3, <3>5, SendSent
  <2>2. CASE ~Reports(k) /\ UNCHANGED chan
    BY <2>2 DEF Sent, LastSent, ListSent
  <2>3. QED
    BY <1>3, <2>1, <2>2
<1>9. ListInv'
  BY <1>2, <1>8 DEF ViewInv, ListInv, Gens
<1>10. SettledInv'
  <2> SUFFICES ASSUME NEW h \in Kinds \ queue', Reports(h)'
               PROVE  \/ h \in forgotten' /\ ~Controller[h].gone
                      \/ LastSent(h, cache[h])'
                      \/ Sent(h)' = {} /\ Known(h)'
    BY <1>2 DEF SettledInv
  <2>1. Reports(h)
    BY <1>2 DEF Reports
  <2>2. CASE h = k
    BY <1>2, <1>8, <2>1, <2>2
  <2>3. CASE h # k
    <3>1. \/ h \in forgotten' /\ ~Controller[h].gone
          \/ LastSent(h, cache[h]) \/ (Sent(h) = {} /\ Known(h))
      BY <1>3, <2>1, <2>3 DEF ViewInv, SettledInv
    <3>2. Known(h) => Known(h)'
      BY <1>2, <1>4, <2>3 DEF Known
    <3>3. QED
      BY <1>2, <1>8, <2>3, <3>1, <3>2
  <2>4. QED
    BY <2>2, <2>3
<1>11. QED
  BY <1>6, <1>9, <1>10 DEF ViewInv

\* A new process looks at all there is, and remembers nothing of what was.
LEMMA RestartView ==
  ASSUME IInv, ViewInv, Restarts
  PROVE  ViewInv'
<1>1. /\ chan' = << >> /\ gens' = << >> /\ cache' = cluster /\ cluster' = cluster /\ view' = view
      /\ queue' = {k \in Kinds : cluster[k] # Nothing}
      /\ ghost'.missed = ghost.missed \cup {k \in Kinds : cluster[k] = Nothing /\ view[k] # Nothing}
      /\ used'.changes = used.changes
  BY DEF Restarts, IInv, TypeOK, Counters, Ghosts
<1>2. \A k : Sent(k)' = {}
  BY <1>1 DEF Sent
<1>3. VersionInv'
  BY <1>1 DEF ViewInv, VersionInv
<1>4. \A k \in Kinds \ queue' : Known(k)'
  BY <1>1 DEF Known
<1>5. SettledInv'
  BY <1>2, <1>4 DEF SettledInv
<1>6. ListInv'
  BY <1>1 DEF ListInv, Gens
<1>7. QED
  BY <1>3, <1>5, <1>6 DEF ViewInv

\* The last report of a resource makes it known, and a list what it does not name.
LEMMA DeliverView ==
  ASSUME IInv, ViewInv, Delivers
  PROVE  ViewInv'
<1> DEFINE msg == Head(chan)
<1>1. /\ TypeOK /\ chan # << >> /\ chan' = Tail(chan)
      /\ UNCHANGED <<cluster, cache, queue, forgotten, gens, used>>
      /\ view \in [Kinds -> Objects] /\ ghost \in Ghosts
  BY DEF IInv, TypeOK, Delivers
<1>2. msg \in Messages
  BY <1>1, HeadTailProperties, EmptySeq DEF TypeOK
<1>3. VersionInv'
  BY <1>1 DEF ViewInv, VersionInv
<1>4. /\ \A k : ListSent(k) => ListSent(k)' \/ (msg.type = "list" /\ msg.kind = k)
      /\ \A k : Sent(k) = {} => Sent(k)' = {} /\ ~(msg.type = "resource" /\ msg.kind = k)
      /\ \A k : \A obj : LastSent(k, obj) =>
           \/ LastSent(k, obj)'
           \/ Sent(k)' = {} /\ msg.type = "resource" /\ msg.kind = k /\ msg.obj = obj
  BY <1>1, TailSent
<1>s. ASSUME NEW k \in Kinds \ queue, Reports(k)
      PROVE  \/ k \in forgotten' /\ ~Controller[k].gone
             \/ LastSent(k, cache[k])'
             \/ Sent(k)' = {} /\ msg.type = "resource" /\ msg.kind = k /\ msg.obj = cache[k]
             \/ /\ Sent(k)' = {} /\ Known(k)
                /\ ~(msg.type = "resource" /\ msg.kind = k)
  <2>1. PICK obj : obj = cache[k]
    OBVIOUS
  <2>2. \/ k \in forgotten' /\ ~Controller[k].gone
        \/ LastSent(k, obj) \/ (Sent(k) = {} /\ Known(k))
    BY <1>1, <1>s, <2>1 DEF ViewInv, SettledInv
  <2>3. LastSent(k, obj)' => LastSent(k, cache[k])'
    BY <1>1, <2>1 DEF LastSent
  <2>4. QED
    BY <1>4, <2>1, <2>2, <2>3
<1>5. CASE msg.type = "resource"
  <2>1. msg.kind \in Kinds
    BY <1>2, <1>5 DEF Messages
  <2>2. /\ view' = [view EXCEPT ![msg.kind] = msg.obj]
        /\ ghost' = [ghost EXCEPT !.missed = @ \ {msg.kind}, !.pruned = @ \ {msg.kind},
                                  !.named = @ \ {msg.kind}]
    BY <1>5 DEF Delivers
  <2>g. /\ ghost'.missed = ghost.missed \ {msg.kind} /\ ghost'.pruned = ghost.pruned \ {msg.kind}
        /\ ghost'.named = ghost.named \ {msg.kind}
    BY <1>1, <2>2 DEF Ghosts
  <2>3. /\ view'[msg.kind] = msg.obj
        /\ \A k \in Kinds : k # msg.kind => view'[k] = view[k]
    BY <1>1, <2>1, <2>2
  <2>4. \A k \in Kinds : k # msg.kind /\ Known(k) => Known(k)'
    BY <1>1, <2>3, <2>g DEF Known
  <2>5. SettledInv'
    <3> SUFFICES ASSUME NEW k \in Kinds \ queue, Reports(k)
                 PROVE  \/ k \in forgotten' /\ ~Controller[k].gone
                        \/ LastSent(k, cache[k])' \/ (Sent(k)' = {} /\ Known(k)')
      BY <1>1 DEF SettledInv, Reports
    <3>1. msg.kind = k /\ msg.obj = cache[k] => Known(k)'
      BY <1>1, <2>3 DEF Known
    <3>2. QED
      BY <1>5, <1>s, <2>4, <3>1
  <2>6. ListInv'
    <3>1. \A k \in Listed \cap ghost'.missed : k \in Kinds /\ k \in ghost.missed /\ k # msg.kind
      BY <2>g DEF Listed
    <3>2. QED
      BY <1>1, <1>4, <1>5, <2>3, <2>g, <3>1 DEF ViewInv, ListInv, Gens
  <2>7. QED
    BY <1>3, <2>5, <2>6 DEF ViewInv
<1>6. CASE msg.type = "list"
  <2>0. /\ view' = [k \in Kinds |-> IF k \in Unlisted(msg) THEN Nothing ELSE view[k]]
        /\ ghost' = [ghost EXCEPT !.missed = @ \ Unlisted(msg),
                       !.pruned = @ \cup {k \in Unlisted(msg) : cluster[k] # Nothing},
                       !.named = @ \cup {k \in {msg.kind} : msg.there}]
    BY <1>6 DEF Delivers
  <2>1. /\ \A k \in Kinds : view'[k] = IF k \in Unlisted(msg) THEN Nothing ELSE view[k]
        /\ ghost'.missed = ghost.missed \ Unlisted(msg)
        /\ ghost'.pruned = ghost.pruned \cup {k \in Unlisted(msg) : cluster[k] # Nothing}
        /\ ghost'.named = ghost.named \cup {k \in {msg.kind} : msg.there}
    BY <1>1, <2>0 DEF Ghosts
  <2>2. \A k \in Kinds : Known(k) => Known(k)'
    <3> SUFFICES ASSUME NEW k \in Kinds, Known(k) PROVE Known(k)'
      OBVIOUS
    <3>1. CASE k \in Unlisted(msg)
      <4>1. view'[k] = Nothing /\ (cluster[k] # Nothing => k \in ghost'.pruned)
        BY <2>1, <3>1
      <4>2. QED
        BY <1>1, <4>1 DEF Known
    <3>2. CASE k \notin Unlisted(msg)
      BY <1>1, <2>1, <3>2 DEF Known
    <3>3. QED
      BY <3>1, <3>2
  <2>3. SettledInv'
    <3> SUFFICES ASSUME NEW k \in Kinds \ queue, Reports(k)
                 PROVE  \/ k \in forgotten' /\ ~Controller[k].gone
                        \/ LastSent(k, cache[k])' \/ (Sent(k)' = {} /\ Known(k)')
      BY <1>1 DEF SettledInv, Reports
    <3>1. QED
      BY <1>6, <1>s, <2>2
  <2>4. ListInv'
    <3> SUFFICES ASSUME NEW k \in Listed \cap ghost'.missed, view'[k].label = "release"
                 PROVE  k \in ghost'.named \/ ListSent(k)' \/ \A g \in Gens' : k \in Pending(gens'[g])
      BY DEF ListInv
    <3>1. k \in Kinds /\ k \notin Unlisted(msg)
      BY <2>1 DEF Listed
    <3>2. view'[k] = view[k]
      BY <2>1, <3>1
    <3>3. CASE msg.kind = k
      BY <2>1, <3>1, <3>2, <3>3 DEF Unlisted
    <3>4. CASE msg.kind # k
      BY <1>1, <1>4, <2>1, <3>2, <3>4 DEF ViewInv, ListInv, Gens
    <3>5. QED
      BY <3>3, <3>4
  <2>5. QED
    BY <1>3, <2>3, <2>4 DEF ViewInv
<1>7. CASE msg.type = "status"
  <2>1. view' = view /\ ghost' = ghost
    BY <1>7 DEF Delivers
  <2>2. SettledInv'
    <3> SUFFICES ASSUME NEW k \in Kinds \ queue, Reports(k)
                 PROVE  \/ k \in forgotten' /\ ~Controller[k].gone
                        \/ LastSent(k, cache[k])' \/ (Sent(k)' = {} /\ Known(k)')
      BY <1>1 DEF SettledInv, Reports
    <3>1. Known(k) => Known(k)'
      BY <1>1, <2>1 DEF Known
    <3>2. QED
      BY <1>7, <1>s, <3>1
  <2>3. ListInv'
    BY <1>1, <1>4, <1>7, <2>1 DEF ViewInv, ListInv, Gens
  <2>4. QED
    BY <1>3, <2>2, <2>3 DEF ViewInv
<1>8. QED
  BY <1>5, <1>6, <1>7 DEF Delivers

\* What the platform knows, in every reachable state.
LEMMA SpecView == Spec => [](IInv /\ ViewInv)
<1>1. ASSUME Init PROVE ViewInv
  <2>1. VersionInv
    BY <1>1, ReportAssumption DEF Init, VersionInv, Nothing
  <2>2. SettledInv
    BY <1>1 DEF Init, SettledInv, Sent, Known
  <2>3. ListInv
    BY <1>1 DEF Init, ListInv
  <2>4. QED
    BY <2>1, <2>2, <2>3 DEF ViewInv
<1>2. ASSUME IInv, ViewInv, [Next]_vars PROVE ViewInv'
  <2>1. CASE UNCHANGED vars
    BY <1>2, <2>1, ViewKept DEF vars, Sent, LastSent, ListSent, Gens
  <2>2. CASE Agent \/ ReSyncCloses \/ ReSyncMakes \/ Stops \/ Delivers \/ Changes \/ Restarts
    BY <1>2, <2>2, ListerSteps, LoopSteps, ReSyncSteps, ChangeSteps, ReconcileSteps,
       RestartView, DeliverView DEF Agent
  <2>3. QED
    BY <1>2, <2>1, <2>2 DEF Next
<1>3. QED
  BY <1>1, <1>2, InitInv, NextInv, PTL DEF Spec

-----------------------------------------------------------------------------
\* The theorems.

\* Every variable has its type; in particular ResponseChan never exceeds its
\* capacity and only channels that ReSync has made are closed.
THEOREM ReportTypeOK == Spec => []TypeOK
<1>1. IInv => TypeOK
  BY DEF IInv
<1>2. QED
  BY <1>1, SpecInv, PTL

\* As long as no two calls of ReSync meet before they make the channel, no status
\* loop waits on a replaced channel that nobody has closed, however many calls of
\* ReSync there were and whatever the watchers of Run have closed.
THEOREM SpecOldLoopsAreTold == Spec => []OldLoopsAreTold
<1>1. ASSUME IInv PROVE OldLoopsAreTold
  <2> SUFFICES ASSUME ~ghost.overlap, NEW g \in Gens, gens[g].loop = "wait"
               PROVE  gens[g].on \in stopCh.closed \cup {stopCh.current}
    BY DEF OldLoopsAreTold
  <2>1. TypeOK /\ gens[g].on # 0
    BY <1>1 DEF IInv, WaitInv
  <2>2. gens[g].on \in Nat /\ gens[g].on <= stopCh.current /\ stopCh.current \in Nat
    BY <2>1, GensType DEF Generations
  <2>3. gens[g].on \in 1..stopCh.current
    BY <2>1, <2>2
  <2>4. QED
    BY <1>1, <2>3 DEF IInv, StopInv
<1>2. QED
  BY <1>1, SpecInv, PTL

\* When nothing is under way the platform knows the last version of every
\* resource that is reported, and of what is gone that it is gone, but for the
\* reads that were forgotten, the lists that came too late and what went while the
\* agent was down and no list was read (Reconcile, Run); for any kinds, any
\* capacity of ResponseChan and any number of changes, errors, ReSyncs and
\* restarts.
THEOREM SpecViewIsCurrent == Spec => []ViewIsCurrent
<1>1. ASSUME IInv, ViewInv PROVE ViewIsCurrent
  <2> SUFFICES ASSUME AtRest, NEW k \in Kinds
               PROVE  /\ cluster[k] # Nothing /\ Reports(k) =>
                           view[k] = cluster[k] \/ k \in ghost.pruned \cup forgotten
                      /\ cluster[k] = Nothing /\ Controller[k].gone =>
                           \/ view[k] = Nothing
                           \/ /\ k \in ghost.missed
                              /\ (\E g \in Gens : k \in Listed \ gens[g].skipped) =>
                                   view[k].label # "release" \/ k \in ghost.named
    BY DEF ViewIsCurrent
  <2>1. k \notin queue /\ cache[k] = cluster[k]
    BY DEF AtRest
  <2>2. Sent(k) = {} /\ ~ListSent(k)
    BY DEF AtRest, Sent, ListSent
  <2>3. Reports(k) => Known(k) \/ (k \in forgotten /\ ~Controller[k].gone)
    BY <1>1, <2>1, <2>2 DEF ViewInv, SettledInv, LastSent
  <2>4. cluster[k] = Nothing /\ Controller[k].gone => Reports(k)
    BY <2>1 DEF Reports
  <2>5. ASSUME k \in ghost.missed, view[k].label = "release",
               NEW g \in Gens, k \in Listed \ gens[g].skipped
        PROVE  k \in ghost.named
    <3>1. k \notin Pending(gens[g])
      BY <2>5 DEF AtRest, Pending
    <3>2. QED
      BY <1>1, <2>2, <2>5, <3>1 DEF ViewInv, ListInv
  <2>6. QED
    BY <2>1, <2>3, <2>4, <2>5 DEF Known
<1>2. QED
  BY <1>1, SpecView, PTL
=============================================================================
