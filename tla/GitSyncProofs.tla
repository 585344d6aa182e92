--------------------------- MODULE GitSyncProofs ---------------------------
(***************************************************************************)
(* Proofs about GitSync: type correctness, that agent-sync is only moved   *)
(* to revisions whose result is on record, that it never goes back as long *)
(* as no two loops of the environment overlap, what it says of the         *)
(* cluster, and that GitSync implements ReportLog, for any number of       *)
(* resources, versions, revisions, generations, crashes and faults.        *)
(***************************************************************************)
EXTENDS GitSync, TLAPS

\* The generations that are yet to come have nothing.
FutureInv ==
  \A g \in Gens : g > gen => /\ pc[g] = "none"
                             /\ status[g] = "new"
                             /\ g \notin syncSoon

\* The steps of doSync in which its working clone exists.
WithClone == Syncing \ {"clone"}

\* Mirrors and working clones hold tags of the remote, devops-sync always.
RevsInv ==
  \A g \in Gens :
    /\ mirror[g].devops <= Len(history) /\ mirror[g].agent <= Len(history)
    /\ status[g] # "new" => mirror[g].devops > 0
    /\ checkout[g].old <= Len(history) /\ checkout[g].new <= Len(history)
    /\ pc[g] \in WithClone => checkout[g].new > 0

\* The event precedes the push.
EventInv == \A g \in Gens : pc[g] = "push" => checkout[g].new \in Sent

\* Without a reconnection one loop is alive, and its mirror and its working
\* clone are not behind agent-sync.
AloneInv ==
  stopped = {} =>
    /\ \A g \in Gens : g # gen => pc[g] \in {"none", "dead"}
    /\ status[gen] # "new" => agentTag <= mirror[gen].devops
    /\ pc[gen] \in WithClone => /\ status[gen] # "new"
                                /\ agentTag <= checkout[gen].new
                                /\ checkout[gen].new <= mirror[gen].devops

IInv == TypeOK /\ FutureInv /\ RevsInv /\ EventInv /\ AloneInv

\* Two parts of TypeOK, by name.
Checkouts == [old : Revs, new : Revs, stale : SUBSET Resources,
              tried : SUBSET Resources, errors : SUBSET Resources]
NoCloneStates == {"none", "select", "clone", "stopped"}

-----------------------------------------------------------------------------
\* A longer history is a history, and keeps what it had.
LEMMA CommitExtends ==
  ASSUME NEW h \in Seq(Contents), NEW c \in Contents
  PROVE  Append(h, c) \in Seq(Contents) /\ Len(Append(h, c)) = Len(h) + 1
OBVIOUS

\* What the type invariant says of the tags.
LEMMA TagTypes ==
  ASSUME TypeOK
  PROVE  /\ MaxRevs \in Nat \ {0} /\ MaxGens \in Nat \ {0} /\ MaxFaults \in Nat
         /\ Len(history) \in Nat /\ 1 <= Len(history) /\ Len(history) <= MaxRevs
         /\ agentTag \in Nat /\ agentTag <= Len(history)
         /\ gen \in Gens
         /\ \A g \in Gens : mirror[g].devops \in Revs /\ mirror[g].agent \in Revs
<1>1. /\ MaxRevs \in Nat \ {0} /\ MaxGens \in Nat \ {0} /\ MaxFaults \in Nat
      /\ Len(history) \in 1 .. MaxRevs /\ agentTag \in 0 .. Len(history)
  BY GitSyncAssumption DEF TypeOK
<1>2. gen \in Gens /\ mirror \in [Gens -> [devops : Revs, agent : Revs]]
  BY DEF TypeOK
<1>3. \A g \in Gens : mirror[g].devops \in Revs /\ mirror[g].agent \in Revs
  BY <1>2
<1>4. QED
  BY <1>1, <1>2, <1>3

\* A fetch finds tags of the remote.
LEMMA FetchedType ==
  ASSUME TypeOK
  PROVE  /\ Fetched \in [devops : Revs, agent : Revs]
         /\ Fetched.devops = Len(history) /\ Fetched.agent = agentTag
BY TagTypes DEF Fetched, Revs

\* No working clone is a value of its type.
LEMMA NoCheckoutType == NoCheckout \in Checkouts
<1>1. 0 \in Revs
  BY GitSyncAssumption DEF Revs
<1>2. QED
  BY <1>1 DEF NoCheckout, Checkouts

\* A result that is put into the channel is on record.
LEMMA AppendSent ==
  ASSUME queue \in Seq(Revs), NEW n \in Revs, queue' = Append(queue, n),
         UNCHANGED <<told, swallowed>>
  PROVE  queue' \in Seq(Revs) /\ Len(queue') = Len(queue) + 1 /\ Sent' = Sent \cup {n}
<1>1. /\ queue' \in Seq(Revs) /\ Len(queue') = Len(queue) + 1 /\ Len(queue) \in Nat
      /\ queue'[Len(queue) + 1] = n
      /\ \A i \in 1 .. Len(queue) : queue'[i] = queue[i]
      /\ DOMAIN queue = 1 .. Len(queue) /\ DOMAIN queue' = 1 .. Len(queue) + 1
  OBVIOUS
<1>2. {queue'[i] : i \in DOMAIN queue'} = {queue[i] : i \in DOMAIN queue} \cup {n}
  BY <1>1
<1>3. QED
  BY <1>1, <1>2 DEF Sent

\* The client changes nothing but where the results on record are.
LEMMA DeliversType ==
  ASSUME TypeOK, Delivers
  PROVE  /\ queue' \in Seq(Revs) /\ Len(queue') <= ResponseCap
         /\ told' \subseteq Revs /\ swallowed' \subseteq Revs
         /\ faults' \in 0 .. MaxFaults
         /\ Sent' = Sent
         /\ UNCHANGED <<history, agentTag, cluster, repoVars, loopVars, syncChan, reported>>
<1>1. /\ queue \in Seq(Revs) /\ queue # <<>> /\ Len(queue) <= ResponseCap
      /\ told \subseteq Revs /\ swallowed \subseteq Revs /\ faults \in 0 .. MaxFaults
      /\ ResponseCap \in Nat /\ MaxFaults \in Nat
  BY GitSyncAssumption DEF TypeOK, Delivers
<1> DEFINE h == Head(queue)
<1>2. /\ Tail(queue) \in Seq(Revs) /\ Len(Tail(queue)) = Len(queue) - 1
      /\ Len(queue) \in Nat /\ h \in Revs /\ h = queue[1] /\ 1 \in DOMAIN queue
      /\ DOMAIN queue = 1 .. Len(queue) /\ DOMAIN Tail(queue) = 1 .. Len(queue) - 1
      /\ \A i \in 1 .. Len(queue) - 1 : Tail(queue)[i] = queue[i + 1]
  BY <1>1
<1>3. {queue[i] : i \in DOMAIN queue} = {h} \cup {Tail(queue)[i] : i \in DOMAIN Tail(queue)}
  <2>1. ASSUME NEW i \in DOMAIN queue, i # 1
        PROVE  \E k \in DOMAIN Tail(queue) : queue[i] = Tail(queue)[k]
    <3>1. i - 1 \in DOMAIN Tail(queue) /\ Tail(queue)[i - 1] = queue[i]
      BY <1>2, <2>1
    <3>2. QED
      BY <3>1
  <2>2. ASSUME NEW k \in DOMAIN Tail(queue)
        PROVE  \E i \in DOMAIN queue : Tail(queue)[k] = queue[i]
    <3>1. k + 1 \in DOMAIN queue /\ Tail(queue)[k] = queue[k + 1]
      BY <1>2, <2>2
    <3>2. QED
      BY <3>1
  <2>3. h = queue[1] /\ 1 \in DOMAIN queue
    BY <1>2
  <2> HIDE DEF h
  <2>4. QED
    BY <2>1, <2>2, <2>3
<1>4. /\ queue' = Tail(queue)
      /\ \/ told' = told \cup {h} /\ UNCHANGED <<faults, swallowed>>
         \/ /\ faults < MaxFaults /\ faults' = faults + 1
            /\ swallowed' = swallowed \cup {h} /\ UNCHANGED told
      /\ UNCHANGED <<history, agentTag, cluster, repoVars, loopVars, syncChan, reported>>
  BY DEF Delivers, Fault
<1>5. Sent' = Sent
  BY <1>3, <1>4 DEF Sent
<1>6. QED
  BY <1>1, <1>2, <1>4, <1>5

\* Counting an attempt keeps the type of a checkout.
LEMMA AttemptsType ==
  ASSUME NEW g \in Gens, checkout \in [Gens -> Checkouts],
         NEW ops \in SUBSET Resources, NEW bad \in SUBSET Resources, Attempts(g, ops, bad)
  PROVE  /\ checkout' \in [Gens -> Checkouts]
         /\ checkout'[g].old = checkout[g].old /\ checkout'[g].new = checkout[g].new
         /\ \A h \in Gens : h # g => checkout'[h] = checkout[h]
<1> DEFINE c == checkout[g]
           d == [c EXCEPT !.tried = c.tried \cup ops, !.errors = c.errors \cup bad]
<1>1. c \in Checkouts
  OBVIOUS
<1>2. c.tried \cup ops \in SUBSET Resources /\ c.errors \cup bad \in SUBSET Resources
  BY <1>1 DEF Checkouts
<1>3. d \in Checkouts /\ d.old = c.old /\ d.new = c.new
  BY <1>1, <1>2 DEF Checkouts
<1>4. checkout' = [checkout EXCEPT ![g] = d]
  BY DEF Attempts
<1>5. QED
  BY <1>3, <1>4

\* A clone holds the tags of the mirror.
LEMMA ClonesType ==
  ASSUME NEW g \in Gens, checkout \in [Gens -> Checkouts], Clones(g),
         mirror[gen].agent \in Revs, mirror[gen].devops \in Revs
  PROVE  /\ checkout' \in [Gens -> Checkouts]
         /\ checkout'[g].old = mirror[gen].agent
         /\ checkout'[g].new = mirror[gen].devops
         /\ \A h \in Gens : h # g => checkout'[h] = checkout[h]
<1> DEFINE c == checkout[g]
           d == [c EXCEPT !.old = mirror[gen].agent, !.new = mirror[gen].devops]
<1>1. c \in Checkouts
  OBVIOUS
<1>2. d \in Checkouts /\ d.old = mirror[gen].agent /\ d.new = mirror[gen].devops
  BY <1>1 DEF Checkouts
<1>3. checkout' = [checkout EXCEPT ![g] = d]
  BY DEF Clones
<1>4. QED
  BY <1>2, <1>3

\* The initial state is of the right type.
LEMMA InitTypeOK == Init => TypeOK
<1> USE GitSyncAssumption
<1> SUFFICES ASSUME Init PROVE TypeOK
  OBVIOUS
<1>1. /\ history \in Seq(Contents) /\ Len(history) = 1
  <2>1. PICK c \in Contents : history = <<c>>
    BY DEF Init
  <2>2. <<c>> \in Seq(Contents) /\ Len(<<c>>) = 1
    OBVIOUS
  <2>3. QED
    BY <2>1, <2>2
<1>2. cluster \in Contents
  <2>1. cluster = [r \in Resources |-> Absent]
    BY DEF Init
  <2>2. QED
    BY <2>1 DEF Contents
<1>3. Len(history) \in 1 .. MaxRevs /\ agentTag \in 0 .. Len(history)
  BY <1>1 DEF Init
<1>4. checkout \in [Gens -> [old : Revs, new : Revs, stale : SUBSET Resources,
                            tried : SUBSET Resources, errors : SUBSET Resources]]
  BY DEF Init, NoCheckout, Revs
<1>5. mirror \in [Gens -> [devops : Revs, agent : Revs]]
  BY DEF Init, NoTags, Revs
<1>6. queue \in Seq(Revs) /\ Len(queue) <= ResponseCap
  BY DEF Init
<1>7. /\ gen \in Gens /\ watch \in [Gens -> Gens] /\ head \in [Gens -> Revs]
      /\ syncSoon \subseteq Gens
  BY DEF Init, Gens, Revs
<1>8. QED
  BY <1>1, <1>2, <1>3, <1>4, <1>5, <1>6, <1>7 DEF Init, TypeOK, LoopStates

\* Every step keeps the types.
LEMMA StepTypeOK == IInv /\ [Next]_vars => TypeOK'
<1> SUFFICES ASSUME TypeOK, RevsInv, FutureInv, [Next]_vars PROVE TypeOK'
  BY DEF IInv
<1>1. ASSUME NEW c \in Contents, Commits(c) PROVE TypeOK'
  <2>1. history' \in Seq(Contents) /\ Len(history') = Len(history) + 1
    BY <1>1, CommitExtends DEF Commits, TypeOK
  <2>2. Len(history) < MaxRevs /\ agentTag' = agentTag
    BY <1>1 DEF Commits
  <2>3. Len(history') \in 1 .. MaxRevs /\ agentTag' \in 0 .. Len(history')
    BY <2>1, <2>2, TagTypes
  <2>4. QED
    BY <1>1, <2>1, <2>3 DEF Commits, TypeOK, repoVars, loopVars, logVars
<1>2. CASE StartClones
  BY <1>2, FetchedType DEF StartClones, TypeOK, loopVars, logVars
<1>3. CASE StartGetsReady
  BY <1>3 DEF StartGetsReady, TypeOK, loopVars, logVars
<1>4. ASSUME NEW k, Fault(k) PROVE faults' \in 0 .. MaxFaults
  BY <1>4, TagTypes DEF Fault, TypeOK
<1>5. ASSUME RefreshSucceeds \/ RefreshFails
      PROVE  /\ mirror' \in [Gens -> [devops : Revs, agent : Revs]]
             /\ refreshTok' \subseteq Gens /\ faults' \in 0 .. MaxFaults
  <2>1. CASE RefreshSucceeds
    BY <2>1, FetchedType DEF RefreshSucceeds, TypeOK
  <2>2. CASE RefreshFails
    BY <1>4, <2>2 DEF RefreshFails, TypeOK
  <2>3. QED
    BY <1>5, <2>1, <2>2
<1>6. CASE DoSync
  BY <1>5, <1>6 DEF DoSync, TypeOK, loopVars, logVars
<1>7. ASSUME NEW g \in Gens, TimerFires(g) PROVE TypeOK'
  BY <1>7 DEF TimerFires, TypeOK, repoVars, logVars
<1>8. ASSUME NEW g \in Gens, IntervalStep(g) PROVE TypeOK'
  BY <1>5, <1>8 DEF IntervalStep, IntervalRefreshes, IntervalFails, TypeOK,
                    loopVars, logVars
<1>9. ASSUME NEW g \in Gens, TakesStop(g) PROVE TypeOK'
  BY <1>9 DEF TakesStop, TypeOK, repoVars, logVars, LoopStates
<1>10. ASSUME NEW g \in Gens, TakesTimer(g) PROVE TypeOK'
  BY <1>10 DEF TakesTimer, Selects, TypeOK, repoVars, logVars, LoopStates
<1>11. ASSUME NEW g \in Gens, SeesRefresh(g) PROVE TypeOK'
  <2>1. /\ head' \in [Gens -> Revs] /\ syncSoon' \subseteq Gens
        /\ timer' \in [Gens -> {"running", "fired", "off"}]
        /\ faults' \in 0 .. MaxFaults
    BY <1>4, <1>11, TagTypes
       DEF SeesRefresh, HeadMoved, HeadUnchanged, HeadFails, TypeOK
  <2>2. /\ pc' \in [Gens -> LoopStates] /\ watch' \in [Gens -> Gens]
        /\ \A h \in Gens : pc'[h] \in {"none", "select", "clone", "stopped"}
                           => checkout[h] = NoCheckout
    BY <1>11, TagTypes
       DEF SeesRefresh, TakesRefreshed, Selects, TypeOK, LoopStates
  <2>3. QED
    BY <1>11, <2>1, <2>2 DEF SeesRefresh, TakesRefreshed, TypeOK, logVars
<1>12. ASSUME NEW g \in Gens, TakesSyncSoon(g) PROVE TypeOK'
  BY <1>12 DEF TakesSyncSoon, TypeOK, repoVars, logVars, LoopStates
<1>13. ASSUME NEW g \in Gens, Returns(g)
       PROVE  /\ pc' \in [Gens -> LoopStates] /\ watch' \in [Gens -> Gens]
              /\ timer' \in [Gens -> {"running", "fired", "off"}]
              /\ checkout' \in [Gens -> Checkouts]
              /\ \A h \in Gens : pc'[h] \in NoCloneStates => checkout'[h] = NoCheckout
  <2>1. /\ pc' \in [Gens -> LoopStates] /\ watch' \in [Gens -> Gens]
        /\ timer' \in [Gens -> {"running", "fired", "off"}]
    BY <1>13, TagTypes DEF Returns, Selects, TypeOK, LoopStates
  <2>2. checkout' = [checkout EXCEPT ![g] = NoCheckout]
    BY <1>13 DEF Returns
  <2>3. checkout \in [Gens -> Checkouts]
    BY DEF TypeOK, Checkouts
  <2>4. checkout' \in [Gens -> Checkouts]
    BY <2>2, <2>3, NoCheckoutType
  <2>5. ASSUME NEW h \in Gens, pc'[h] \in NoCloneStates PROVE checkout'[h] = NoCheckout
    <3>1. CASE h = g
      BY <2>2, <2>3, <3>1
    <3>2. CASE h # g
      BY <1>13, <2>2, <2>3, <2>5, <3>2 DEF Returns, Selects, TypeOK, NoCloneStates
    <3>3. QED
      BY <3>1, <3>2
  <2>6. QED
    BY <2>1, <2>4, <2>5
<1>14. ASSUME NEW g \in Gens, Clones(g) PROVE TypeOK'
  <2>1. mirror[gen].agent \in Revs /\ mirror[gen].devops \in Revs
    BY TagTypes
  <2>2. checkout' \in [Gens -> Checkouts]
    BY <1>14, <2>1, ClonesType DEF TypeOK, Checkouts
  <2>3. \A h \in Gens : pc'[h] \in NoCloneStates => checkout'[h] = NoCheckout
    BY <1>14 DEF Clones, TypeOK, NoCloneStates
  <2>4. QED
    BY <1>14, <2>2, <2>3
       DEF Clones, TypeOK, Checkouts, NoCloneStates, repoVars, logVars, LoopStates
<1>15. ASSUME NEW g \in Gens, SyncFails(g) PROVE TypeOK'
  BY <1>4, <1>13, <1>15
     DEF SyncFails, TypeOK, Checkouts, NoCloneStates, repoVars, logVars
<1>16. ASSUME NEW g \in Gens, Exports(g) PROVE TypeOK'
  BY <1>16 DEF Exports, Stale, TypeOK, repoVars, logVars, LoopStates
<1>17. ASSUME NEW g \in Gens, Deletes(g) PROVE TypeOK'
  <2>1. checkout[g].stale \subseteq Resources
    BY DEF TypeOK
  <2>2. PICK bad \in Failures(checkout[g].stale) :
          /\ cluster' = [r \in Resources |->
                           IF r \in checkout[g].stale \ bad THEN Absent ELSE cluster[r]]
          /\ Attempts(g, checkout[g].stale, bad)
    BY <1>17 DEF Deletes
  <2>3. bad \subseteq Resources
    BY <2>1 DEF Failures
  <2>4. cluster' \in Contents
    BY <2>2 DEF TypeOK, Contents
  <2>5. checkout' \in [Gens -> Checkouts]
    BY <2>1, <2>2, <2>3, AttemptsType DEF TypeOK, Checkouts
  <2>6. \A h \in Gens : pc'[h] \in NoCloneStates => checkout'[h] = NoCheckout
    BY <1>17, <2>2 DEF Deletes, Attempts, TypeOK, NoCloneStates
  <2>7. QED
    BY <1>17, <2>4, <2>5, <2>6
       DEF Deletes, TypeOK, Checkouts, NoCloneStates, repoVars, logVars, LoopStates
<1>18. ASSUME NEW g \in Gens, Applies(g) PROVE TypeOK'
  <2>1. history[checkout[g].new] \in Contents
    <3>1. checkout[g].new \in Revs
      BY DEF TypeOK
    <3>2. checkout[g].new \in 1 .. Len(history)
      BY <1>18, <3>1, TagTypes DEF Applies, RevsInv, Revs, WithClone, Syncing
    <3>3. history \in Seq(Contents)
      BY DEF TypeOK
    <3>4. QED
      BY <3>2, <3>3
  <2>2. PICK bad \in Failures(Changed(g)) :
          /\ cluster' = [r \in Resources |->
                           IF r \in Changed(g) \ bad THEN history[checkout[g].new][r]
                           ELSE cluster[r]]
          /\ Attempts(g, Changed(g), bad)
    BY <1>18 DEF Applies
  <2>3. Changed(g) \subseteq Resources
    BY DEF Changed
  <2>4. bad \subseteq Resources
    BY <2>3 DEF Failures
  <2>5. cluster' \in Contents
    BY <2>1, <2>2 DEF TypeOK, Contents
  <2>6. checkout' \in [Gens -> Checkouts]
    BY <2>2, <2>3, <2>4, AttemptsType DEF TypeOK, Checkouts
  <2>7. \A h \in Gens : pc'[h] \in NoCloneStates => checkout'[h] = NoCheckout
    BY <1>18, <2>2 DEF Applies, Attempts, TypeOK, NoCloneStates
  <2>8. QED
    BY <1>18, <2>5, <2>6, <2>7
       DEF Applies, TypeOK, Checkouts, NoCloneStates, repoVars, logVars, LoopStates
<1>19. ASSUME NEW g \in Gens, Reports(g) PROVE TypeOK'
  <2>1. /\ queue' \in Seq(Revs) /\ Len(queue') <= ResponseCap
        /\ UNCHANGED <<told, swallowed>> /\ reported' \subseteq Resources
    <3>1. /\ checkout[g].new \in Revs /\ queue \in Seq(Revs)
          /\ Len(queue) < ResponseCap /\ queue' = Append(queue, checkout[g].new)
          /\ UNCHANGED <<told, swallowed>> /\ reported' \subseteq Resources
      BY <1>19 DEF Reports, TypeOK
    <3>2. queue' \in Seq(Revs) /\ Len(queue') = Len(queue) + 1 /\ Len(queue) \in Nat
      BY <3>1, AppendSent
    <3>3. QED
      BY <3>1, <3>2, GitSyncAssumption
  <2>2. CASE Returns(g)
    BY <1>13, <1>19, <2>1, <2>2
       DEF Reports, TypeOK, Checkouts, NoCloneStates, repoVars
  <2>3. CASE pc' = [pc EXCEPT ![g] = "push"] /\ UNCHANGED <<watch, timer, checkout>>
    BY <1>19, <2>1, <2>3 DEF Reports, TypeOK, repoVars, LoopStates
  <2>4. QED
    BY <1>19, <2>2, <2>3 DEF Reports
<1>20. ASSUME NEW g \in Gens, Pushes(g) PROVE TypeOK'
  <2>1. checkout[g].new \in 0 .. Len(history)
    BY TagTypes DEF TypeOK, RevsInv, Revs
  <2>2. QED
    BY <1>20, <2>1 DEF Pushes, TypeOK, repoVars, logVars, LoopStates
<1>21. ASSUME NEW g \in Gens, PushFails(g) PROVE TypeOK'
  BY <1>4, <1>13, <1>21
     DEF PushFails, TypeOK, Checkouts, NoCloneStates, repoVars, logVars
<1>22. ASSUME NEW g \in Gens, Refreshes(g) PROVE TypeOK'
  BY <1>5, <1>13, <1>22
     DEF Refreshes, TypeOK, Checkouts, NoCloneStates, logVars
<1>23. CASE Reconnects
  <2>1. gen \in Gens /\ gen + 1 \in Gens /\ gen + 1 > gen
    BY <1>23, TagTypes DEF Reconnects, NextGeneration, Gens
  <2>2. checkout[gen + 1] = NoCheckout
    BY <2>1 DEF TypeOK, FutureInv
  <2>3. QED
    BY <1>23, <2>1, <2>2 DEF Reconnects, NextGeneration, TypeOK, LoopStates
<1>24. CASE Restarts
  <2>1. gen + 1 \in Gens
    BY <1>24, TagTypes DEF Restarts, NextGeneration, Gens
  <2>2. pc' \in [Gens -> LoopStates]
    BY <1>24 DEF Restarts, LoopStates
  <2>3. /\ checkout' \in [Gens -> Checkouts]
        /\ \A h \in Gens : checkout'[h] = NoCheckout
    BY <1>24, NoCheckoutType DEF Restarts, Fresh
  <2>4. /\ mirror' \in [Gens -> [devops : Revs, agent : Revs]] /\ head' \in [Gens -> Revs]
    BY <1>24, TagTypes DEF Restarts, Fresh, NoTags, Revs
  <2>5. queue' \in Seq(Revs) /\ Len(queue') <= ResponseCap
    BY <1>24, GitSyncAssumption DEF Restarts, Fresh
  <2>6. QED
    BY <1>24, <2>1, <2>2, <2>3, <2>4, <2>5
       DEF Restarts, NextGeneration, Fresh, TypeOK, Checkouts
<1>25. CASE UNCHANGED vars
  BY <1>25 DEF vars, TypeOK, repoVars, loopVars, logVars
<1>27. CASE Delivers
  BY <1>27, DeliversType DEF TypeOK, repoVars, loopVars
<1>26. QED
  BY <1>1, <1>2, <1>3, <1>6, <1>7, <1>8, <1>9, <1>10, <1>11, <1>12, <1>14, <1>15,
     <1>16, <1>17, <1>18, <1>19, <1>20, <1>21, <1>22, <1>23, <1>24, <1>25, <1>27
     DEF Next, StartStep, IntervalStep, LoopStep

-----------------------------------------------------------------------------
\* What a step of the loop of g does to the state the other invariants are
\* about: it leaves the other loops alone, and its doSync either begins with
\* the tags of a mirror that is ready, goes on with the same revisions, or
\* ends.  Only the push moves agent-sync, and only after the event.
OwnStep(g) ==
  /\ UNCHANGED <<gen, status, stopped, history>>
  /\ pc[g] \notin {"none", "dead"} /\ pc'[g] \notin {"none", "dead"}
  /\ \A h \in Gens : h # g => pc'[h] = pc[h] /\ checkout'[h] = checkout[h]
  /\ syncSoon' \subseteq syncSoon \cup {g}
  /\ Sent \subseteq Sent'
  /\ agentTag' = agentTag \/ (pc[g] = "push" /\ agentTag' = checkout[g].new)
  /\ mirror' = mirror \/ (Ready /\ mirror' = [mirror EXCEPT ![gen] = Fetched])
  /\ \/ /\ pc'[g] \notin WithClone
        /\ checkout'[g] = NoCheckout \/ checkout'[g] = checkout[g]
        /\ agentTag' = agentTag
     \/ /\ pc[g] = "clone" /\ pc'[g] = "export" /\ Ready
        /\ mirror' = mirror /\ agentTag' = agentTag
        /\ checkout'[g].old = mirror[gen].agent
        /\ checkout'[g].new = mirror[gen].devops
     \/ /\ pc[g] \in WithClone /\ pc'[g] \in WithClone
        /\ mirror' = mirror
        /\ checkout'[g].old = checkout[g].old
        /\ checkout'[g].new = checkout[g].new
  /\ pc'[g] = "push" => pc[g] = "report" /\ checkout[g].new \in Sent'

\* The end of doSync, in those terms.
LEMMA ReturnsOwn ==
  ASSUME TypeOK, NEW g \in Gens, Returns(g)
  PROVE  /\ pc'[g] = "select" /\ checkout'[g] = NoCheckout
         /\ \A h \in Gens : h # g => pc'[h] = pc[h] /\ checkout'[h] = checkout[h]
BY DEF Returns, Selects, TypeOK

\* Every step of a loop is of that form.
LEMMA LoopOwn ==
  ASSUME TypeOK, NEW g \in Gens, LoopStep(g)
  PROVE  OwnStep(g)
<1> USE DEF WithClone, Syncing
<1>0. ASSUME UNCHANGED logVars PROVE Sent' = Sent
  BY <1>0 DEF logVars, Sent
<1>1. CASE TakesStop(g)
  BY <1>0, <1>1 DEF TakesStop, OwnStep, TypeOK, repoVars, logVars
<1>2. CASE TakesTimer(g)
  BY <1>0, <1>2 DEF TakesTimer, Selects, OwnStep, TypeOK, repoVars, logVars
<1>3. CASE SeesRefresh(g)
  BY <1>0, <1>3 DEF SeesRefresh, TakesRefreshed, HeadMoved, HeadUnchanged, HeadFails,
              Selects, OwnStep, TypeOK, logVars
<1>4. CASE TakesSyncSoon(g)
  BY <1>0, <1>4 DEF TakesSyncSoon, OwnStep, TypeOK, repoVars, logVars
<1>5. CASE Clones(g)
  <2>1. /\ checkout'[g].old = mirror[gen].agent
        /\ checkout'[g].new = mirror[gen].devops
        /\ \A h \in Gens : h # g => checkout'[h] = checkout[h]
    BY <1>5, ClonesType, TagTypes DEF TypeOK, Checkouts
  <2>2. QED
    BY <1>0, <1>5, <2>1 DEF Clones, OwnStep, TypeOK, repoVars, logVars
<1>6. CASE SyncFails(g)
  BY <1>0, <1>6, ReturnsOwn DEF SyncFails, OwnStep, repoVars, logVars
<1>7. CASE Exports(g)
  BY <1>0, <1>7 DEF Exports, OwnStep, TypeOK, repoVars, logVars
<1>8. CASE Deletes(g)
  <2>1. PICK bad \in Failures(checkout[g].stale) : Attempts(g, checkout[g].stale, bad)
    BY <1>8 DEF Deletes
  <2>2. checkout[g].stale \subseteq Resources /\ bad \subseteq Resources
    BY DEF TypeOK, Failures
  <2>3. /\ checkout'[g].old = checkout[g].old /\ checkout'[g].new = checkout[g].new
        /\ \A h \in Gens : h # g => checkout'[h] = checkout[h]
    BY <2>1, <2>2, AttemptsType DEF TypeOK, Checkouts
  <2>4. QED
    BY <1>0, <1>8, <2>3 DEF Deletes, OwnStep, TypeOK, repoVars, logVars
<1>9. CASE Applies(g)
  <2>1. PICK bad \in Failures(Changed(g)) : Attempts(g, Changed(g), bad)
    BY <1>9 DEF Applies
  <2>2. Changed(g) \subseteq Resources /\ bad \subseteq Resources
    BY DEF Changed, Failures
  <2>3. /\ checkout'[g].old = checkout[g].old /\ checkout'[g].new = checkout[g].new
        /\ \A h \in Gens : h # g => checkout'[h] = checkout[h]
    BY <2>1, <2>2, AttemptsType DEF TypeOK, Checkouts
  <2>4. QED
    BY <1>0, <1>9, <2>3 DEF Applies, OwnStep, TypeOK, repoVars, logVars
<1>10. CASE Reports(g)
  <2>1. Sent' = Sent \cup {checkout[g].new}
    BY <1>10, AppendSent DEF Reports, TypeOK
  <2>2. QED
    BY <1>10, <2>1, ReturnsOwn DEF Reports, OwnStep, TypeOK, repoVars
<1>11. CASE Pushes(g)
  BY <1>0, <1>11 DEF Pushes, OwnStep, TypeOK, repoVars, logVars
<1>12. CASE PushFails(g)
  BY <1>0, <1>12, ReturnsOwn DEF PushFails, OwnStep, repoVars, logVars
<1>13. CASE Refreshes(g)
  BY <1>0, <1>13, ReturnsOwn
     DEF Refreshes, RefreshSucceeds, RefreshFails, OwnStep, logVars
<1>14. QED
  BY <1>1, <1>2, <1>3, <1>4, <1>5, <1>6, <1>7, <1>8, <1>9, <1>10, <1>11, <1>12, <1>13
     DEF LoopStep

-----------------------------------------------------------------------------
\* A refresh gives the mirror in the map the tags of the remote.
LEMMA RefreshMirror ==
  ASSUME RefreshSucceeds \/ RefreshFails
  PROVE  mirror' = mirror \/ (Ready /\ mirror' = [mirror EXCEPT ![gen] = Fetched])
BY DEF RefreshSucceeds, RefreshFails

\* A new generation is the next of those to come; its predecessors go on as
\* they are, or are gone with all they had.
LEMMA NextGenerationType ==
  ASSUME TypeOK, FutureInv, Reconnects \/ Restarts
  PROVE  /\ gen' = gen + 1 /\ gen' \in Gens /\ gen \in Gens /\ gen' > gen
         /\ \A g \in Gens : g > gen' => g > gen
         /\ \A g \in Gens : g > gen <=> g >= gen'
         /\ UNCHANGED <<history, agentTag>>
         /\ \/ UNCHANGED <<status, mirror, checkout>>
            \/ \A g \in Gens : /\ status'[g] = "new" /\ mirror'[g] = NoTags
                               /\ checkout'[g] = NoCheckout
         /\ Sent' \subseteq Sent
         /\ syncSoon' \subseteq syncSoon \cup {gen'} /\ gen' \in syncSoon'
         /\ pc'[gen'] = "select" /\ status'[gen'] = "new"
         /\ \A g \in Gens : g # gen' => pc'[g] = "dead" \/ (pc'[g] = pc[g] /\ pc[g] = "none")
                                        \/ (/\ pc'[g] = pc[g]
                                            /\ UNCHANGED <<status, mirror, checkout, told,
                                                           swallowed, queue>>)
         /\ \A g \in Gens : g > gen' => pc'[g] = "none" /\ status'[g] = "new"
<1>1. /\ gen' = gen + 1 /\ gen' \in Gens /\ gen \in Gens /\ gen' > gen
      /\ \A g \in Gens : g > gen' => g > gen
      /\ \A g \in Gens : g > gen <=> g >= gen'
  BY TagTypes DEF Reconnects, Restarts, NextGeneration, Gens
<1>2. pc[gen'] = "none" /\ status[gen'] = "new"
  BY <1>1 DEF FutureInv
<1>3. UNCHANGED <<history, agentTag, told, swallowed>>
  BY <1>1 DEF Reconnects, Restarts, NextGeneration
<1>4. CASE Reconnects
  <2>1. /\ UNCHANGED <<status, mirror, checkout, queue>>
        /\ syncSoon' = syncSoon \cup {gen'}
        /\ pc' = [pc EXCEPT ![gen'] = "select"]
    BY <1>1, <1>4 DEF Reconnects
  <2>2. Sent' = Sent
    BY <1>3, <2>1 DEF Sent
  <2>3. pc'[gen'] = "select" /\ \A g \in Gens : g # gen' => pc'[g] = pc[g]
    BY <1>1, <2>1 DEF TypeOK
  <2>4. \A g \in Gens : g > gen' => pc'[g] = "none" /\ status'[g] = "new"
    <3>1. \A g \in Gens : g > gen' => g # gen'
      BY <1>1 DEF Gens
    <3>2. QED
      BY <1>1, <2>1, <2>3, <3>1 DEF FutureInv
  <2>5. QED
    BY <1>1, <1>2, <1>3, <2>1, <2>2, <2>3, <2>4
<1>5. CASE Restarts
  <2>1. pc' = [g \in Gens |-> IF g = gen' THEN "select"
                              ELSE IF g <= gen THEN "dead" ELSE "none"]
    BY <1>1, <1>5 DEF Restarts
  <2>2. /\ syncSoon' = {gen'} /\ queue' = <<>>
        /\ \A g \in Gens : /\ status'[g] = "new" /\ mirror'[g] = NoTags
                           /\ checkout'[g] = NoCheckout
    BY <1>1, <1>5 DEF Restarts, Fresh
  <2>3. Sent' \subseteq Sent
    BY <1>3, <2>2 DEF Sent
  <2>4. \A g \in Gens : ~(g <= gen) => pc[g] = "none"
    BY <1>1 DEF FutureInv, Gens
  <2>5. \A g \in Gens : g > gen' => g # gen' /\ ~(g <= gen)
    BY <1>1 DEF Gens
  <2>6. QED
    BY <1>1, <1>3, <2>1, <2>2, <2>3, <2>4, <2>5
<1>6. QED
  BY <1>4, <1>5

\* The generations to come stay untouched.
LEMMA StepFuture == IInv /\ [Next]_vars => FutureInv'
<1> SUFFICES ASSUME TypeOK, FutureInv, [Next]_vars PROVE FutureInv'
  BY DEF IInv
<1>1. ASSUME NEW g \in Gens, LoopStep(g) PROVE FutureInv'
  <2>1. OwnStep(g)
    BY <1>1, LoopOwn
  <2>2. ~(g > gen)
    BY <2>1 DEF OwnStep, FutureInv
  <2>3. QED
    BY <2>1, <2>2 DEF OwnStep, FutureInv
<1>2. CASE StartStep
  BY <1>2, TagTypes
     DEF StartStep, StartClones, StartGetsReady, FutureInv, TypeOK, loopVars, Gens
<1>3. CASE Reconnects \/ Restarts
  BY <1>3, NextGenerationType DEF FutureInv, Gens
<1>4. CASE \E c \in Contents : Commits(c)
  BY <1>4 DEF Commits, FutureInv, repoVars, loopVars
<1>5. CASE DoSync
  BY <1>5 DEF DoSync, FutureInv, loopVars
<1>6. CASE \E g \in Gens : TimerFires(g) \/ IntervalStep(g)
  BY <1>6 DEF TimerFires, IntervalStep, IntervalRefreshes, IntervalFails, FutureInv,
              repoVars, loopVars
<1>7. CASE Delivers \/ UNCHANGED vars
  BY <1>7 DEF Delivers, vars, FutureInv, repoVars, loopVars
<1>8. QED
  BY <1>1, <1>2, <1>3, <1>4, <1>5, <1>6, <1>7 DEF Next

\* Mirrors and working clones keep to the tags of the remote.
LEMMA StepRevs == IInv /\ [Next]_vars => RevsInv'
<1> SUFFICES ASSUME TypeOK, FutureInv, RevsInv, [Next]_vars PROVE RevsInv'
  BY DEF IInv
<1>1. ASSUME mirror' = mirror \/ (Ready /\ mirror' = [mirror EXCEPT ![gen] = Fetched]),
             UNCHANGED <<history, status>>
      PROVE  \A g \in Gens :
               /\ mirror'[g].devops <= Len(history') /\ mirror'[g].agent <= Len(history')
               /\ status'[g] # "new" => mirror'[g].devops > 0
  <2>1. CASE mirror' = mirror
    BY <1>1, <2>1 DEF RevsInv
  <2>2. CASE mirror' = [mirror EXCEPT ![gen] = Fetched]
    <3>1. mirror'[gen] = Fetched /\ \A g \in Gens : g # gen => mirror'[g] = mirror[g]
      BY <2>2, TagTypes DEF TypeOK
    <3>2. QED
      BY <1>1, <3>1, FetchedType, TagTypes DEF RevsInv
  <2>3. QED
    BY <1>1, <2>1, <2>2
<1>2. ASSUME UNCHANGED <<history, pc, checkout>>
      PROVE  \A g \in Gens :
               /\ checkout'[g].old <= Len(history') /\ checkout'[g].new <= Len(history')
               /\ pc'[g] \in WithClone => checkout'[g].new > 0
  BY <1>2 DEF RevsInv
<1>3. ASSUME NEW g \in Gens, LoopStep(g) PROVE RevsInv'
  <2>1. OwnStep(g)
    BY <1>3, LoopOwn
  <2>2. ASSUME NEW h \in Gens, h # g
        PROVE  /\ checkout'[h].old <= Len(history') /\ checkout'[h].new <= Len(history')
               /\ pc'[h] \in WithClone => checkout'[h].new > 0
    BY <2>1, <2>2 DEF OwnStep, RevsInv
  <2>3. /\ checkout'[g].old <= Len(history') /\ checkout'[g].new <= Len(history')
        /\ pc'[g] \in WithClone => checkout'[g].new > 0
    <3>1. CASE /\ pc'[g] \notin WithClone
               /\ checkout'[g] = NoCheckout \/ checkout'[g] = checkout[g]
      BY <2>1, <3>1, TagTypes DEF OwnStep, RevsInv, NoCheckout
    <3>2. CASE /\ Ready /\ checkout'[g].old = mirror[gen].agent
               /\ checkout'[g].new = mirror[gen].devops
      BY <2>1, <3>2, TagTypes DEF OwnStep, RevsInv, Ready
    <3>3. CASE /\ pc[g] \in WithClone /\ checkout'[g].old = checkout[g].old
               /\ checkout'[g].new = checkout[g].new
      BY <2>1, <3>3 DEF OwnStep, RevsInv
    <3>4. QED
      BY <2>1, <3>1, <3>2, <3>3 DEF OwnStep
  <2>4. QED
    BY <1>1, <2>1, <2>2, <2>3 DEF OwnStep, RevsInv
<1>4. CASE StartStep
  <2>1. CASE StartClones
    <3>1. /\ mirror'[gen] = Fetched
          /\ \A g \in Gens : g # gen => mirror'[g] = mirror[g] /\ status'[g] = status[g]
      BY <2>1, TagTypes DEF StartClones, TypeOK
    <3>2. QED
      BY <1>2, <2>1, <3>1, FetchedType, TagTypes DEF StartClones, RevsInv, loopVars
  <2>2. CASE StartGetsReady
    BY <1>2, <2>2, TagTypes DEF StartGetsReady, RevsInv, TypeOK, loopVars
  <2>3. QED
    BY <1>4, <2>1, <2>2 DEF StartStep
<1>5. CASE DoSync
  BY <1>1, <1>2, <1>5, RefreshMirror DEF DoSync, RevsInv, loopVars
<1>6. CASE \E g \in Gens : TimerFires(g) \/ IntervalStep(g)
  BY <1>1, <1>2, <1>6, RefreshMirror
     DEF TimerFires, IntervalStep, IntervalRefreshes, IntervalFails, RevsInv,
         repoVars, loopVars
<1>7. CASE Reconnects \/ Restarts
  <2>1. ASSUME NEW g \in Gens, pc'[g] \in WithClone
        PROVE  pc[g] \in WithClone /\ checkout'[g] = checkout[g]
    BY <1>7, <2>1, NextGenerationType DEF WithClone, Syncing
  <2>2. /\ UNCHANGED history /\ Len(history) \in Nat
        /\ \/ UNCHANGED <<status, mirror, checkout>>
           \/ \A g \in Gens : /\ status'[g] = "new" /\ mirror'[g] = NoTags
                              /\ checkout'[g] = NoCheckout
    BY <1>7, TagTypes, NextGenerationType
  <2>3. QED
    BY <2>1, <2>2 DEF RevsInv, NoTags, NoCheckout
<1>8. CASE \E c \in Contents : Commits(c)
  <2>1. PICK c \in Contents : Commits(c)
    BY <1>8
  <2>2. Len(history') = Len(history) + 1 /\ UNCHANGED <<pc, checkout, mirror, status>>
    BY <2>1, CommitExtends DEF Commits, TypeOK, repoVars, loopVars
  <2>3. \A g \in Gens : checkout[g].old \in Revs /\ checkout[g].new \in Revs
    BY DEF TypeOK
  <2>4. QED
    BY <2>2, <2>3, TagTypes DEF RevsInv, Revs
<1>9. CASE Delivers \/ UNCHANGED vars
  BY <1>9 DEF Delivers, vars, RevsInv, repoVars, loopVars
<1>10. QED
  BY <1>3, <1>4, <1>5, <1>6, <1>7, <1>8, <1>9 DEF Next

\* A loop that is to push has its result on record as long as it lives.
LEMMA StepEvents == IInv /\ [Next]_vars => EventInv'
<1> SUFFICES ASSUME TypeOK, FutureInv, EventInv, [Next]_vars PROVE EventInv'
  BY DEF IInv
<1>1. ASSUME NEW g \in Gens, LoopStep(g) PROVE EventInv'
  <2>1. OwnStep(g)
    BY <1>1, LoopOwn
  <2>2. ASSUME NEW h \in Gens, pc'[h] = "push" PROVE checkout'[h].new \in Sent'
    <3>1. CASE h = g
      BY <2>1, <2>2, <3>1 DEF OwnStep, WithClone, Syncing
    <3>2. CASE h # g
      BY <2>1, <2>2, <3>2 DEF OwnStep, EventInv
    <3>3. QED
      BY <3>1, <3>2
  <2>3. QED
    BY <2>2 DEF EventInv
<1>2. ASSUME UNCHANGED <<pc, checkout, queue, told, swallowed>> PROVE EventInv'
  BY <1>2 DEF EventInv, Sent
<1>3. CASE \/ \E c \in Contents : Commits(c)
           \/ StartStep \/ DoSync \/ UNCHANGED vars
           \/ \E g \in Gens : TimerFires(g) \/ IntervalStep(g)
  BY <1>2, <1>3
     DEF Commits, StartStep, StartClones, StartGetsReady, DoSync, TimerFires,
         IntervalStep, IntervalRefreshes, IntervalFails, vars, loopVars, logVars
<1>4. CASE Delivers
  BY <1>4, DeliversType DEF EventInv, loopVars
<1>5. CASE Reconnects \/ Restarts
  <2>1. ASSUME NEW g \in Gens, pc'[g] = "push"
        PROVE  pc[g] = "push" /\ checkout'[g] = checkout[g] /\ Sent' = Sent
    BY <1>5, <2>1, NextGenerationType DEF Sent
  <2>2. QED
    BY <2>1 DEF EventInv
<1>6. QED
  BY <1>1, <1>3, <1>4, <1>5 DEF Next

\* Without a reconnection the loop that is alive stays the only one, and is
\* not behind agent-sync.
LEMMA StepAlone == IInv /\ [Next]_vars => AloneInv'
<1> SUFFICES ASSUME TypeOK, FutureInv, RevsInv, AloneInv, [Next]_vars,
                    stopped' = {}
             PROVE  /\ \A g \in Gens : g # gen' => pc'[g] \in {"none", "dead"}
                    /\ status'[gen'] # "new" => agentTag' <= mirror'[gen'].devops
                    /\ pc'[gen'] \in WithClone =>
                         /\ status'[gen'] # "new"
                         /\ agentTag' <= checkout'[gen'].new
                         /\ checkout'[gen'].new <= mirror'[gen'].devops
  BY DEF IInv, AloneInv
<1> DEFINE Goal == /\ \A g \in Gens : g # gen' => pc'[g] \in {"none", "dead"}
                   /\ status'[gen'] # "new" => agentTag' <= mirror'[gen'].devops
                   /\ pc'[gen'] \in WithClone =>
                        /\ status'[gen'] # "new"
                        /\ agentTag' <= checkout'[gen'].new
                        /\ checkout'[gen'].new <= mirror'[gen'].devops
<1>1. checkout[gen].new \in Nat /\ mirror[gen].devops \in Nat
  <2>1. checkout[gen].new \in Revs
    BY TagTypes DEF TypeOK
  <2>2. QED
    BY <2>1, TagTypes DEF Revs
<1>2. ASSUME mirror' = mirror \/ mirror' = [mirror EXCEPT ![gen] = Fetched]
      PROVE  mirror'[gen].devops = mirror[gen].devops \/ mirror'[gen].devops = Len(history)
  BY <1>2, FetchedType, TagTypes DEF TypeOK
<1>3. ASSUME NEW g \in Gens, LoopStep(g) PROVE Goal
  <2>1. OwnStep(g)
    BY <1>3, LoopOwn
  <2>2. stopped = {} /\ gen' = gen /\ status' = status /\ g = gen
    BY <2>1 DEF OwnStep, AloneInv
  <2>3. \A h \in Gens : h # gen => pc'[h] \in {"none", "dead"}
    BY <2>1, <2>2 DEF OwnStep, AloneInv
  <2>4. CASE pc'[g] \notin WithClone /\ agentTag' = agentTag
    BY <1>1, <1>2, <2>1, <2>2, <2>3, <2>4, TagTypes DEF OwnStep, AloneInv
  <2>5. CASE /\ Ready /\ mirror' = mirror /\ agentTag' = agentTag
             /\ checkout'[g].new = mirror[gen].devops
    BY <1>1, <2>2, <2>3, <2>5, TagTypes DEF Ready, AloneInv
  <2>6. CASE /\ pc[g] \in WithClone /\ mirror' = mirror
             /\ checkout'[g].new = checkout[g].new
    BY <1>1, <2>1, <2>2, <2>3, <2>6, TagTypes DEF OwnStep, AloneInv
  <2>7. QED
    BY <2>1, <2>4, <2>5, <2>6 DEF OwnStep
<1>4. CASE \E c \in Contents : Commits(c)
  BY <1>4 DEF Commits, AloneInv, repoVars, loopVars
<1>5. CASE StartClones
  <2>1. status[gen] = "new" /\ mirror'[gen].devops = Len(history) /\ gen' = gen
    BY <1>5, FetchedType, TagTypes DEF StartClones, TypeOK
  <2>2. QED
    BY <1>1, <1>5, <2>1, TagTypes DEF StartClones, AloneInv, loopVars
<1>6. CASE StartGetsReady
  BY <1>6, TagTypes DEF StartGetsReady, AloneInv, TypeOK, loopVars
<1>7. ASSUME RefreshSucceeds \/ RefreshFails,
             UNCHANGED <<gen, stopped, status, agentTag, pc, checkout>>
      PROVE  Goal
  <2>1. mirror'[gen].devops = mirror[gen].devops \/ mirror'[gen].devops = Len(history)
    BY <1>2, <1>7, RefreshMirror
  <2>2. checkout[gen].new <= Len(history)
    BY TagTypes DEF RevsInv
  <2>3. QED
    BY <1>1, <1>7, <2>1, <2>2, TagTypes DEF AloneInv
<1>8. CASE DoSync
  BY <1>7, <1>8 DEF DoSync, loopVars
<1>9. CASE \E g \in Gens : TimerFires(g) \/ IntervalStep(g)
  <2>1. CASE \E g \in Gens : TimerFires(g)
    BY <2>1 DEF TimerFires, AloneInv, repoVars
  <2>2. CASE \E g \in Gens : IntervalStep(g)
    BY <1>7, <2>2 DEF IntervalStep, IntervalRefreshes, IntervalFails, loopVars
  <2>3. QED
    BY <1>9, <2>1, <2>2
<1>10. CASE Reconnects
  BY <1>10 DEF Reconnects
<1>11. CASE Restarts
  <2>1. /\ gen' = gen + 1 /\ gen' \in Gens /\ status'[gen'] = "new"
        /\ pc'[gen'] = "select"
    BY <1>11, NextGenerationType
  <2>2. \A g \in Gens : g # gen' => pc'[g] \in {"none", "dead"}
    BY <1>11, <2>1 DEF Restarts
  <2>3. QED
    BY <2>1, <2>2 DEF WithClone, Syncing
<1>12. CASE Delivers \/ UNCHANGED vars
  BY <1>12 DEF Delivers, vars, AloneInv, repoVars, loopVars
<1>13. QED
  BY <1>3, <1>4, <1>5, <1>6, <1>8, <1>9, <1>10, <1>11, <1>12 DEF Next, StartStep

-----------------------------------------------------------------------------
\* The inductive invariant holds at first and after every step.
LEMMA InitIInv == Init => IInv
<1> SUFFICES ASSUME Init PROVE IInv
  OBVIOUS
<1>1. TypeOK
  BY InitTypeOK
<1>2. FutureInv
  BY DEF Init, FutureInv, Gens
<1>3. RevsInv
  BY <1>1, TagTypes DEF Init, RevsInv, NoTags, NoCheckout, WithClone, Syncing
<1>4. EventInv
  BY DEF Init, EventInv
<1>5. AloneInv
  BY <1>1, TagTypes DEF Init, AloneInv, WithClone, Syncing
<1>6. QED
  BY <1>1, <1>2, <1>3, <1>4, <1>5 DEF IInv

\* GitSync: the inductive invariant holds in every reachable state.
THEOREM SpecIInv == Spec => []IInv
<1>1. IInv /\ [Next]_vars => IInv'
  BY StepTypeOK, StepFuture, StepRevs, StepEvents, StepAlone DEF IInv
<1>2. QED
  BY <1>1, InitIInv, PTL DEF Spec

\* Every variable of GitSync keeps its type, and no working clone outlives
\* the doSync it was made for.
THEOREM GitSyncTypeOK == Spec => []TypeOK
<1>1. IInv => TypeOK
  BY DEF IInv
<1>2. QED
  BY <1>1, SpecIInv, PTL

\* Only the push moves agent-sync, of a loop whose result is on record.
LEMMA StepReported ==
  ASSUME IInv, [Next]_vars, agentTag' # agentTag
  PROVE  agentTag' \in Sent
<1>t. TypeOK /\ FutureInv /\ EventInv
  BY DEF IInv
<1>1. CASE \E g \in Gens : LoopStep(g)
  <2>1. PICK g \in Gens : OwnStep(g)
    BY <1>t, <1>1, LoopOwn
  <2>2. QED
    BY <1>t, <2>1 DEF OwnStep, EventInv
<1>2. CASE Reconnects \/ Restarts
  BY <1>t, <1>2, NextGenerationType
<1>3. CASE \/ \E c \in Contents : Commits(c)
           \/ StartStep \/ DoSync \/ Delivers \/ UNCHANGED vars
           \/ \E g \in Gens : TimerFires(g) \/ IntervalStep(g)
  BY <1>3
     DEF Commits, StartStep, StartClones, StartGetsReady, DoSync, TimerFires,
         IntervalStep, IntervalRefreshes, IntervalFails, Delivers, vars
<1>4. QED
  BY <1>1, <1>2, <1>3 DEF Next

\* syncLoop moves agent-sync only to a revision whose result is with the
\* service, waits in the channel of the living process, or was written to a
\* dead link: with any number of loops, faults and crashes, each of which
\* empties the channel.
THEOREM SpecReportedBeforeTagged == Spec => ReportedBeforeTagged
<1>1. IInv /\ [Next]_vars => [agentTag' # agentTag => agentTag' \in Sent]_vars
  BY StepReported
<1>2. QED
  BY <1>1, SpecIInv, PTL DEF Spec, ReportedBeforeTagged

\* Without a reconnection only the push moves agent-sync, and forward.
LEMMA StepTag ==
  ASSUME IInv, [Next]_vars, stopped = {}
  PROVE  agentTag' >= agentTag
<1>1. TypeOK
  BY DEF IInv
<1>2. agentTag \in Nat /\ agentTag >= agentTag
  BY <1>1, TagTypes
<1>3. CASE \E g \in Gens : LoopStep(g)
  <2>1. PICK g \in Gens : OwnStep(g)
    BY <1>1, <1>3, LoopOwn
  <2>2. g = gen
    BY <2>1 DEF OwnStep, IInv, AloneInv
  <2>3. pc[g] = "push" => agentTag <= checkout[g].new
    BY <2>2 DEF IInv, AloneInv, WithClone, Syncing
  <2>4. checkout[g].new \in Nat
    <3>1. checkout[g].new \in Revs
      BY <1>1 DEF TypeOK
    <3>2. QED
      BY <3>1 DEF Revs
  <2>5. QED
    BY <1>2, <2>1, <2>3, <2>4 DEF OwnStep
<1>4. CASE Reconnects \/ Restarts
  BY <1>1, <1>2, <1>4, NextGenerationType DEF IInv
<1>5. CASE \/ \E c \in Contents : Commits(c)
           \/ StartStep \/ DoSync \/ Delivers \/ UNCHANGED vars
           \/ \E g \in Gens : TimerFires(g) \/ IntervalStep(g)
  BY <1>2, <1>5
     DEF Commits, StartStep, StartClones, StartGetsReady, DoSync, TimerFires,
         IntervalStep, IntervalRefreshes, IntervalFails, Delivers, vars
<1>6. QED
  BY <1>3, <1>4, <1>5 DEF Next

\* agent-sync never goes back to an older revision, whatever fails and
\* whenever the process crashes, until a reconnection lets two loops overlap.
THEOREM SpecTagNeverGoesBack == Spec => TagNeverGoesBack
<1>1. IInv /\ [Next]_vars => [stopped = {} => agentTag' >= agentTag]_vars
  BY StepTag
<1>2. QED
  BY <1>1, SpecIInv, PTL DEF Spec, TagNeverGoesBack

-----------------------------------------------------------------------------
\* While no reconnection has happened, the only loop that takes steps is that
\* of the generation in the map.
LEMMA AloneLoop ==
  ASSUME IInv, stopped = {}, NEW g \in Gens, LoopStep(g)
  PROVE  g = gen
<1>1. TypeOK /\ AloneInv
  BY DEF IInv
<1>2. OwnStep(g)
  BY <1>1, LoopOwn
<1>3. QED
  BY <1>1, <1>2 DEF OwnStep, AloneInv

\* Without reconnections no loop is ever told to stop.
NoneStopped == stopped = {}

LEMMA SpecNoneStopped ==
  ASSUME MayReconnect = FALSE
  PROVE  Spec => []NoneStopped
<1> USE DEF NoneStopped
<1>1. Init => NoneStopped
  BY DEF Init
<1>2. ASSUME NoneStopped, [Next]_vars PROVE NoneStopped'
  <2>1. ~Reconnects
    BY DEF Reconnects
  <2>2. CASE \E g \in Gens : LoopStep(g)
    BY <1>2, <2>2 DEF LoopStep, TakesStop, TakesTimer, SeesRefresh,
       TakesRefreshed, TakesSyncSoon, Clones, SyncFails, Exports, Deletes,
       Applies, Reports, Pushes, PushFails, Refreshes, repoVars
  <2>3. CASE \E g \in Gens : TimerFires(g) \/ IntervalStep(g)
    BY <1>2, <2>3 DEF TimerFires, IntervalStep, IntervalRefreshes,
       IntervalFails, repoVars
  <2>4. CASE \/ \E c \in Contents : Commits(c)
             \/ StartStep \/ DoSync \/ Restarts \/ Delivers \/ UNCHANGED vars
    BY <1>2, <2>4 DEF Commits, StartStep, StartClones, StartGetsReady, DoSync,
       Restarts, Delivers, vars, repoVars
  <2>5. QED
    BY <1>2, <2>1, <2>2, <2>3, <2>4 DEF Next
<1>3. QED
  BY <1>1, <1>2, PTL DEF Spec

-----------------------------------------------------------------------------
\* A loop that waits has its timer running or something on its way: every way
\* out of the select leads through a state that starts it again, when fetching
\* and reading the tag work.
WorkingGit == FaultKinds \cap {"fetch", "head"} = {}

\* The steps of the loop itself.
LEMMA LoopNotStranded ==
  ASSUME IInv, NeverStranded, WorkingGit, NEW g \in Gens, g = gen, LoopStep(g)
  PROVE  NeverStranded'
<1> USE DEF NeverStranded, Ready
<1>t. TypeOK
  BY DEF IInv
<1>1. CASE TakesStop(g)
  BY <1>t, <1>1 DEF TakesStop, TypeOK, repoVars
<1>2. CASE TakesTimer(g)
  BY <1>t, <1>2 DEF TakesTimer, TypeOK, repoVars
<1>3. CASE SeesRefresh(g)
  <2>1. UNCHANGED <<gen, status>>
    BY <1>3 DEF SeesRefresh, TakesRefreshed
  <2>2. CASE HeadMoved(g)
    BY <2>1, <2>2 DEF HeadMoved
  <2>3. CASE HeadUnchanged(g)
    BY <1>t, <2>1, <2>3 DEF HeadUnchanged, TypeOK
  <2>4. CASE HeadFails(g)
    BY <2>1, <2>4 DEF HeadFails, Fault, WorkingGit
  <2>5. QED
    BY <1>3, <2>2, <2>3, <2>4 DEF SeesRefresh
<1>4. CASE TakesSyncSoon(g)
  BY <1>t, <1>4 DEF TakesSyncSoon, TypeOK, repoVars
<1>5. ASSUME Returns(g), UNCHANGED gen PROVE NeverStranded'
  BY <1>t, <1>5 DEF Returns, TypeOK
<1>6. CASE SyncFails(g) \/ PushFails(g) \/ Refreshes(g)
  BY <1>5, <1>6 DEF SyncFails, PushFails, Refreshes, repoVars
<1>7. CASE Clones(g) \/ Exports(g) \/ Deletes(g) \/ Applies(g) \/ Pushes(g)
  BY <1>t, <1>7 DEF Clones, Exports, Deletes, Applies, Pushes, TypeOK, repoVars
<1>8. CASE Reports(g)
  BY <1>t, <1>5, <1>8 DEF Reports, TypeOK, repoVars
<1>9. QED
  BY <1>1, <1>2, <1>3, <1>4, <1>6, <1>7, <1>8 DEF LoopStep

\* Every step.
LEMMA StepNotStranded ==
  ASSUME IInv, NeverStranded, WorkingGit, stopped = {}, stopped' = {}, [Next]_vars
  PROVE  NeverStranded'
<1> USE DEF NeverStranded, Ready
<1>t. TypeOK
  BY DEF IInv
<1>1. ASSUME NEW g \in Gens, LoopStep(g) PROVE NeverStranded'
  BY <1>1, AloneLoop, LoopNotStranded
<1>2. CASE \E c \in Contents : Commits(c)
  BY <1>2 DEF Commits, repoVars, loopVars
<1>3. CASE StartStep
  BY <1>t, <1>3 DEF StartStep, StartClones, StartGetsReady, TypeOK, loopVars
<1>4. CASE DoSync
  BY <1>4 DEF DoSync, RefreshSucceeds, RefreshFails, loopVars
<1>5. ASSUME NEW g \in Gens, TimerFires(g) PROVE NeverStranded'
  BY <1>t, <1>5 DEF TimerFires, TypeOK, repoVars
<1>6. ASSUME NEW g \in Gens, IntervalRefreshes(g) PROVE NeverStranded'
  BY <1>6 DEF IntervalRefreshes, RefreshSucceeds
<1>7. ASSUME NEW g \in Gens, IntervalFails(g) PROVE NeverStranded'
  BY <1>7 DEF IntervalFails, RefreshFails, Fault, WorkingGit
<1>8. CASE Reconnects
  BY <1>8, <1>t DEF Reconnects, TypeOK
<1>9. CASE Restarts
  BY <1>9, <1>t, NextGenerationType DEF IInv
<1>10. CASE Delivers \/ UNCHANGED vars
  BY <1>10 DEF Delivers, vars, repoVars, loopVars
<1>11. QED
  BY <1>1, <1>2, <1>3, <1>4, <1>5, <1>6, <1>7, <1>8, <1>9, <1>10
     DEF Next, IntervalStep

\* "We want to sync at least every SyncInterval": as long as no reconnection
\* overlaps two loops and git answers, a waiting loop has a timer that runs or
\* something on its way that starts it, through any number of restarts, failed
\* syncs, failed pushes and commands.
THEOREM SpecNeverStranded ==
  ASSUME MayReconnect = FALSE, WorkingGit
  PROVE  Spec => []NeverStranded
<1>1. Init => NeverStranded
  BY DEF Init, NeverStranded
<1>2. IInv /\ NoneStopped /\ NoneStopped' /\ NeverStranded /\ [Next]_vars
        => NeverStranded'
  BY StepNotStranded DEF NoneStopped
<1>3. QED
  BY <1>1, <1>2, SpecIInv, SpecNoneStopped, PTL DEF Spec

-----------------------------------------------------------------------------
\* What a sync in progress knows of the cluster, for the loop that is alone.
Wanted(r) == history[checkout[gen].new][r]

TriedOf == checkout[gen].tried
ErrorsOf == checkout[gen].errors

\* Before it has changed anything ...
ExportStage ==
  pc[gen] \in {"export", "delete"} => TriedOf = {} /\ ErrorsOf = {}

DeleteStage == pc[gen] = "delete" => checkout[gen].stale = Stale(gen)

\* ... between deleting and applying ...
ApplyStage ==
  pc[gen] = "apply" =>
    \A r \in Resources :
      /\ r \in TriedOf => Wanted(r) = Absent
      /\ r \in TriedOf \ ErrorsOf => cluster[r] = Absent
      /\ r \notin TriedOf /\ Wanted(r) = Absent => cluster[r] = Absent

\* ... and when it has applied: what it did not try was as wanted already, or
\* is the same in the revision it started from.
ReportStage ==
  pc[gen] = "report" =>
    \A r \in Resources :
      /\ r \in TriedOf \ ErrorsOf => cluster[r] = Wanted(r)
      /\ r \notin TriedOf => \/ cluster[r] = Wanted(r)
                             \/ /\ checkout[gen].old # 0
                                /\ history[checkout[gen].old][r] = Wanted(r)
                                /\ Wanted(r) # Absent

StageInv ==
  stopped = {} => ExportStage /\ DeleteStage /\ ApplyStage /\ ReportStage

\* Counting an attempt, in terms of what was tried and what failed.
LEMMA AttemptsCount ==
  ASSUME TypeOK, NEW g \in Gens, NEW ops, NEW bad, Attempts(g, ops, bad)
  PROVE  /\ checkout'[g].tried = checkout[g].tried \cup ops
         /\ checkout'[g].errors = checkout[g].errors \cup bad
         /\ checkout'[g].old = checkout[g].old
         /\ checkout'[g].new = checkout[g].new
<1> DEFINE c == checkout[g]
           d == [c EXCEPT !.tried = c.tried \cup ops, !.errors = c.errors \cup bad]
<1>1. c \in Checkouts
  BY DEF TypeOK, Checkouts
<1>2. /\ d.tried = c.tried \cup ops /\ d.errors = c.errors \cup bad
      /\ d.old = c.old /\ d.new = c.new
  BY <1>1 DEF Checkouts
<1>3. checkout'[g] = d
  BY DEF Attempts, TypeOK
<1>4. QED
  BY <1>2, <1>3

\* The history only grows.
LEMMA HistoryKept ==
  ASSUME TypeOK, [Next]_vars
  PROVE  /\ Len(history') \in Nat /\ Len(history) \in Nat
         /\ Len(history') >= Len(history)
         /\ \A n \in 1 .. Len(history) : history'[n] = history[n]
<1>1. CASE \E c \in Contents : Commits(c)
  <2>1. PICK c \in Contents : history' = Append(history, c)
    BY <1>1 DEF Commits
  <2>2. history \in Seq(Contents)
    BY DEF TypeOK
  <2>3. QED
    BY <2>1, <2>2
<1>2. CASE ~\E c \in Contents : Commits(c)
  <2>1. UNCHANGED history
    <3>1. CASE \E g \in Gens : LoopStep(g)
      BY <3>1, LoopOwn DEF OwnStep
    <3>2. CASE ~\E g \in Gens : LoopStep(g)
      BY <1>2, <3>2 DEF Next, StartStep, StartClones, StartGetsReady, DoSync,
         TimerFires, IntervalStep, IntervalRefreshes, IntervalFails,
         Delivers, Reconnects, Restarts, NextGeneration, vars
    <3>3. QED
      BY <3>1, <3>2
  <2>2. QED
    BY <2>1, TagTypes
<1>3. QED
  BY <1>1, <1>2

\* What other steps than the loop's leave alone: all of a sync in progress,
\* and of the mirror in the map all but a fetch.
MirrorStep ==
  \/ /\ mirror'[gen] = mirror[gen]
     /\ status'[gen] = "new" <=> status[gen] = "new"
  \/ /\ mirror'[gen] = Fetched /\ status'[gen] # "new" /\ history' = history

LEMMA OtherSteps ==
  ASSUME TypeOK, [Next]_vars, stopped' = {}
  PROVE  \/ \E g \in Gens : LoopStep(g)
         \/ Restarts
         \/ /\ UNCHANGED <<agentTag, cluster, gen, pc, checkout, reported>>
            /\ MirrorStep
<1> DEFINE Same == UNCHANGED <<agentTag, cluster, gen, pc, checkout, reported>>
<1>1. ~Reconnects
  BY DEF Reconnects, TypeOK
<1>2. gen \in Gens
  BY TagTypes
<1>3. ASSUME mirror' = mirror, status' = status PROVE MirrorStep
  BY <1>3 DEF MirrorStep
<1>4. CASE (\E c \in Contents : Commits(c)) \/ Delivers \/ UNCHANGED vars
  <2>1. Same /\ mirror' = mirror /\ status' = status
    BY <1>4 DEF Commits, Delivers, vars, repoVars, loopVars, logVars
  <2>2. QED
    BY <1>3, <2>1
<1>5. CASE StartStep
  <2>1. Same
    BY <1>5 DEF StartStep, StartClones, StartGetsReady, loopVars, logVars
  <2>2. MirrorStep
    BY <1>2, <1>5
       DEF StartStep, StartClones, StartGetsReady, MirrorStep, TypeOK
  <2>3. QED
    BY <2>1, <2>2
<1>6. ASSUME RefreshSucceeds \/ RefreshFails, status' = status, history' = history
      PROVE  MirrorStep
  BY <1>2, <1>6 DEF RefreshSucceeds, RefreshFails, MirrorStep, Ready, TypeOK
<1>7. CASE DoSync
  BY <1>6, <1>7 DEF DoSync, loopVars, logVars
<1>8. ASSUME NEW g \in Gens, IntervalStep(g) PROVE Same /\ MirrorStep
  BY <1>6, <1>8 DEF IntervalStep, IntervalRefreshes, IntervalFails, loopVars,
     logVars
<1>9. ASSUME NEW g \in Gens, TimerFires(g) PROVE Same /\ MirrorStep
  BY <1>3, <1>9 DEF TimerFires, repoVars, logVars
<1>10. QED
  BY <1>1, <1>4, <1>5, <1>7, <1>8, <1>9 DEF Next

\* The steps of the loop that change neither the cluster nor what is recorded
\* about it.
IdleStep(g) ==
  \/ TakesStop(g) \/ TakesTimer(g) \/ SeesRefresh(g) \/ TakesSyncSoon(g)
  \/ SyncFails(g) \/ PushFails(g) \/ Refreshes(g)

LEMMA IdleSteps ==
  ASSUME TypeOK, NEW g \in Gens, IdleStep(g)
  PROVE  /\ UNCHANGED <<history, agentTag, cluster, reported, gen, status>>
         /\ pc'[g] \in {"stopped", "select", "clone"}
         /\ pc[g] = "refresh" => Refreshes(g)
  BY ReturnsOwn DEF IdleStep, TakesStop, TakesTimer, SeesRefresh,
     TakesRefreshed, TakesSyncSoon, SyncFails, PushFails, Refreshes, Selects,
     TypeOK, repoVars, logVars

\* The steps of a sync carry its knowledge on.
LEMMA LoopStage ==
  ASSUME IInv, StageInv, stopped = {}, NEW g \in Gens, g = gen, LoopStep(g)
  PROVE  StageInv'
<1> USE DEF StageInv, ExportStage, DeleteStage, ApplyStage, ReportStage,
    TriedOf, ErrorsOf, Wanted
<1>t. TypeOK
  BY DEF IInv
<1>g. gen' = gen /\ stopped' = stopped /\ history' = history
  BY <1>t, LoopOwn DEF OwnStep
<1>1. ASSUME pc'[g] \in {"stopped", "select", "clone", "push", "refresh"}
      PROVE  StageInv'
  BY <1>1, <1>g
<1>2. CASE IdleStep(g)
  BY <1>1, <1>2, <1>t, IdleSteps
<1>3. CASE Clones(g)
  <2>1. checkout[g] = NoCheckout /\ pc'[g] = "export"
    BY <1>3, <1>t DEF Clones, TypeOK
  <2>2. checkout'[g].tried = {} /\ checkout'[g].errors = {}
    BY <1>3, <1>t, <2>1 DEF Clones, TypeOK, NoCheckout
  <2>3. QED
    BY <1>g, <2>1, <2>2
<1>4. CASE Exports(g)
  <2>1. /\ pc'[g] = "delete" /\ cluster' = cluster /\ pc[g] = "export"
        /\ checkout'[g].stale = Stale(g) /\ checkout'[g].new = checkout[g].new
        /\ checkout'[g].tried = checkout[g].tried
        /\ checkout'[g].errors = checkout[g].errors
    BY <1>4, <1>t DEF Exports, TypeOK
  <2>2. Stale(g)' = Stale(g)
    BY <1>g, <2>1 DEF Stale
  <2>3. QED
    BY <1>g, <2>1, <2>2
<1>5. CASE Deletes(g)
  <2>1. PICK bad \in Failures(Stale(g)) :
          /\ cluster' = [r \in Resources |-> IF r \in Stale(g) \ bad THEN Absent
                                             ELSE cluster[r]]
          /\ Attempts(g, Stale(g), bad)
    BY <1>5 DEF Deletes
  <2>2. /\ checkout'[g].tried = Stale(g) /\ checkout'[g].errors = bad
        /\ checkout'[g].new = checkout[g].new
    <3>1. /\ checkout'[g].tried = checkout[g].tried \cup Stale(g)
          /\ checkout'[g].errors = checkout[g].errors \cup bad
          /\ checkout'[g].new = checkout[g].new
      BY <1>t, <2>1, AttemptsCount
    <3>2. checkout[g].tried = {} /\ checkout[g].errors = {}
      BY <1>5 DEF Deletes
    <3>3. QED
      BY <3>1, <3>2
  <2>3. pc'[g] = "apply"
    BY <1>5, <1>t DEF Deletes, TypeOK
  <2>4. ApplyStage'
    BY <1>g, <2>1, <2>2 DEF Stale
  <2>5. QED
    BY <1>g, <2>3, <2>4
<1>6. CASE Applies(g)
  <2>1. PICK bad \in Failures(Changed(g)) :
          /\ cluster' = [r \in Resources |->
                           IF r \in Changed(g) \ bad THEN history[checkout[g].new][r]
                           ELSE cluster[r]]
          /\ Attempts(g, Changed(g), bad)
    BY <1>6 DEF Applies
  <2>2. /\ checkout'[g].tried = checkout[g].tried \cup Changed(g)
        /\ checkout'[g].errors = checkout[g].errors \cup bad
        /\ checkout'[g].old = checkout[g].old
        /\ checkout'[g].new = checkout[g].new
    BY <1>t, <2>1, AttemptsCount
  <2>3. bad \subseteq Changed(g)
    BY <2>1 DEF Failures
  <2>4. pc[g] = "apply" /\ pc'[g] = "report"
    BY <1>6, <1>t DEF Applies, TypeOK
  <2>5. ASSUME NEW r \in Resources, r \in TriedOf' \ ErrorsOf'
        PROVE  cluster'[r] = Wanted(r)'
    <3>1. CASE r \in Changed(g)
      BY <1>g, <2>1, <2>2, <2>5, <3>1
    <3>2. CASE r \notin Changed(g)
      BY <1>g, <2>1, <2>2, <2>4, <2>5, <3>2
    <3>3. QED
      BY <3>1, <3>2
  <2>6. ASSUME NEW r \in Resources, r \notin TriedOf'
        PROVE  \/ cluster'[r] = Wanted(r)'
               \/ /\ checkout'[gen'].old # 0
                  /\ history'[checkout'[gen'].old][r] = Wanted(r)'
                  /\ Wanted(r)' # Absent
    <3>1. r \notin TriedOf /\ r \notin Changed(g) /\ cluster'[r] = cluster[r]
      BY <1>g, <2>1, <2>2, <2>6
    <3>2. QED
      BY <1>g, <2>2, <2>4, <3>1 DEF Changed
  <2>7. QED
    BY <1>g, <2>4, <2>5, <2>6
<1>7. CASE Reports(g) \/ Pushes(g)
  BY <1>1, <1>7, <1>t, ReturnsOwn DEF Reports, Pushes, TypeOK
<1>8. QED
  BY <1>2, <1>3, <1>4, <1>5, <1>6, <1>7 DEF LoopStep, IdleStep

\* A reconnection cannot be undone.
LEMMA NoneStoppedBefore ==
  ASSUME TypeOK, [Next]_vars, stopped' = {}
  PROVE  stopped = {}
<1>1. CASE \E g \in Gens : LoopStep(g)
  BY <1>1, LoopOwn DEF OwnStep
<1>2. CASE ~\E g \in Gens : LoopStep(g)
  BY <1>2 DEF Next, Commits, StartStep, StartClones, StartGetsReady, DoSync,
     TimerFires, IntervalStep, IntervalRefreshes, IntervalFails, Delivers,
     Reconnects, Restarts, NextGeneration, vars, repoVars
<1>3. QED
  BY <1>1, <1>2

\* So do all others.
LEMMA StepStage ==
  ASSUME IInv, StageInv, [Next]_vars
  PROVE  StageInv'
<1> SUFFICES ASSUME stopped' = {} PROVE StageInv'
  BY DEF StageInv
<1>t. TypeOK /\ RevsInv
  BY DEF IInv
<1>s. stopped = {}
  BY <1>t, NoneStoppedBefore
<1>1. ASSUME NEW g \in Gens, LoopStep(g) PROVE StageInv'
  BY <1>1, <1>s, AloneLoop, LoopStage
<1>2. CASE Restarts
  <2>1. pc'[gen'] = "select"
    BY <1>t, <1>2, NextGenerationType DEF IInv
  <2>2. QED
    BY <2>1 DEF StageInv, ExportStage, DeleteStage, ApplyStage, ReportStage
<1>3. CASE UNCHANGED <<agentTag, cluster, gen, pc, checkout, reported>>
  <2>1. gen \in Gens /\ checkout[gen].new \in Revs /\ checkout[gen].old \in Revs
    BY <1>t, TagTypes DEF TypeOK
  <2>2. /\ checkout[gen].old # 0 => checkout[gen].old \in 1 .. Len(history)
        /\ pc[gen] \in WithClone => checkout[gen].new \in 1 .. Len(history)
    BY <1>t, <2>1, TagTypes DEF RevsInv, Revs
  <2>3. /\ pc[gen] \in WithClone => history'[checkout[gen].new] = history[checkout[gen].new]
        /\ checkout[gen].old # 0 => history'[checkout[gen].old] = history[checkout[gen].old]
    BY <1>t, <2>2, HistoryKept
  <2>4. pc[gen] \in WithClone => Stale(gen)' = Stale(gen)
    BY <1>3, <2>3 DEF Stale
  <2>5. QED
    BY <1>s, <1>3, <2>3, <2>4 DEF StageInv, ExportStage, DeleteStage,
       ApplyStage, ReportStage, TriedOf, ErrorsOf, Wanted, WithClone, Syncing
<1>4. QED
  BY <1>t, <1>1, <1>2, <1>3, OtherSteps

-----------------------------------------------------------------------------
\* The mirror and the working clone of a loop that is alone may lag behind
\* agent-sync, when the fetch after a push has failed, but are not ahead.
LagInv ==
  stopped = {} => /\ status[gen] # "new" => mirror[gen].agent <= agentTag
                  /\ pc[gen] \in WithClone => checkout[gen].old <= agentTag

\* No sync of the past was of a later revision than this.
Latest == IF pc[gen] \in WithClone THEN checkout[gen].new
          ELSE IF status[gen] # "new" THEN mirror[gen].devops
          ELSE Len(history)

\* What is in the cluster is what some revision between agent-sync and the
\* latest one looked at defines: a sync that could not move the tag leaves the
\* cluster ahead of it.  If agent-sync is on a revision that took r back, it
\* may be the content that was taken back.
InWindow(r) == \/ RevertedBy(history, agentTag, r)
               \/ \E n \in agentTag .. Latest : cluster[r] = history[n][r]

\* So it is for all that is not reported as failed.
WindowInv ==
  stopped = {} /\ agentTag # 0 => \A r \in Resources \ reported : InWindow(r)

\* A sync that has given its event has made the cluster what it wants.
PushInv ==
  stopped = {} /\ pc[gen] = "push" =>
    \A r \in Resources \ reported : \/ cluster[r] = Wanted(r)
                                    \/ RevertedBy(history, checkout[gen].new, r)

\* The bounds that these parts need.
LEMMA LatestBounds ==
  ASSUME IInv, stopped = {}
  PROVE  /\ gen \in Gens
         /\ Latest \in Nat /\ agentTag \in Nat /\ agentTag <= Latest
         /\ Latest <= Len(history) /\ Len(history) \in Nat
         /\ pc[gen] \in WithClone => /\ checkout[gen].new \in 1 .. Len(history)
                                     /\ checkout[gen].new <= mirror[gen].devops
                                     /\ status[gen] # "new"
         /\ checkout[gen].old \in 0 .. Len(history)
         /\ mirror[gen].devops \in 0 .. Len(history)
         /\ mirror[gen].agent \in 0 .. Len(history)
<1>1. TypeOK /\ RevsInv /\ AloneInv
  BY DEF IInv
<1>2. gen \in Gens /\ checkout[gen].new \in Revs /\ checkout[gen].old \in Revs
  BY <1>1, TagTypes DEF TypeOK
<1>3. QED
  BY <1>1, <1>2, TagTypes DEF RevsInv, AloneInv, Latest, Revs

\* What a revision takes back is settled when it is committed.
LEMMA RevertedByKept ==
  ASSUME TypeOK, [Next]_vars
  PROVE  \A n \in 1 .. Len(history), r \in Resources :
           RevertedBy(history', n, r) <=> RevertedBy(history, n, r)
<1> TAKE n \in 1 .. Len(history), r \in Resources
<1>1. \A i \in 1 .. n : history'[i] = history[i]
  <2>1. Len(history) \in Nat
    BY TagTypes
  <2>2. QED
    BY <2>1, HistoryKept
<1>2. n \in 1 .. n
  BY TagTypes
<1>3. QED
  BY <1>1, <1>2 DEF RevertedBy

\* Nobody gets ahead of agent-sync.
LEMMA StepLag ==
  ASSUME IInv, LagInv, [Next]_vars
  PROVE  LagInv'
<1> SUFFICES ASSUME stopped' = {}
             PROVE  /\ status'[gen'] # "new" => mirror'[gen'].agent <= agentTag'
                    /\ pc'[gen'] \in WithClone => checkout'[gen'].old <= agentTag'
  BY DEF LagInv
<1>t. TypeOK
  BY DEF IInv
<1>s. stopped = {}
  BY <1>t, NoneStoppedBefore
<1>b. /\ gen \in Gens /\ agentTag \in Nat /\ agentTag' \in Nat
      /\ checkout[gen].old \in Nat /\ mirror[gen].agent \in Nat
  <2>1. TypeOK'
    BY StepTypeOK
  <2>2. agentTag' \in Nat
    <3>1. agentTag' \in 0 .. Len(history') /\ Len(history') \in Nat
      BY <2>1, <1>t, HistoryKept DEF TypeOK
    <3>2. QED
      BY <3>1
  <2>3. QED
    BY <1>s, <2>2, LatestBounds
<1>m. agentTag' >= agentTag
  BY <1>s, StepTag
<1>l. /\ status[gen] # "new" => mirror[gen].agent <= agentTag
      /\ pc[gen] \in WithClone => checkout[gen].old <= agentTag
  BY <1>s DEF LagInv
<1>1. ASSUME NEW g \in Gens, LoopStep(g)
      PROVE  /\ status'[gen'] # "new" => mirror'[gen'].agent <= agentTag'
             /\ pc'[gen'] \in WithClone => checkout'[gen'].old <= agentTag'
  <2>1. g = gen /\ OwnStep(g)
    BY <1>s, <1>t, <1>1, AloneLoop, LoopOwn
  <2>2. gen' = gen /\ status' = status
    BY <2>1 DEF OwnStep
  <2>3. mirror'[gen].agent \in {mirror[gen].agent, agentTag}
    BY <1>b, <1>t, <2>1 DEF OwnStep, Fetched, TypeOK
  <2>4. pc'[gen] \in WithClone => checkout'[gen].old <= agentTag
    BY <1>b, <1>l, <2>1 DEF OwnStep, Ready
  <2>5. pc'[gen] \in WithClone => checkout'[gen].old \in Nat
    BY <1>b, <2>1 DEF OwnStep
  <2>6. QED
    BY <1>b, <1>m, <1>l, <2>2, <2>3, <2>4, <2>5
<1>2. CASE Restarts
  <2>1. pc'[gen'] = "select" /\ status'[gen'] = "new"
    BY <1>t, <1>2, NextGenerationType DEF IInv
  <2>2. QED
    BY <2>1 DEF WithClone, Syncing
<1>3. CASE UNCHANGED <<agentTag, cluster, gen, pc, checkout, reported>> /\ MirrorStep
  BY <1>b, <1>l, <1>3, FetchedType, <1>t DEF MirrorStep
<1>4. QED
  BY <1>t, <1>1, <1>2, <1>3, OtherSteps

\* A window that has not moved still holds what it held.
LEMMA WindowKept ==
  ASSUME IInv, [Next]_vars, stopped = {}, agentTag' = agentTag, agentTag # 0,
         Latest' \in Nat, Latest' >= Latest,
         NEW r \in Resources, cluster'[r] = cluster[r], InWindow(r)
  PROVE  InWindow(r)'
<1>1. /\ Latest \in Nat /\ Latest <= Len(history) /\ agentTag \in Nat
      /\ Len(history) \in Nat /\ agentTag \in 1 .. Len(history)
  BY LatestBounds
<1>2. CASE RevertedBy(history, agentTag, r)
  <2>1. RevertedBy(history', agentTag, r)
    BY <1>1, <1>2, RevertedByKept DEF IInv
  <2>2. QED
    BY <2>1 DEF InWindow
<1>3. CASE \E n \in agentTag .. Latest : cluster[r] = history[n][r]
  <2>1. PICK n \in agentTag .. Latest : cluster[r] = history[n][r]
    BY <1>3
  <2>2. n \in 1 .. Len(history) /\ n \in agentTag' .. Latest'
    BY <1>1
  <2>3. history'[n] = history[n]
    BY <2>2, HistoryKept DEF IInv
  <2>4. QED
    BY <2>1, <2>2, <2>3 DEF InWindow
<1>4. QED
  BY <1>2, <1>3 DEF InWindow

\* What a sync reports is then as it wants it, if not as an error: what it did
\* not try is in the window between two equal contents, or taken back.
LEMMA ReportApplies ==
  ASSUME IInv, StageInv, LagInv, WindowInv, stopped = {}, Reports(gen),
         NEW r \in Resources \ reported'
  PROVE  \/ cluster[r] = Wanted(r)
         \/ r \notin TriedOf /\ RevertedBy(history, checkout[gen].new, r)
<1> USE DEF TriedOf, ErrorsOf
<1>1. /\ pc[gen] = "report" /\ reported' = (reported \ TriedOf) \cup ErrorsOf
      /\ pc[gen] \in WithClone
  BY DEF Reports, WithClone, Syncing
<1>2. CASE r \in TriedOf
  BY <1>1, <1>2 DEF StageInv, ReportStage
<1>3. CASE r \notin TriedOf /\ cluster[r] # Wanted(r)
  <2> DEFINE old == checkout[gen].old
             new == checkout[gen].new
  <2>1. /\ r \notin reported /\ old # 0
        /\ history[old][r] = Wanted(r) /\ Wanted(r) # Absent
    BY <1>1, <1>3 DEF StageInv, ReportStage
  <2>2. /\ old \in Nat /\ old <= agentTag /\ agentTag \in Nat /\ agentTag # 0
        /\ old \in 1 .. Len(history) /\ new \in 1 .. Len(history)
        /\ Len(history) \in Nat /\ Latest = new /\ agentTag <= new
    BY <1>1, <2>1, LatestBounds DEF LagInv, Latest
  <2>3. InWindow(r)
    BY <2>1, <2>2 DEF WindowInv
  <2>4. ASSUME NEW i \in 1 .. new, NEW j \in 1 .. new, i < j,
               history[i][r] = history[new][r], history[j][r] # history[new][r]
        PROVE  RevertedBy(history, new, r)
    BY <2>1, <2>4 DEF RevertedBy, Wanted
  <2>5. CASE \E n \in agentTag .. new : cluster[r] = history[n][r]
    <3>1. PICK n \in agentTag .. new : cluster[r] = history[n][r]
      BY <2>5
    <3>2. history[n][r] # history[old][r]
      BY <1>3, <2>1, <3>1
    <3>3. n \in 1 .. new /\ old \in 1 .. new /\ old < n
      BY <2>2, <3>1, <3>2
    <3>4. QED
      BY <1>3, <2>1, <2>4, <3>2, <3>3 DEF Wanted
  <2>6. CASE RevertedBy(history, agentTag, r)
    <3>1. PICK i \in 1 .. agentTag, j \in 1 .. agentTag :
             /\ i < j /\ history[i][r] = history[agentTag][r]
             /\ history[j][r] # history[agentTag][r]
      BY <2>6 DEF RevertedBy
    <3>2. i \in 1 .. new /\ j \in 1 .. new /\ old \in 1 .. new /\ agentTag \in 1 .. new
      BY <2>2
    <3>3. CASE history[agentTag][r] = history[new][r]
      BY <1>3, <2>4, <3>1, <3>2, <3>3
    <3>4. CASE history[agentTag][r] # history[new][r]
      <4>1. old < agentTag
        BY <2>1, <2>2, <3>4 DEF Wanted
      <4>2. QED
        BY <1>3, <2>1, <2>4, <3>2, <3>4, <4>1 DEF Wanted
    <3>5. QED
      BY <3>3, <3>4
  <2>7. QED
    BY <2>2, <2>3, <2>5, <2>6 DEF InWindow
<1>4. QED
  BY <1>2, <1>3

\* A revision that a sync has brought to the cluster is in the window.
LEMMA WantedInWindow ==
  ASSUME IInv, stopped = {}, pc[gen] \in WithClone, history' = history,
         agentTag' \in Nat, agentTag' <= checkout[gen].new,
         Latest' \in Nat, Latest' >= checkout[gen].new,
         NEW r \in Resources, cluster'[r] = Wanted(r)
  PROVE  InWindow(r)'
<1>1. checkout[gen].new \in 1 .. Len(history) /\ Len(history) \in Nat
  BY LatestBounds
<1>2. checkout[gen].new \in agentTag' .. Latest'
  BY <1>1
<1>3. QED
  BY <1>2 DEF Wanted, InWindow

\* The steps of the loop keep the window and what the push relies on.
LEMMA LoopApplied ==
  ASSUME IInv, IInv', StageInv, LagInv, WindowInv, PushInv, stopped = {},
         NEW g \in Gens, g = gen, LoopStep(g), [Next]_vars
  PROVE  WindowInv' /\ PushInv'
<1>t. TypeOK /\ AloneInv
  BY DEF IInv
<1>g. gen' = gen /\ stopped' = {} /\ history' = history
  BY <1>t, LoopOwn DEF OwnStep
<1>b. /\ Latest \in Nat /\ agentTag \in Nat /\ agentTag <= Latest
      /\ Latest' \in Nat /\ agentTag' \in Nat
      /\ mirror[gen].devops \in Nat /\ Len(history) \in Nat
      /\ pc[gen] \in WithClone => /\ checkout[gen].new \in Nat
                                  /\ checkout[gen].new <= mirror[gen].devops
                                  /\ checkout[gen].new <= Len(history)
                                  /\ agentTag <= checkout[gen].new
                                  /\ Latest = checkout[gen].new
  <2>1. pc[gen] \in WithClone => agentTag <= checkout[gen].new
    BY <1>t DEF AloneInv
  <2>2. Latest' \in Nat /\ agentTag' \in Nat
    <3>1. TypeOK'
      BY DEF IInv
    <3>2. /\ checkout'[gen].new \in Revs /\ mirror'[gen].devops \in Revs
          /\ Len(history) \in Nat /\ agentTag' \in 0 .. Len(history)
      BY <1>t, <1>g, <3>1, TagTypes DEF TypeOK
    <3>3. QED
      BY <1>g, <3>2 DEF Latest, Revs
  <2>3. QED
    BY <2>1, <2>2, LatestBounds DEF Latest
<1>w. ASSUME UNCHANGED <<agentTag, cluster, reported>>, Latest' >= Latest
      PROVE  WindowInv'
  <2> SUFFICES ASSUME agentTag # 0, NEW r \in Resources \ reported
               PROVE  InWindow(r)'
    BY <1>g, <1>w DEF WindowInv
  <2>1. InWindow(r)
    BY DEF WindowInv
  <2>2. QED
    BY <1>b, <1>w, <2>1, WindowKept
<1>1. CASE IdleStep(g)
  <2>1. /\ UNCHANGED <<history, agentTag, cluster, reported, gen, status>>
        /\ pc'[g] \notin WithClone /\ pc'[g] # "push"
        /\ pc[g] = "refresh" => Refreshes(g)
    BY <1>1, <1>t, IdleSteps DEF WithClone, Syncing
  <2>2. mirror'[gen].devops \in {mirror[gen].devops, Len(history)}
    BY <1>t, LoopOwn, FetchedType DEF OwnStep, TypeOK
  <2>3. status[gen] # "new" => mirror[gen].devops <= Len(history)
    BY LatestBounds
  <2>4. Latest' >= Latest
    BY <1>b, <1>g, <2>1, <2>2, <2>3, LatestBounds DEF Latest
  <2>5. QED
    BY <1>w, <2>1, <2>4 DEF PushInv
<1>2. CASE Clones(g)
  <2>1. /\ UNCHANGED <<agentTag, cluster, reported>>
        /\ pc'[g] = "export" /\ pc[g] = "clone" /\ Ready
        /\ checkout'[g].new = mirror[gen].devops
    BY <1>2, <1>t, ClonesType, TagTypes
       DEF Clones, TypeOK, Checkouts, logVars
  <2>2. Latest' = Latest
    BY <1>g, <2>1 DEF Latest, Ready, WithClone, Syncing
  <2>3. QED
    BY <1>b, <1>w, <1>g, <2>1, <2>2 DEF PushInv
<1>3. CASE Exports(g)
  <2>1. /\ UNCHANGED <<agentTag, cluster, reported>>
        /\ pc'[g] = "delete" /\ pc[g] = "export"
        /\ checkout'[g].new = checkout[g].new
    BY <1>3, <1>t DEF Exports, TypeOK, logVars
  <2>2. Latest' = Latest
    BY <1>g, <2>1 DEF Latest, WithClone, Syncing
  <2>3. QED
    BY <1>b, <1>w, <1>g, <2>1, <2>2 DEF PushInv
<1>4. CASE Deletes(g) \/ Applies(g)
  <2>1. /\ UNCHANGED <<agentTag, reported>> /\ pc'[g] \in {"apply", "report"}
        /\ pc[g] \in {"delete", "apply"}
    BY <1>4, <1>t DEF Deletes, Applies, TypeOK, logVars
  <2>2. checkout'[g].new = checkout[g].new
    BY <1>t, <2>1, LoopOwn DEF OwnStep, WithClone, Syncing
  <2>3. Latest' = Latest
    BY <1>g, <2>1, <2>2 DEF Latest, WithClone, Syncing
  <2>4. \A r \in Resources : cluster'[r] \in {cluster[r], Wanted(r)}
    <3>1. CASE Deletes(g)
      BY <3>1 DEF Deletes, StageInv, DeleteStage, Stale, Wanted
    <3>2. CASE Applies(g)
      BY <3>2 DEF Applies, Wanted
    <3>3. QED
      BY <1>4, <3>1, <3>2
  <2>5. ASSUME agentTag # 0, NEW r \in Resources \ reported
        PROVE  InWindow(r)'
    <3>1. CASE cluster'[r] = cluster[r]
      <4>1. InWindow(r)
        BY <2>5 DEF WindowInv
      <4>2. QED
        BY <1>b, <2>1, <2>3, <2>5, <3>1, <4>1, WindowKept
    <3>2. CASE cluster'[r] = Wanted(r)
      BY <1>b, <1>g, <2>1, <2>3, <3>2, WantedInWindow DEF WithClone, Syncing
    <3>3. QED
      BY <2>4, <3>1, <3>2
  <2>6. WindowInv'
    BY <1>g, <2>1, <2>5 DEF WindowInv
  <2>7. QED
    BY <1>g, <2>1, <2>6 DEF PushInv
<1>5. CASE Reports(g)
  <2>1. /\ UNCHANGED <<agentTag, cluster, status, mirror>> /\ pc[g] = "report"
        /\ pc[g] \in WithClone
        /\ \/ pc'[g] = "select"
           \/ pc'[g] = "push" /\ checkout' = checkout
    BY <1>5, <1>t, ReturnsOwn DEF Reports, TypeOK, repoVars, WithClone, Syncing
  <2>2. Latest' >= checkout[gen].new
    BY <1>b, <1>g, <2>1, LatestBounds DEF Latest, WithClone, Syncing
  <2>3. ASSUME NEW r \in Resources \ reported'
        PROVE  \/ cluster[r] = Wanted(r)
               \/ r \notin TriedOf /\ RevertedBy(history, checkout[gen].new, r)
    BY <1>5, <2>3, ReportApplies
  <2>4. WindowInv'
    <3> SUFFICES ASSUME agentTag # 0, NEW r \in Resources \ reported'
                 PROVE  InWindow(r)'
      BY <1>g, <2>1 DEF WindowInv
    <3>1. CASE cluster[r] = Wanted(r)
      BY <1>b, <1>g, <2>1, <2>2, <3>1, WantedInWindow
    <3>2. CASE r \notin TriedOf
      <4>1. r \notin reported
        BY <1>5, <3>2 DEF Reports, TriedOf
      <4>2. InWindow(r)
        BY <4>1 DEF WindowInv
      <4>3. QED
        BY <1>b, <2>1, <2>2, <4>2, WindowKept
    <3>3. QED
      BY <2>3, <3>1, <3>2
  <2>5. PushInv'
    BY <1>g, <2>1, <2>3 DEF PushInv, Wanted
  <2>6. QED
    BY <2>4, <2>5
<1>6. CASE Pushes(g)
  <2>1. /\ UNCHANGED <<cluster, checkout, reported>> /\ pc[g] = "push"
        /\ agentTag' = checkout[g].new /\ pc'[g] = "refresh"
        /\ pc[g] \in WithClone
    BY <1>6, <1>t DEF Pushes, TypeOK, logVars, WithClone, Syncing
  <2>2. Latest' = checkout[gen].new
    BY <1>g, <2>1 DEF Latest, WithClone, Syncing
  <2>3. WindowInv'
    <3> SUFFICES ASSUME NEW r \in Resources \ reported
                 PROVE  InWindow(r)'
      BY <1>g, <2>1 DEF WindowInv
    <3>1. CASE cluster[r] = Wanted(r)
      BY <1>b, <1>g, <2>1, <2>2, <3>1, WantedInWindow
    <3>2. CASE RevertedBy(history, checkout[gen].new, r)
      BY <1>g, <2>1, <3>2 DEF InWindow
    <3>3. QED
      BY <2>1, <3>1, <3>2 DEF PushInv
  <2>4. QED
    BY <1>g, <2>1, <2>3 DEF PushInv
<1>7. QED
  BY <1>1, <1>2, <1>3, <1>4, <1>5, <1>6 DEF LoopStep, IdleStep

\* So do all others.
LEMMA StepApplied ==
  ASSUME IInv, IInv', StageInv, LagInv, WindowInv, PushInv, [Next]_vars
  PROVE  WindowInv' /\ PushInv'
<1> SUFFICES ASSUME stopped' = {} PROVE WindowInv' /\ PushInv'
  BY DEF WindowInv, PushInv
<1>t. TypeOK
  BY DEF IInv
<1>s. stopped = {}
  BY <1>t, NoneStoppedBefore
<1>h. Len(history') \in Nat /\ Len(history') >= Len(history)
  BY <1>t, HistoryKept
<1>w. ASSUME UNCHANGED <<agentTag, cluster, reported>>, Latest' \in Nat,
             Latest' >= Latest
      PROVE  WindowInv'
  <2> SUFFICES ASSUME agentTag # 0, NEW r \in Resources \ reported
               PROVE  InWindow(r)'
    BY <1>w DEF WindowInv
  <2>1. InWindow(r)
    BY <1>s DEF WindowInv
  <2>2. QED
    BY <1>s, <1>w, <2>1, WindowKept
<1>1. ASSUME NEW g \in Gens, LoopStep(g) PROVE WindowInv' /\ PushInv'
  BY <1>t, <1>s, <1>1, AloneLoop, LoopApplied
<1>2. CASE Restarts
  <2>1. /\ pc'[gen'] = "select" /\ status'[gen'] = "new"
        /\ UNCHANGED <<history, agentTag, cluster, reported>>
    BY <1>t, <1>2, NextGenerationType DEF IInv, Restarts, NextGeneration, logVars
  <2>2. Latest' = Len(history)
    BY <2>1 DEF Latest, WithClone, Syncing
  <2>3. Latest' \in Nat /\ Latest' >= Latest
    BY <1>s, <2>2, LatestBounds
  <2>4. QED
    BY <1>w, <2>1, <2>3 DEF PushInv
<1>3. CASE UNCHANGED <<agentTag, cluster, gen, pc, checkout, reported>> /\ MirrorStep
  <2>1. Latest' \in Nat /\ Latest' >= Latest
    <3>1. /\ Latest \in Nat /\ Len(history) \in Nat /\ Latest <= Len(history)
          /\ mirror[gen].devops \in Nat
      BY <1>s, LatestBounds
    <3>2. CASE mirror'[gen] = Fetched /\ status'[gen] # "new" /\ history' = history
      <4>1. mirror'[gen].devops = Len(history)
        BY <3>2 DEF Fetched
      <4>2. Latest' = (IF pc[gen] \in WithClone THEN checkout[gen].new
                       ELSE Len(history))
        BY <1>3, <3>2, <4>1 DEF Latest
      <4>3. QED
        BY <3>1, <4>2 DEF Latest
    <3>3. CASE mirror'[gen] = mirror[gen] /\ (status'[gen] = "new" <=> status[gen] = "new")
      BY <1>h, <1>3, <3>1, <3>3 DEF Latest
    <3>4. QED
      BY <1>3, <3>2, <3>3 DEF MirrorStep
  <2>2. pc[gen] = "push" =>
          /\ history'[checkout[gen].new] = history[checkout[gen].new]
          /\ \A r \in Resources : RevertedBy(history, checkout[gen].new, r)
                                 => RevertedBy(history', checkout[gen].new, r)
    BY <1>s, <1>t, LatestBounds, HistoryKept, RevertedByKept DEF WithClone, Syncing
  <2>3. QED
    BY <1>s, <1>w, <1>3, <2>1, <2>2 DEF PushInv, Wanted
<1>4. QED
  BY <1>t, <1>1, <1>2, <1>3, OtherSteps

\* What holds of the cluster, as one invariant.
AppliedInv == IInv /\ StageInv /\ LagInv /\ WindowInv /\ PushInv

LEMMA SpecApplied == Spec => []AppliedInv
<1>1. ASSUME Init PROVE AppliedInv
  <2>1. gen = 1 /\ pc[gen] = "select" /\ status[gen] = "new" /\ agentTag = 0
    <3>1. 1 \in Gens
      BY <1>1, InitTypeOK, TagTypes DEF Init
    <3>2. QED
      BY <1>1, <3>1 DEF Init
  <2>2. QED
    BY <1>1, <2>1, InitIInv DEF AppliedInv, StageInv, ExportStage, DeleteStage,
       ApplyStage, ReportStage, LagInv, WindowInv, PushInv, WithClone, Syncing
<1>2. ASSUME AppliedInv, [Next]_vars PROVE AppliedInv'
  <2>1. IInv'
    BY <1>2, StepTypeOK, StepFuture, StepRevs, StepEvents, StepAlone
       DEF AppliedInv, IInv
  <2>2. QED
    BY <1>2, <2>1, StepStage, StepLag, StepApplied DEF AppliedInv
<1>3. QED
  BY <1>1, <1>2, PTL DEF Spec

\* The window has closed: the only revision left in it is the last one.
LEMMA CaughtUp == AppliedInv => SyncedMeansApplied
<1> SUFFICES ASSUME AppliedInv, stopped = {}, agentTag = Len(history),
                    NEW r \in Resources \ reported
             PROVE  cluster[r] = history[agentTag][r] \/ RevertedBy(history, agentTag, r)
  BY DEF SyncedMeansApplied
<1>1. IInv /\ WindowInv
  BY DEF AppliedInv
<1>2. /\ Latest \in Nat /\ agentTag <= Latest /\ Latest <= Len(history)
      /\ Len(history) \in Nat /\ agentTag # 0
  <2>1. Len(history) \in 1 .. MaxRevs
    BY <1>1 DEF IInv, TypeOK
  <2>2. QED
    BY <1>1, <2>1, LatestBounds
<1>3. \A n \in agentTag .. Latest : n = agentTag
  BY <1>2
<1>4. QED
  BY <1>1, <1>2, <1>3 DEF WindowInv, InWindow

\* When agent-sync has caught up, the cluster is what the revision says, save
\* the resources whose failure an event names and those that the revision
\* takes back to an earlier content: for every number of revisions and
\* resources, whatever fails and whenever the process crashes, as long as no
\* reconnection has let two loops overlap.
THEOREM SpecSyncedMeansApplied == Spec => []SyncedMeansApplied
BY SpecApplied, CaughtUp, PTL

-----------------------------------------------------------------------------
\* No result is of a revision newer than the last, nor, while no loops have
\* overlapped, than the mirror in the map and the one being synchronised.
ToldInv ==
  /\ \A t \in Sent : t <= Len(history)
  /\ stopped = {} =>
       /\ status[gen] # "new" => \A t \in Sent : t <= mirror[gen].devops
       /\ pc[gen] \in WithClone => \A t \in Sent : t <= checkout[gen].new

\* The quiet steps of a loop: neither the report nor the push.
QuietStep(g) ==
  \/ IdleStep(g) \/ Clones(g) \/ Exports(g) \/ Deletes(g) \/ Applies(g)

\* Only doSync tells and moves agent-sync, only the service moves devops-sync.
LEMMA QuietSteps ==
  ASSUME TypeOK, NEW g \in Gens, QuietStep(g)
  PROVE  UNCHANGED <<history, agentTag, queue, told, swallowed>>
BY DEF QuietStep, IdleStep, TakesStop, TakesTimer, SeesRefresh, TakesRefreshed,
   TakesSyncSoon, SyncFails, PushFails, Refreshes, Clones, Exports, Deletes,
   Applies, logVars

\* Nor do the fetches, the timers and the start of a Repo.
LEMMA OthersAreQuiet ==
  ASSUME StartStep \/ DoSync \/ (\E g \in Gens : TimerFires(g) \/ IntervalStep(g))
         \/ UNCHANGED vars
  PROVE  UNCHANGED <<history, agentTag, queue, told, swallowed>>
BY DEF StartStep, StartClones, StartGetsReady, DoSync, TimerFires, IntervalStep,
   IntervalRefreshes, IntervalFails, vars, logVars

\* Revisions are numbers.
LEMMA RevisionTypes ==
  ASSUME TypeOK
  PROVE  /\ Len(history) \in Nat /\ gen \in Gens
         /\ \A t \in Sent : t \in Nat
         /\ \A g \in Gens : checkout[g].new \in Nat /\ mirror[g].devops \in Nat
<1>1. /\ Len(history) \in Nat /\ gen \in Gens /\ MaxRevs \in Nat
      /\ \A g \in Gens : mirror[g].devops \in Revs
  BY TagTypes
<1>2. /\ \A g \in Gens : checkout[g].new \in Revs
      /\ Sent \subseteq Revs
  <2>1. /\ queue \in Seq(Revs) /\ told \subseteq Revs /\ swallowed \subseteq Revs
        /\ \A g \in Gens : checkout[g].new \in Revs
    BY DEF TypeOK
  <2>2. \A k \in DOMAIN queue : queue[k] \in Revs
    BY <2>1
  <2>3. QED
    BY <2>1, <2>2 DEF Sent
<1>3. QED
  BY <1>1, <1>2 DEF Revs

\* A report is about the revision the loop has cloned, which the mirror is not
\* behind and which no report has passed.
LEMMA ReportTold ==
  ASSUME IInv, ToldInv, stopped = {}, NEW g \in Gens, Reports(g)
  PROVE  ToldInv'
<1>1. TypeOK /\ RevsInv /\ AloneInv
  BY DEF IInv
<1>2. g = gen
  BY AloneLoop DEF LoopStep
<1>3. pc[gen] \in WithClone
  BY <1>2 DEF Reports, WithClone, Syncing
<1>4. /\ checkout[gen].new <= mirror[gen].devops /\ status[gen] # "new"
      /\ checkout[gen].new <= Len(history)
  BY <1>1, <1>3, RevisionTypes DEF AloneInv, RevsInv
<1>5. /\ UNCHANGED <<history, gen, stopped, status, mirror>>
      /\ Sent' = Sent \cup {checkout[gen].new}
  BY <1>1, <1>2, AppendSent DEF Reports, repoVars, TypeOK
<1>6. pc'[gen] \in WithClone => checkout'[gen] = checkout[gen]
  <2>1. CASE Returns(gen)
    BY <1>1, <2>1, RevisionTypes, ReturnsOwn DEF WithClone, Syncing
  <2>2. CASE UNCHANGED checkout
    BY <2>2
  <2>3. QED
    BY <1>2, <2>1, <2>2 DEF Reports
<1>7. /\ \A t \in Sent' : t <= Len(history)
      /\ \A t \in Sent' : t <= mirror[gen].devops
      /\ \A t \in Sent' : t <= checkout[gen].new
  BY <1>1, <1>3, <1>4, <1>5, RevisionTypes DEF ToldInv
<1>8. QED
  BY <1>5, <1>6, <1>7 DEF ToldInv

\* The other steps of the loop tell nothing, and take up the revision of the
\* mirror.
LEMMA LoopTold ==
  ASSUME IInv, ToldInv, stopped = {}, NEW g \in Gens, LoopStep(g), Sent' = Sent
  PROVE  ToldInv'
<1>1. TypeOK /\ AloneInv
  BY DEF IInv
<1>2. g = gen /\ OwnStep(gen)
  BY <1>1, AloneLoop, LoopOwn
<1>3. UNCHANGED <<gen, status, stopped, history>>
  BY <1>2 DEF OwnStep
<1>4. mirror'[gen].devops = mirror[gen].devops \/ mirror'[gen].devops = Len(history)
  BY <1>1, <1>2, FetchedType, RevisionTypes DEF OwnStep, TypeOK
<1>5. status[gen] # "new" => \A t \in Sent : t <= mirror'[gen].devops
  BY <1>4 DEF ToldInv
<1>6. pc'[gen] \in WithClone => \A t \in Sent : t <= checkout'[gen].new
  <2>1. CASE Ready /\ checkout'[gen].new = mirror[gen].devops
    BY <2>1 DEF Ready, ToldInv
  <2>2. CASE pc[gen] \in WithClone /\ checkout'[gen].new = checkout[gen].new
    BY <2>2 DEF ToldInv
  <2>3. QED
    BY <1>2, <2>1, <2>2 DEF OwnStep
<1>7. QED
  BY <1>3, <1>5, <1>6 DEF ToldInv

\* Whatever happens, as long as no loop is told to stop.
LEMMA StepToldInv ==
  ASSUME IInv, ToldInv, [Next]_vars, stopped' = {}
  PROVE  ToldInv'
<1>1. TypeOK /\ FutureInv /\ stopped = {}
  BY NoneStoppedBefore DEF IInv
<1>2. ASSUME NEW g \in Gens, LoopStep(g) PROVE ToldInv'
  <2>1. CASE Reports(g)
    BY <1>1, <2>1, ReportTold
  <2>2. CASE ~Reports(g)
    <3>1. UNCHANGED <<queue, told, swallowed>>
      BY <1>1, <1>2, <2>2, QuietSteps
         DEF LoopStep, QuietStep, IdleStep, Pushes, logVars
    <3>2. QED
      BY <1>1, <1>2, <3>1, LoopTold DEF Sent
  <2>3. QED
    BY <2>1, <2>2
<1>3. CASE Restarts
  <2>1. /\ gen' \in Gens /\ UNCHANGED history /\ Sent' \subseteq Sent
        /\ status'[gen'] = "new" /\ pc'[gen'] = "select"
    BY <1>1, <1>3, NextGenerationType
  <2>2. QED
    BY <2>1 DEF ToldInv, WithClone, Syncing
<1>4. CASE \E c \in Contents : Commits(c)
  <2>1. PICK c \in Contents : Commits(c)
    BY <1>4
  <2>2. Len(history') = Len(history) + 1
    BY <1>1, <2>1, CommitExtends DEF Commits, TypeOK
  <2>3. \A t \in Sent : t <= Len(history')
    BY <1>1, <2>2, RevisionTypes DEF ToldInv
  <2>4. UNCHANGED <<gen, stopped, status, mirror, pc, checkout>> /\ Sent' = Sent
    BY <2>1 DEF Commits, repoVars, loopVars, logVars, Sent
  <2>5. QED
    BY <2>3, <2>4 DEF ToldInv
<1>5. CASE StartStep \/ DoSync \/ (\E g \in Gens : TimerFires(g) \/ IntervalStep(g))
           \/ UNCHANGED vars
  <2>1. UNCHANGED history /\ Sent' = Sent
    BY <1>5, OthersAreQuiet DEF Sent
  <2>2. CASE \E g \in Gens : LoopStep(g)
    BY <1>2, <2>2
  <2>3. CASE Restarts
    BY <1>3, <2>3
  <2>4. CASE /\ UNCHANGED <<gen, pc, checkout>>
             /\ MirrorStep
    <3>1. \A t \in Sent : t <= Len(history)
      BY DEF ToldInv
    <3>2. status'[gen] # "new" => \A t \in Sent : t <= mirror'[gen].devops
      BY <1>1, <2>4, <3>1, FetchedType DEF MirrorStep, ToldInv
    <3>3. QED
      BY <1>1, <2>1, <2>4, <3>1, <3>2 DEF ToldInv
  <2>5. QED
    BY <1>1, <2>2, <2>3, <2>4, OtherSteps
<1>6. ~Reconnects
  BY <1>1 DEF Reconnects, TypeOK
<1>7. CASE Delivers
  BY <1>1, <1>7, DeliversType DEF ToldInv, repoVars, loopVars
<1>8. QED
  BY <1>2, <1>3, <1>4, <1>5, <1>6, <1>7 DEF Next

\* So without reconnections it holds of every reachable state.
LEMMA SpecToldInv ==
  ASSUME MayReconnect = FALSE
  PROVE  Spec => []ToldInv
<1>1. Init => ToldInv
  BY InitTypeOK, TagTypes DEF Init, ToldInv, Sent
<1>2. IInv /\ NoneStopped' /\ ToldInv /\ [Next]_vars => ToldInv'
  BY StepToldInv DEF NoneStopped
<1>3. Spec => []NoneStopped
  BY SpecNoneStopped
<1>4. QED
  BY <1>1, <1>2, <1>3, SpecIInv, PTL DEF Spec

-----------------------------------------------------------------------------
\* GitSync starts with one revision, of which nobody has been told.
LEMMA InitImplementsReportLog == Init => ReportRef!ReportInit
<1> SUFFICES ASSUME Init PROVE ReportRef!ReportInit
  OBVIOUS
<1>1. PICK c \in Contents : history = <<c>>
  BY DEF Init
<1>2. Len(history) = 1
  BY <1>1
<1>3. QED
  BY <1>2 DEF Init, ReportRef!ReportInit

\* Every step is one of the report log, or none: the commit of the service,
\* the event (Give), the client (Tell), the push (Advance), a crash (Die).
LEMMA StepImplementsReportLog ==
  ASSUME IInv, ToldInv, stopped = {}, stopped' = {}, [Next]_vars
  PROVE  [ReportRef!ReportNext]_(ReportRef!reportVars)
<1> USE DEF ReportRef!ReportNext, ReportRef!reportVars
<1>1. TypeOK /\ FutureInv /\ RevsInv /\ EventInv
  BY DEF IInv
<1>2. CASE UNCHANGED <<history, agentTag, queue, told, swallowed>>
  BY <1>2
<1>3. CASE \E c \in Contents : Commits(c)
  <2>1. PICK c \in Contents : Commits(c)
    BY <1>3
  <2>2. Len(history') = Len(history) + 1
    BY <1>1, <2>1, CommitExtends DEF Commits, TypeOK
  <2>3. ReportRef!Commit
    BY <2>1, <2>2 DEF Commits, logVars, ReportRef!Commit
  <2>4. QED
    BY <2>3
<1>4. ASSUME NEW g \in Gens, Reports(g) \/ Pushes(g),
             NEW r, r = checkout[g].new
      PROVE  r \in 1 .. Len(history) /\ ReportRef!UpToDate(r)
  <2>1. g = gen
    BY <1>4, AloneLoop DEF LoopStep
  <2>2. pc[g] \in WithClone
    BY <1>4 DEF Reports, Pushes, WithClone, Syncing
  <2>3. r \in 1 .. Len(history)
    BY <1>1, <1>4, <2>2, RevisionTypes DEF RevsInv
  <2>4. \A t \in Sent : t <= r
    BY <1>4, <2>1, <2>2 DEF ToldInv
  <2>5. QED
    BY <2>3, <2>4 DEF ReportRef!UpToDate, ReportRef!Given, Sent
<1>5. ASSUME NEW g \in Gens, Reports(g), NEW r, r = checkout[g].new
      PROVE  ReportRef!ReportNext
  <2>1. r \in 1 .. Len(history) /\ ReportRef!UpToDate(r)
    BY <1>4, <1>5
  <2>2. queue' = Append(queue, r) /\ UNCHANGED <<history, agentTag, told, swallowed>>
    BY <1>5 DEF Reports
  <2>3. ReportRef!Give(r)
    BY <2>1, <2>2 DEF ReportRef!Give
  <2>4. QED
    BY <2>1, <2>3
<1>6. ASSUME NEW g \in Gens, Pushes(g), NEW r, r = checkout[g].new
      PROVE  ReportRef!ReportNext
  <2>1. r \in 1 .. Len(history) /\ ReportRef!UpToDate(r)
    BY <1>4, <1>6
  <2>2. /\ r \in Sent /\ agentTag' = r
        /\ UNCHANGED <<history, queue, told, swallowed>>
    BY <1>1, <1>6 DEF Pushes, EventInv, logVars
  <2>3. ReportRef!Advance(r)
    BY <2>1, <2>2 DEF ReportRef!Advance, ReportRef!Given, Sent
  <2>4. QED
    BY <2>1, <2>3
<1>7. ASSUME NEW g \in Gens, LoopStep(g)
      PROVE  \/ UNCHANGED <<history, agentTag, queue, told, swallowed>>
             \/ Reports(g) \/ Pushes(g)
  BY <1>1, <1>7, QuietSteps DEF LoopStep, QuietStep, IdleStep
<1>8. CASE Delivers
  <2>1. ReportRef!Tell
    BY <1>8 DEF Delivers, ReportRef!Tell
  <2>2. QED
    BY <2>1
<1>9. CASE Restarts
  <2>1. ReportRef!Die
    BY <1>9 DEF Restarts, NextGeneration, Fresh, ReportRef!Die
  <2>2. QED
    BY <2>1
<1>10. ~Reconnects
  BY <1>1 DEF Reconnects, TypeOK
<1>11. QED
  BY <1>2, <1>3, <1>5, <1>6, <1>7, <1>8, <1>9, <1>10, OthersAreQuiet DEF Next

\* What reaches the service is a report log, for every number of revisions,
\* whatever fails and whenever the process crashes and its channel with it, in
\* a process that does not reconnect: results come in the order of the
\* revisions, and agent-sync follows them.
THEOREM SpecImplementsReportLog ==
  ASSUME MayReconnect = FALSE
  PROVE  Spec => ImplementsReportLog
<1>1. Spec => []NoneStopped
  BY SpecNoneStopped
<1>2. Spec => []ToldInv
  BY SpecToldInv
<1>3. IInv /\ NoneStopped /\ NoneStopped' /\ ToldInv /\ [Next]_vars
        => [ReportRef!ReportNext]_(ReportRef!reportVars)
  BY StepImplementsReportLog DEF NoneStopped
<1>4. QED
  BY <1>1, <1>2, <1>3, InitImplementsReportLog, SpecIInv, PTL
     DEF Spec, ImplementsReportLog, ReportRef!ReportSpec
=============================================================================
