------------------------ MODULE AgentLifecycleProofs ------------------------
(***************************************************************************)
(* Proofs about AgentLifecycle, for every set of environments, commands    *)
(* and slots: the types, and the safety properties of its runs, each under *)
(* the condition on the commands that it needs.                            *)
(***************************************************************************)
EXTENDS AgentLifecycle, FiniteSetTheorems, TLAPS

-----------------------------------------------------------------------------
\* The variables stay within their types; in particular no slot channel ever
\* buffers more than SlotSize tokens, because a send waits for room.
LEMMA InitTypeOK == Init => TypeOK
<1> SUFFICES ASSUME Init PROVE TypeOK
  OBVIOUS
<1>1. 0 \in 0 .. SlotSize /\ 0 \in 0 .. MaxDrops
  BY LifecycleAssumption DEF LifecycleAssumption
<1>2. QED
  BY <1>1 DEF Init, TypeOK, InitStates, ListenStates, RepoStates

\* Every step keeps the types.
LEMMA NextTypeOK == TypeOK /\ [Next]_vars => TypeOK'
<1> SUFFICES ASSUME TypeOK, [Next]_vars PROVE TypeOK'
  OBVIOUS
<1> USE LifecycleAssumption DEF LifecycleAssumption, TypeOK, Goes,
    InitStates, ListenStates, RepoStates, flagVars, mapVars, slotVars, cmdVars,
    listenVars, repoVars, syncVars, connVars, procVars
<1>1. ASSUME NEW c \in Inits, InitArrives(c) PROVE TypeOK'
  <2>1. Named \subseteq Envs
    BY DEF Named
  <2>2. todo' \in [Listeners -> SUBSET Envs]
    BY <1>1, <2>1 DEF InitArrives, Listeners
  <2>3. QED
    BY <1>1, <2>2 DEF InitArrives
<1>2. ASSUME NEW c \in Inits, InitLocks(c) PROVE TypeOK'
  BY <1>2 DEF InitLocks
<1>3. ASSUME NEW c \in Inits, InitSkips(c) PROVE TypeOK'
  BY <1>3 DEF InitSkips
<1>4. ASSUME NEW c \in Inits, InitBegins(c) PROVE TypeOK'
  BY <1>4 DEF InitBegins
<1>5. ASSUME NEW c \in Inits, InitFails(c) PROVE TypeOK'
  BY <1>5 DEF InitFails
<1>6. ASSUME NEW c \in Inits, InitSucceeds(c) PROVE TypeOK'
  <2>1. present' \in SUBSET Envs /\ listener' \in [Listeners -> ListenStates]
    BY <1>6 DEF InitSucceeds, Listeners
  <2>2. QED
    BY <1>6, <2>1 DEF InitSucceeds
<1>7. ASSUME NEW c \in Inits, InitUnlocks(c) PROVE TypeOK'
  BY <1>7 DEF InitUnlocks
<1>8. ASSUME NEW c \in Inits, InitFlags(c) PROVE TypeOK'
  BY <1>8 DEF InitFlags
<1>9. ASSUME NEW a \in Adds, NEW e \in Envs, AddArrives(a, e) PROVE TypeOK'
  <2>1. /\ todo' \in [Listeners -> SUBSET Envs] /\ present' \in SUBSET Envs
        /\ listener' \in [Listeners -> ListenStates]
    BY <1>9 DEF AddArrives, Listeners
  <2>2. QED
    BY <1>9, <2>1 DEF AddArrives
<1>10. ASSUME NEW e \in Envs, DeleteArrives(e) PROVE TypeOK'
  BY <1>10 DEF DeleteArrives
<1>11. ASSUME NEW e \in Envs, DeleteSignals(e) PROVE TypeOK'
  <2>1. gitRepos[e] # None => <<e, gitRepos[e]>> \in Watches
    BY DEF Watches
  <2>2. syncTok' \in SUBSET Watches /\ refreshTok' \in SUBSET Watches
        /\ process' \in {"up", "stopping", "exited", "crashed"}
    BY <1>11, <2>1 DEF DeleteSignals, Crash
  <2>3. QED
    BY <1>11, <2>2 DEF DeleteSignals
<1>12. ASSUME NEW e \in Envs, DeleteForgets(e) PROVE TypeOK'
  <2>1. /\ stopMap' \in [Keys -> Listeners \cup {None}]
        /\ gitRepos' \in [Envs -> Listeners \cup {None}]
    BY <1>12 DEF DeleteForgets
  <2>2. QED
    BY <1>12, <2>1 DEF DeleteForgets
<1>13. ASSUME NEW l \in Listeners, ListenStarts(l) PROVE TypeOK'
  BY <1>13 DEF ListenStarts
<1>14. ASSUME NEW l \in Listeners, ListenStartsInterval(l) PROVE TypeOK'
  <2>1. /\ stopMap' \in [Keys -> Listeners \cup {None}]
        /\ interval' \in [Listeners -> {"none", "run", "exited"}]
    BY <1>14 DEF ListenStartsInterval
  <2>2. QED
    BY <1>14, <2>1 DEF ListenStartsInterval
<1>15. ASSUME NEW l \in Listeners, NEW e \in Envs, ListenChecks(l, e)
       PROVE  TypeOK'
  BY <1>15 DEF ListenChecks
<1>16. ASSUME NEW l \in Listeners, ListenPuts(l) PROVE TypeOK'
  <2>1. /\ stopMap' \in [Keys -> Listeners \cup {None}]
        /\ waits' \in [Listeners -> Inits \cup {None}]
    BY <1>16 DEF ListenPuts
  <2>2. QED
    BY <1>16, <2>1 DEF ListenPuts
<1>17. ASSUME NEW l \in Listeners, ListenAcquires(l) PROVE TypeOK'
  <2>1. tokens' \in [Inits -> 0 .. SlotSize]
    BY <1>17 DEF ListenAcquires
  <2>2. /\ repo' \in [Watches -> RepoStates]
        /\ syncLoop' \in [Watches -> {"none", "eval", "select", "exited"}]
        /\ gitRepos' \in [Envs -> Listeners \cup {None}]
    BY <1>17 DEF ListenAcquires
  <2>3. QED
    BY <1>17, <2>1, <2>2 DEF ListenAcquires
<1>18. ASSUME NEW l \in Listeners, ListenFinishes(l) PROVE TypeOK'
  BY <1>18 DEF ListenFinishes
<1>19. ASSUME NEW w \in Watches,
              RepoAdvances(w) \/ RepoFails(w) \/ RepoRetries(w) \/ RepoReady(w)
       PROVE  TypeOK'
  BY <1>19 DEF RepoAdvances, RepoFails, RepoRetries, RepoReady
<1>20. ASSUME NEW w \in Watches, RepoReturns(w) PROVE TypeOK'
  BY <1>20 DEF RepoReturns
<1>21. ASSUME NEW w \in Watches, RepoReleases(w) PROVE TypeOK'
  <2>1. releaseOn[w] \in Inits => tokens[releaseOn[w]] - 1 \in 0 .. SlotSize
    BY <1>21 DEF RepoReleases
  <2>2. tokens' \in [Inits -> 0 .. SlotSize]
    BY <1>21, <2>1 DEF RepoReleases
  <2>3. QED
    BY <1>21, <2>2 DEF RepoReleases
<1>22. ASSUME NEW w \in Watches,
              SyncLoopSelects(w) \/ SyncLoopWorks(w) \/ SyncLoopEnds(w)
       PROVE  TypeOK'
  BY <1>22 DEF SyncLoopSelects, SyncLoopWorks, SyncLoopEnds, Crash
<1>23. ASSUME NEW l \in Listeners, IntervalEnds(l) PROVE TypeOK'
  BY <1>23 DEF IntervalEnds
<1>24. CASE LinkDrops \/ LoopTests
  BY <1>24 DEF LinkDrops, LoopTests
<1>25. ASSUME NEW k \in Keys, LoopCloses(k) PROVE TypeOK'
  BY <1>25 DEF LoopCloses
<1>26. CASE \/ LoopClearsRunning \/ LoopClearsInitialized \/ LoopReconnects
            \/ LoopStops
  <2>1. CASE LoopClearsRunning
    BY <2>1 DEF LoopClearsRunning
  <2>2. CASE LoopClearsInitialized
    BY <2>2 DEF LoopClearsInitialized
  <2>3. CASE LoopReconnects \/ LoopStops
    BY <2>3 DEF LoopReconnects, LoopStops
  <2>4. QED
    BY <1>26, <2>1, <2>2, <2>3
<1>27. CASE ShutdownBegins \/ WorkerStops \/ ProcessExits
  BY <1>27 DEF ShutdownBegins, WorkerStops, ProcessExits
<1>28. CASE UNCHANGED vars
  BY <1>28 DEF vars
<1>29. QED
  BY <1>1, <1>2, <1>3, <1>4, <1>5, <1>6, <1>7, <1>8, <1>9, <1>10, <1>11,
     <1>12, <1>13, <1>14, <1>15, <1>16, <1>17, <1>18, <1>19, <1>20, <1>21,
     <1>22, <1>23, <1>24, <1>25, <1>26, <1>27, <1>28
     DEF Next, InitStep, ListenStep, RepoStep, LoopStep

\* The shared variables, the channels and the goroutines of the commands, the
\* listeners and the connection always have their types, whatever commands
\* come and whatever the connection does.
THEOREM LifecycleTypeOK == Spec => []TypeOK
  BY InitTypeOK, NextTypeOK, PTL DEF Spec

-----------------------------------------------------------------------------
\* The service deletes no environment.
NothingDeleted == \A e \in Envs : del[e] = "idle"

\* One agent_init at a time: what the commands and the Loop may do to the flag
\* Initialized meanwhile.
OneCommand == \A c, d \in InFlight : c = d

BodyInv == \A c \in Inits : init[c] = "body" => ~initialized

ClearInv == loop \in {"close", "unflag"} => initialized

Begun == \E c \in Inits : init[c] \in {"body", "unlock", "flag"}

BegunInv == bodies > 0 => initialized \/ Begun

CommandInv == OneCommand /\ BodyInv /\ ClearInv /\ BegunInv /\ NoRepeatedInit

\* The bound of one lets a command arrive only when no other is handled.
LEMMA NoneInFlight ==
  ASSUME MaxInFlight = 1, OneCommand, Cardinality(InFlight) < MaxInFlight
  PROVE  InFlight = {}
<1> SUFFICES ASSUME NEW c \in InFlight PROVE FALSE
  OBVIOUS
<1>1. InFlight = {c}
  BY DEF OneCommand
<1>2. Cardinality(InFlight) = 1
  BY <1>1, FS_Singleton
<1>3. QED
  BY <1>2

\* Steps other than those of agent_init and of the websocket Loop leave the
\* commands, the flag and the slot channel as they are.
LEMMA CommandFrame ==
  ASSUME [Next]_vars
  PROVE  \/ \E c \in Inits : InitArrives(c) \/ InitStep(c) \/ InitFails(c)
         \/ LinkDrops \/ LoopStep
         \/ UNCHANGED <<init, initialized, bodies, loop, slotChan>>
<1> DEFINE Same == UNCHANGED <<init, initialized, bodies, loop, slotChan>>
<1> USE DEF flagVars, mapVars, slotVars, cmdVars, listenVars, repoVars,
    syncVars, connVars, procVars
<1>1. ASSUME NEW a \in Adds, NEW e \in Envs, AddArrives(a, e) PROVE Same
  BY <1>1 DEF AddArrives
<1>2. ASSUME NEW e \in Envs,
             DeleteArrives(e) \/ DeleteSignals(e) \/ DeleteForgets(e)
      PROVE  Same
  BY <1>2 DEF DeleteArrives, DeleteSignals, DeleteForgets
<1>3. ASSUME NEW l \in Listeners, ListenStep(l) \/ IntervalEnds(l) PROVE Same
  BY <1>3 DEF ListenStep, ListenStarts, ListenStartsInterval, ListenChecks,
     ListenPuts, ListenAcquires, ListenFinishes, IntervalEnds
<1>4. ASSUME NEW w \in Watches,
             \/ RepoAdvances(w) \/ RepoFails(w) \/ RepoStep(w)
             \/ SyncLoopSelects(w) \/ SyncLoopWorks(w) \/ SyncLoopEnds(w)
      PROVE  Same
  BY <1>4 DEF RepoAdvances, RepoFails, RepoStep, RepoRetries, RepoReturns,
     RepoReady, RepoReleases, SyncLoopSelects, SyncLoopWorks, SyncLoopEnds
<1>5. CASE ShutdownBegins \/ WorkerStops \/ ProcessExits
  BY <1>5 DEF ShutdownBegins, WorkerStops, ProcessExits
<1>6. CASE UNCHANGED vars
  BY <1>6 DEF vars
<1>7. QED
  BY <1>1, <1>2, <1>3, <1>4, <1>5, <1>6 DEF Next

\* Every step keeps CommandInv.
LEMMA NextCommandInv ==
  ASSUME MaxInFlight = 1, TypeOK, CommandInv, [Next]_vars
  PROVE  CommandInv'
<1> USE DEF CommandInv, OneCommand, InFlight, BodyInv, ClearInv, BegunInv,
    Begun, NoRepeatedInit, TypeOK, Goes, InitStates, flagVars, connVars
<1>1. ASSUME NEW c \in Inits, InitArrives(c) PROVE CommandInv'
  <2>1. InFlight = {}
    BY <1>1, NoneInFlight DEF InitArrives
  <2>2. QED
    BY <1>1, <2>1 DEF InitArrives
<1>2. ASSUME NEW c \in Inits, InitLocks(c) PROVE CommandInv'
  BY <1>2 DEF InitLocks
<1>3. ASSUME NEW c \in Inits, InitSkips(c) PROVE CommandInv'
  BY <1>3 DEF InitSkips
<1>4. ASSUME NEW c \in Inits, InitBegins(c) PROVE CommandInv'
  <2>1. bodies = 0
    BY <1>4 DEF InitBegins
  <2>2. QED
    BY <1>4, <2>1 DEF InitBegins
<1>5. ASSUME NEW c \in Inits, InitFails(c) PROVE CommandInv'
  BY <1>5 DEF InitFails
<1>6. ASSUME NEW c \in Inits, InitSucceeds(c) PROVE CommandInv'
  BY <1>6 DEF InitSucceeds
<1>7. ASSUME NEW c \in Inits, InitUnlocks(c) PROVE CommandInv'
  BY <1>7 DEF InitUnlocks
<1>8. ASSUME NEW c \in Inits, InitFlags(c) PROVE CommandInv'
  BY <1>8 DEF InitFlags
<1>9. CASE LinkDrops \/ LoopTests
  BY <1>9 DEF LinkDrops, LoopTests, cmdVars
<1>10. ASSUME NEW k \in Keys, LoopCloses(k) PROVE CommandInv'
  BY <1>10 DEF LoopCloses, cmdVars
<1>11. CASE LoopClearsRunning
  BY <1>11 DEF LoopClearsRunning, cmdVars
<1>12. CASE LoopClearsInitialized
  BY <1>12 DEF LoopClearsInitialized, cmdVars
<1>13. CASE LoopReconnects \/ LoopStops
  BY <1>13 DEF LoopReconnects, LoopStops, cmdVars
<1>14. CASE UNCHANGED <<init, initialized, bodies, loop, slotChan>>
  BY <1>14
<1>15. QED
  BY <1>1, <1>2, <1>3, <1>4, <1>5, <1>6, <1>7, <1>8, <1>9, <1>10, <1>11,
     <1>12, <1>13, <1>14, CommandFrame DEF InitStep, LoopStep

\* CommandInv holds as long as agent_init commands come one at a time.
LEMMA SpecCommandInv ==
  ASSUME MaxInFlight = 1
  PROVE  Spec => []CommandInv
<1>1. Init => CommandInv
  BY DEF Init, CommandInv, OneCommand, InFlight, BodyInv, ClearInv, BegunInv,
     NoRepeatedInit
<1>2. TypeOK /\ CommandInv /\ [Next]_vars => CommandInv'
  BY NextCommandInv
<1>3. QED
  BY <1>1, <1>2, LifecycleTypeOK, PTL DEF Spec

\* "Prevents several agent_init commands from initialising repeatedly"
\* (global.go) is true of commands that come one at a time: between two
\* clearings of the flag the body of InitAgent runs once, whatever fails,
\* although the flag is set late and a disconnect may clear it under a command.
THEOREM SpecNoRepeatedInit ==
  ASSUME MaxInFlight = 1
  PROVE  Spec => []NoRepeatedInit
<1>1. CommandInv => NoRepeatedInit
  BY DEF CommandInv
<1>2. QED
  BY <1>1, SpecCommandInv, PTL

-----------------------------------------------------------------------------
\* One generation of watches at a time: commands come one by one and are all
\* agent_init.  Then at most one listener is at work, and the flags tell
\* whether anything is watched.
Active == {l \in Listeners : listener[l] \notin {"none", "done"}}

\* No listener is at work and no key has a stop channel.
Blank == /\ ~gitRunning /\ Active = {}
         /\ \A k \in Keys : stopMap[k] = None

\* An agent_init that finds the flag cleared finds nothing of the generation
\* before.
BlankInv ==
  ~initialized /\ (\A c \in Inits : init[c] \notin {"unlock", "flag"}) => Blank

\* The Loop visits every key it has to, and nobody inserts one meanwhile.
CloseInv ==
  /\ loop = "close" => /\ Active = {}
                       /\ \A k \in Keys : stopMap[k] # None => k \in toClose
  /\ loop = "unflag" => Blank

RunningInv == gitRunning => Active = {}

OneListener == \A l, m \in Active : l = m

\* What a listener has tested is still so when it acts on it.
PlaceInv ==
  \A l \in Listeners :
    /\ listener[l] = "interval" => stopMap[Interval] = None
    /\ listener[l] \in {"put", "slot"} => cur[l] \in Envs
    /\ listener[l] = "put" => stopMap[cur[l]] = None
    /\ listener[l] = "slot" => stopMap[cur[l]] = l

FlagInv == BlankInv /\ CloseInv /\ RunningInv /\ OneListener

WatchInv == PlaceInv /\ NoOrphans /\ LoopUsesItsRepo

GenerationInv == NothingDeleted /\ CommandInv /\ FlagInv /\ WatchInv

\* The only commands are those of agent_init.
LEMMA OnlyInits ==
  ASSUME Adds = {}, Deletes = {}, TypeOK, NothingDeleted
  PROVE  /\ Listeners = Inits
         /\ \A e \in Envs : ~(DeleteArrives(e) \/ DeleteSignals(e) \/ DeleteForgets(e))
  BY DEF Listeners, DeleteArrives, DeleteSignals, DeleteForgets, Goes,
     NothingDeleted

\* What FlagInv and WatchInv speak of is left alone by the mirrors, by the
\* worker and by the process.
watchVars == <<init, initialized, gitRunning, listener, cur, stopMap, closed,
               gitRepos, syncLoop, syncTok, interval, loop, toClose>>

LEMMA WatchFrame ==
  ASSUME Adds = {}, Deletes = {}, TypeOK, NothingDeleted, [Next]_vars
  PROVE  /\ NothingDeleted'
         /\ \/ \E c \in Inits : InitArrives(c) \/ InitStep(c) \/ InitFails(c)
            \/ \E l \in Inits : ListenStep(l) \/ IntervalEnds(l)
            \/ \E w \in Watches : \/ SyncLoopSelects(w) \/ SyncLoopWorks(w)
                                  \/ SyncLoopEnds(w)
            \/ LinkDrops \/ LoopStep
            \/ UNCHANGED watchVars
<1> DEFINE Same == UNCHANGED watchVars /\ UNCHANGED del
<1> USE DEF flagVars, mapVars, slotVars, cmdVars, listenVars, repoVars,
    syncVars, connVars, procVars, watchVars
<1>0. UNCHANGED del => NothingDeleted'
  BY DEF NothingDeleted
<1>1. Listeners = Inits
  BY OnlyInits
<1>2. ASSUME NEW w \in Watches, RepoAdvances(w) \/ RepoFails(w) \/ RepoStep(w)
      PROVE  Same
  BY <1>2 DEF RepoAdvances, RepoFails, RepoStep, RepoRetries, RepoReturns,
     RepoReady, RepoReleases
<1>3. CASE ShutdownBegins \/ WorkerStops \/ ProcessExits
  BY <1>0, <1>3 DEF ShutdownBegins, WorkerStops, ProcessExits
<1>4. CASE UNCHANGED vars
  BY <1>0, <1>4 DEF vars
<1>5. ASSUME NEW c \in Inits, InitArrives(c) \/ InitStep(c) \/ InitFails(c)
      PROVE  UNCHANGED del
  BY <1>5 DEF InitArrives, InitStep, InitFails, InitLocks, InitSkips,
     InitBegins, InitSucceeds, InitUnlocks, InitFlags
<1>6. ASSUME NEW l \in Listeners, ListenStep(l) \/ IntervalEnds(l)
      PROVE  UNCHANGED del
  BY <1>6 DEF ListenStep, ListenStarts, ListenStartsInterval, ListenChecks,
     ListenPuts, ListenAcquires, ListenFinishes, IntervalEnds
<1>7. ASSUME NEW w \in Watches,
             SyncLoopSelects(w) \/ SyncLoopWorks(w) \/ SyncLoopEnds(w)
      PROVE  UNCHANGED del
  BY <1>7 DEF SyncLoopSelects, SyncLoopWorks, SyncLoopEnds
<1>8. CASE LinkDrops \/ LoopStep
  BY <1>0, <1>8 DEF LinkDrops, LoopStep, LoopTests, LoopCloses,
     LoopClearsRunning, LoopClearsInitialized, LoopReconnects, LoopStops
<1>9. QED
  BY <1>0, <1>1, <1>2, <1>3, <1>4, <1>5, <1>6, <1>7, <1>8, OnlyInits DEF Next

\* The steps of agent_init keep FlagInv.
LEMMA InitFlagInv ==
  ASSUME TypeOK, CommandInv, FlagInv, Listeners = Inits,
         NEW c \in Inits, InitArrives(c) \/ InitStep(c) \/ InitFails(c)
  PROVE  FlagInv'
<1> USE DEF FlagInv, BlankInv, CloseInv, RunningInv, OneListener, Blank,
    Active, CommandInv, OneCommand, InFlight, BodyInv, ClearInv, TypeOK, Goes,
    InitStates, ListenStates, flagVars, mapVars, slotVars, cmdVars,
    listenVars, connVars
<1>1. CASE \/ InitArrives(c) \/ InitLocks(c) \/ InitSkips(c) \/ InitBegins(c)
           \/ InitFails(c) \/ InitUnlocks(c)
  <2>1. /\ UNCHANGED <<initialized, gitRunning, listener, stopMap, loop, toClose>>
        /\ init'[c] \notin {"unlock", "flag"} => init[c] \notin {"unlock", "flag"}
        /\ \A d \in Inits : d # c => init'[d] = init[d]
    BY <1>1 DEF InitArrives, InitLocks, InitSkips, InitBegins, InitFails,
       InitUnlocks
  <2>2. QED
    BY <2>1
<1>2. CASE InitSucceeds(c)
  <2>1. ~initialized /\ \A d \in Inits : init[d] \notin {"unlock", "flag"}
    BY <1>2 DEF InitSucceeds
  <2>2. Blank /\ loop \notin {"close", "unflag"}
    BY <2>1
  <2>3. Active' = {c}
    BY <1>2, <2>2 DEF InitSucceeds
  <2>4. init'[c] = "unlock"
    BY <1>2 DEF InitSucceeds
  <2>5. UNCHANGED <<gitRunning, loop>>
    BY <1>2 DEF InitSucceeds
  <2>6. BlankInv'
    BY <2>4
  <2>7. CloseInv' /\ RunningInv' /\ OneListener'
    BY <2>2, <2>3, <2>5
  <2>8. QED
    BY <2>6, <2>7
<1>3. CASE InitFlags(c)
  BY <1>3 DEF InitFlags
<1>4. QED
  BY <1>1, <1>2, <1>3 DEF InitStep

\* The steps of the listener keep FlagInv: while one is at work the flag
\* GitRunning is not set, an agent_init has not begun and the Loop stays out.
LEMMA ListenFlagInv ==
  ASSUME TypeOK, FlagInv, Listeners = Inits,
         NEW l \in Inits, ListenStep(l)
  PROVE  FlagInv'
<1> USE DEF FlagInv, BlankInv, CloseInv, RunningInv, OneListener, Blank,
    Active, TypeOK, Goes, ListenStates, flagVars, mapVars, slotVars, cmdVars,
    listenVars, connVars
<1>1. listener[l] \notin {"none", "done"}
  BY DEF ListenStep, ListenStarts, ListenStartsInterval, ListenChecks,
     ListenPuts, ListenAcquires, ListenFinishes
<1>2. /\ Active = {l} /\ ~gitRunning /\ loop \notin {"close", "unflag"}
      /\ ~(~initialized /\ \A c \in Inits : init[c] \notin {"unlock", "flag"})
  BY <1>1
<1>3. UNCHANGED <<init, initialized, loop>>
  BY DEF ListenStep, ListenStarts, ListenStartsInterval, ListenChecks,
     ListenPuts, ListenAcquires, ListenFinishes
<1>4. BlankInv' /\ CloseInv'
  BY <1>2, <1>3
<1>5. \A m \in Inits : m # l => listener'[m] = listener[m]
  BY DEF ListenStep, ListenStarts, ListenStartsInterval, ListenChecks,
     ListenPuts, ListenAcquires, ListenFinishes
<1>6. Active' \subseteq {l}
  BY <1>2, <1>5
<1>7. gitRunning' => Active' = {}
  <2>1. CASE ListenFinishes(l)
    BY <1>6, <2>1 DEF ListenFinishes
  <2>2. CASE ~ListenFinishes(l)
    BY <1>2, <2>2 DEF ListenStep, ListenStarts, ListenStartsInterval,
       ListenChecks, ListenPuts, ListenAcquires
  <2>3. QED
    BY <2>1, <2>2
<1>8. QED
  BY <1>4, <1>6, <1>7

\* The steps of the Loop keep FlagInv.
LEMMA LoopFlagInv ==
  ASSUME TypeOK, CommandInv, FlagInv, Listeners = Inits,
         LinkDrops \/ LoopStep
  PROVE  FlagInv'
<1> USE DEF FlagInv, BlankInv, CloseInv, RunningInv, OneListener, Blank,
    Active, CommandInv, ClearInv, TypeOK, flagVars, mapVars, slotVars, cmdVars,
    listenVars, connVars
<1>1. CASE LinkDrops \/ LoopReconnects \/ LoopStops
  BY <1>1 DEF LinkDrops, LoopReconnects, LoopStops
<1>2. CASE LoopTests
  BY <1>2 DEF LoopTests
<1>3. ASSUME NEW k \in Keys, LoopCloses(k) PROVE FlagInv'
  BY <1>3 DEF LoopCloses
<1>4. CASE LoopClearsRunning
  BY <1>4 DEF LoopClearsRunning
<1>5. CASE LoopClearsInitialized
  BY <1>5 DEF LoopClearsInitialized
<1>6. QED
  BY <1>1, <1>2, <1>3, <1>4, <1>5 DEF LoopStep

\* The steps of agent_init and of the Loop keep WatchInv: the Loop closes what
\* it removes, and never while a listener is at work.
LEMMA CommandWatchInv ==
  ASSUME TypeOK, FlagInv, WatchInv, Listeners = Inits,
         \/ \E c \in Inits : InitArrives(c) \/ InitStep(c) \/ InitFails(c)
         \/ LinkDrops \/ LoopStep
  PROVE  WatchInv'
<1> USE DEF WatchInv, PlaceInv, NoOrphans, LoopUsesItsRepo, LiveLoops, TypeOK,
    Goes, flagVars, mapVars, slotVars, cmdVars, listenVars, syncVars, connVars
<1> DEFINE kept == <<cur, stopMap, closed, gitRepos, syncLoop, syncTok, interval>>
<1>1. ASSUME UNCHANGED kept, UNCHANGED listener PROVE WatchInv'
  BY <1>1
<1>2. ASSUME NEW c \in Inits, InitSucceeds(c) PROVE WatchInv'
  <2>1. /\ UNCHANGED kept
        /\ \A l \in Listeners : listener'[l] \in {listener[l], "start"}
    BY <1>2 DEF InitSucceeds
  <2>2. QED
    BY <2>1
<1>3. ASSUME NEW k \in Keys, LoopCloses(k) PROVE WatchInv'
  <2>1. \A l \in Listeners : listener[l] \in {"none", "done"}
    BY <1>3 DEF LoopCloses, FlagInv, CloseInv, Active
  <2>2. PlaceInv'
    BY <1>3, <2>1 DEF LoopCloses
  <2>3. NoOrphans' /\ LoopUsesItsRepo'
    BY <1>3 DEF LoopCloses, Watches
  <2>4. QED
    BY <2>2, <2>3
<1>4. ASSUME NEW c \in Inits,
             \/ InitArrives(c) \/ InitLocks(c) \/ InitSkips(c) \/ InitBegins(c)
             \/ InitFails(c) \/ InitUnlocks(c) \/ InitFlags(c)
      PROVE  WatchInv'
  BY <1>1, <1>4 DEF InitArrives, InitLocks, InitSkips, InitBegins, InitFails,
     InitUnlocks, InitFlags
<1>5. CASE \/ LinkDrops \/ LoopTests \/ LoopClearsRunning
           \/ LoopClearsInitialized \/ LoopReconnects \/ LoopStops
  BY <1>1, <1>5 DEF LinkDrops, LoopTests, LoopClearsRunning,
     LoopClearsInitialized, LoopReconnects, LoopStops
<1>6. QED
  BY <1>2, <1>3, <1>4, <1>5 DEF InitStep, LoopStep

\* The steps of the listener keep WatchInv: it inserts a key only where there
\* is none, and its channel is still there when the slot is granted.
LEMMA ListenWatchInv ==
  ASSUME TypeOK, FlagInv, WatchInv, Listeners = Inits,
         NEW l \in Inits, ListenStep(l)
  PROVE  WatchInv'
<1> USE LifecycleAssumption DEF LifecycleAssumption, WatchInv, PlaceInv,
    NoOrphans, LoopUsesItsRepo, LiveLoops, TypeOK, Goes, ListenStates,
    flagVars, mapVars, slotVars, cmdVars, listenVars, syncVars, connVars
<1>1. \A m \in Listeners : m # l => listener[m] \in {"none", "done"}
  <2>1. l \in Active
    BY DEF Active, ListenStep, ListenStarts, ListenStartsInterval,
       ListenChecks, ListenPuts, ListenAcquires, ListenFinishes
  <2>2. QED
    BY <2>1 DEF FlagInv, OneListener, Active
<1>2. Envs \subseteq Keys /\ Interval \in Keys
  BY DEF Keys
<1>3. CASE ListenStarts(l)
  BY <1>1, <1>3 DEF ListenStarts
<1>4. CASE ListenStartsInterval(l)
  <2>1. PlaceInv'
    BY <1>1, <1>2, <1>4 DEF ListenStartsInterval
  <2>2. \A w \in Watches : w[1] \in Envs
    BY DEF Watches
  <2>3. NoOrphans' /\ LoopUsesItsRepo'
    BY <1>2, <1>4, <2>2 DEF ListenStartsInterval
  <2>4. QED
    BY <2>1, <2>3
<1>5. ASSUME NEW e \in Envs, ListenChecks(l, e) PROVE WatchInv'
  <2>1. PlaceInv'
    BY <1>1, <1>5 DEF ListenChecks
  <2>2. NoOrphans' /\ LoopUsesItsRepo'
    BY <1>5 DEF ListenChecks
  <2>3. QED
    BY <2>1, <2>2
<1>6. CASE ListenPuts(l)
  <2>1. /\ cur[l] \in Envs /\ stopMap[cur[l]] = None
        /\ \A k \in Keys : stopMap'[k] = IF k = cur[l] THEN l ELSE stopMap[k]
        /\ UNCHANGED <<cur, closed, gitRepos, syncLoop, syncTok, interval>>
    BY <1>2, <1>6 DEF ListenPuts
  <2>2. PlaceInv'
    BY <1>1, <1>2, <1>6, <2>1 DEF ListenPuts
  <2>3. \A w \in Watches : w[1] \in Keys /\ w[2] \in Listeners
    BY <1>2 DEF Watches
  <2>4. NoOrphans'
    BY <1>2, <2>1, <2>3
  <2>5. LoopUsesItsRepo'
    BY <2>1
  <2>6. QED
    BY <2>2, <2>4, <2>5
<1>7. CASE ListenAcquires(l)
  <2>1. /\ cur[l] \in Envs /\ stopMap[cur[l]] = l
        /\ UNCHANGED <<stopMap, closed, syncTok, interval>>
        /\ \A e \in Envs : gitRepos'[e] = IF e = cur[l] THEN l ELSE gitRepos[e]
        /\ \A w \in Watches : w # <<cur[l], l>> => syncLoop'[w] = syncLoop[w]
    BY <1>7 DEF ListenAcquires
  <2>2. PlaceInv'
    BY <1>1, <1>7 DEF ListenAcquires
  <2>3. \A w \in Watches : w[1] \in Envs /\ w = <<w[1], w[2]>>
    BY DEF Watches
  <2>4. ASSUME NEW w \in LiveLoops', w \notin closed', w \notin syncTok'
        PROVE  stopMap'[w[1]] = w[2] /\ gitRepos'[w[1]] = w[2]
    <3>1. CASE w = <<cur[l], l>>
      BY <2>1, <2>3, <3>1
    <3>2. CASE w # <<cur[l], l>>
      BY <2>1, <2>3, <2>4, <3>2
    <3>3. QED
      BY <3>1, <3>2
  <2>5. NoOrphans' /\ LoopUsesItsRepo'
    BY <2>1, <2>4
  <2>6. QED
    BY <2>2, <2>5
<1>8. CASE ListenFinishes(l)
  BY <1>8 DEF ListenFinishes
<1>9. QED
  BY <1>3, <1>4, <1>5, <1>6, <1>7, <1>8 DEF ListenStep

\* So do those of the goroutines it started.
LEMMA SyncWatchInv ==
  ASSUME TypeOK, WatchInv,
         \/ \E w \in Watches : \/ SyncLoopSelects(w) \/ SyncLoopWorks(w)
                               \/ SyncLoopEnds(w)
         \/ \E l \in Listeners : IntervalEnds(l)
  PROVE  WatchInv'
<1> USE DEF WatchInv, PlaceInv, NoOrphans, LoopUsesItsRepo, LiveLoops, TypeOK,
    Goes, flagVars, mapVars, slotVars, cmdVars, listenVars, syncVars, connVars
<1>1. ASSUME NEW w \in Watches, SyncLoopSelects(w) \/ SyncLoopWorks(w)
      PROVE  WatchInv'
  BY <1>1 DEF SyncLoopSelects, SyncLoopWorks
<1>2. ASSUME NEW w \in Watches, SyncLoopEnds(w) PROVE WatchInv'
  BY <1>2 DEF SyncLoopEnds
<1>3. ASSUME NEW l \in Listeners, IntervalEnds(l) PROVE WatchInv'
  BY <1>3 DEF IntervalEnds
<1>4. QED
  BY <1>1, <1>2, <1>3

\* GenerationInv is inductive.
LEMMA NextGenerationInv ==
  ASSUME Adds = {}, Deletes = {}, MaxInFlight = 1,
         TypeOK, GenerationInv, [Next]_vars
  PROVE  GenerationInv'
<1> USE DEF GenerationInv
<1>1. Listeners = Inits
  BY OnlyInits
<1>2. NothingDeleted' /\ CommandInv'
  BY WatchFrame, NextCommandInv
<1>3. ASSUME NEW c \in Inits, InitArrives(c) \/ InitStep(c) \/ InitFails(c)
      PROVE  FlagInv' /\ WatchInv'
  BY <1>1, <1>3, InitFlagInv, CommandWatchInv
<1>4. ASSUME NEW l \in Inits, ListenStep(l) PROVE FlagInv' /\ WatchInv'
  BY <1>1, <1>4, ListenFlagInv, ListenWatchInv
<1>5. CASE LinkDrops \/ LoopStep
  BY <1>1, <1>2, <1>5, LoopFlagInv, CommandWatchInv
<1>6. CASE \/ \E w \in Watches : \/ SyncLoopSelects(w) \/ SyncLoopWorks(w)
                                 \/ SyncLoopEnds(w)
           \/ \E l \in Inits : IntervalEnds(l)
  <2>1. UNCHANGED <<init, initialized, gitRunning, listener, stopMap, loop, toClose>>
    BY <1>6 DEF SyncLoopSelects, SyncLoopWorks, SyncLoopEnds, IntervalEnds,
       flagVars, mapVars, cmdVars, listenVars, connVars
  <2>2. FlagInv'
    BY <2>1 DEF FlagInv, BlankInv, CloseInv, RunningInv, OneListener, Blank,
       Active
  <2>3. QED
    BY <1>1, <1>2, <1>6, <2>2, SyncWatchInv
<1>7. CASE UNCHANGED watchVars
  BY <1>2, <1>7 DEF watchVars, FlagInv, BlankInv, CloseInv, RunningInv, OneListener,
     Blank, Active, WatchInv, PlaceInv, NoOrphans, LoopUsesItsRepo, LiveLoops
<1>8. QED
  BY <1>2, <1>3, <1>4, <1>5, <1>6, <1>7, WatchFrame

\* It holds in every reachable state.
LEMMA SpecGenerationInv ==
  ASSUME Adds = {}, Deletes = {}, MaxInFlight = 1
  PROVE  Spec => []GenerationInv
<1>1. Init => GenerationInv
  BY DEF Init, GenerationInv, NothingDeleted, CommandInv, OneCommand, InFlight,
     BodyInv, ClearInv, BegunInv, NoRepeatedInit, FlagInv, BlankInv, CloseInv,
     RunningInv, OneListener, Blank, Active, WatchInv, PlaceInv, NoOrphans,
     LoopUsesItsRepo, LiveLoops
<1>2. TypeOK /\ GenerationInv /\ [Next]_vars => GenerationInv'
  BY NextGenerationInv
<1>3. QED
  BY <1>1, <1>2, LifecycleTypeOK, PTL DEF Spec

\* Through any number of disconnects, failures and agent_init commands, one at
\* a time, no goroutine that watches an environment escapes its stop channel,
\* and none is watched twice, for any number of environments and slots.
THEOREM SpecNoOrphans ==
  ASSUME Adds = {}, Deletes = {}, MaxInFlight = 1
  PROVE  Spec => []NoOrphans
<1>1. GenerationInv => NoOrphans
  BY DEF GenerationInv, WatchInv
<1>2. QED
  BY <1>1, SpecGenerationInv, PTL

-----------------------------------------------------------------------------
\* One connection: the slot channel of the first agent_init that begins stays,
\* everybody sends to it and receives from it, and it holds a token for every
\* Repo.Start at work.
StaysUp == drops = 0 /\ loop \in {"up", "stopped"}

ChannelInv == slotChan # None => initialized \/ Begun

OneChannel ==
  /\ \A l \in Listeners : waits[l] \in {None, slotChan}
  /\ \A w \in Watches : repo[w] = "release" => releaseOn[w] = slotChan

TokenInv ==
  /\ IsFiniteSet(LiveRepos)
  /\ slotChan = None => LiveRepos = {}
  /\ slotChan # None => Cardinality(LiveRepos) <= tokens[slotChan]

SlotInv == ChannelInv /\ OneChannel /\ TokenInv

\* Without a lost connection the Loop does not leave its select.
LEMMA NextStaysUp ==
  ASSUME MaxDrops = 0, StaysUp, [Next]_vars
  PROVE  StaysUp' /\ ~LoopClearsInitialized
<1> USE DEF StaysUp, flagVars, mapVars, slotVars, cmdVars, listenVars,
    repoVars, syncVars, connVars, procVars
<1>1. ASSUME NEW c \in Inits, InitArrives(c) \/ InitStep(c) \/ InitFails(c)
      PROVE  UNCHANGED connVars
  BY <1>1 DEF InitArrives, InitStep, InitFails, InitLocks, InitSkips,
     InitBegins, InitSucceeds, InitUnlocks, InitFlags
<1>2. ASSUME NEW e \in Envs, \/ \E a \in Adds : AddArrives(a, e)
                             \/ DeleteArrives(e) \/ DeleteSignals(e)
                             \/ DeleteForgets(e)
      PROVE  UNCHANGED connVars
  BY <1>2 DEF AddArrives, DeleteArrives, DeleteSignals, DeleteForgets
<1>3. ASSUME NEW l \in Listeners, ListenStep(l) \/ IntervalEnds(l)
      PROVE  UNCHANGED connVars
  BY <1>3 DEF ListenStep, ListenStarts, ListenStartsInterval, ListenChecks,
     ListenPuts, ListenAcquires, ListenFinishes, IntervalEnds
<1>4. ASSUME NEW w \in Watches,
             \/ RepoAdvances(w) \/ RepoFails(w) \/ RepoStep(w)
             \/ SyncLoopSelects(w) \/ SyncLoopWorks(w) \/ SyncLoopEnds(w)
      PROVE  UNCHANGED connVars
  BY <1>4 DEF RepoAdvances, RepoFails, RepoStep, RepoRetries, RepoReturns,
     RepoReady, RepoReleases, SyncLoopSelects, SyncLoopWorks, SyncLoopEnds
<1>5. ASSUME ShutdownBegins \/ WorkerStops \/ ProcessExits \/ UNCHANGED vars
      PROVE  UNCHANGED connVars
  BY <1>5 DEF ShutdownBegins, WorkerStops, ProcessExits, vars
<1>6. LinkDrops \/ LoopStep => LoopStops
  BY DEF LinkDrops, LoopStep, LoopTests, LoopCloses, LoopClearsRunning,
     LoopClearsInitialized, LoopReconnects
<1>7. LoopStops => StaysUp'
  BY DEF LoopStops
<1>8. ~LoopClearsInitialized
  BY DEF LoopClearsInitialized
<1>9. UNCHANGED connVars => StaysUp'
  OBVIOUS
<1>10. QED
  BY <1>1, <1>2, <1>3, <1>4, <1>5, <1>6, <1>7, <1>8, <1>9 DEF Next

\* Only agent_init changes what ChannelInv speaks of, and the flag stays set.
LEMMA NextChannelInv ==
  ASSUME TypeOK, CommandInv, StaysUp, ChannelInv, [Next]_vars
  PROVE  ChannelInv'
<1> USE DEF ChannelInv, Begun, CommandInv, OneCommand, InFlight, StaysUp,
    TypeOK, Goes, InitStates, flagVars, slotVars, cmdVars, connVars
<1>1. ASSUME NEW c \in Inits, InitArrives(c) \/ InitLocks(c) \/ InitSkips(c)
      PROVE  ChannelInv'
  BY <1>1 DEF InitArrives, InitLocks, InitSkips
<1>2. ASSUME NEW c \in Inits, InitBegins(c) \/ InitFails(c) PROVE ChannelInv'
  BY <1>2 DEF InitBegins, InitFails
<1>3. ASSUME NEW c \in Inits, InitSucceeds(c) \/ InitUnlocks(c)
      PROVE  ChannelInv'
  BY <1>3 DEF InitSucceeds, InitUnlocks
<1>4. ASSUME NEW c \in Inits, InitFlags(c) PROVE ChannelInv'
  BY <1>4 DEF InitFlags
<1>5. CASE LinkDrops \/ LoopStep
  BY <1>5 DEF LinkDrops, LoopStep, LoopTests, LoopCloses,
     LoopClearsRunning, LoopClearsInitialized, LoopReconnects, LoopStops
<1>6. CASE UNCHANGED <<init, initialized, bodies, loop, slotChan>>
  BY <1>6
<1>7. QED
  BY <1>1, <1>2, <1>3, <1>4, <1>5, <1>6, CommandFrame DEF InitStep

\* A Repo.Start that ends gives back its token, or keeps it for ever.
LEMMA RepoEndTokens ==
  ASSUME TypeOK, SlotInv, NEW w \in Watches, RepoReturns(w) \/ RepoReleases(w)
  PROVE  TokenInv'
<1> USE DEF SlotInv, TokenInv, OneChannel, TypeOK, Goes, RepoStates, slotVars
<1>1. /\ w \in LiveRepos /\ LiveRepos' = LiveRepos \ {w}
      /\ slotChan # None /\ slotChan \in Inits /\ UNCHANGED slotChan
  BY DEF RepoReturns, RepoReleases, LiveRepos
<1>2. /\ IsFiniteSet(LiveRepos')
      /\ Cardinality(LiveRepos') = Cardinality(LiveRepos) - 1
      /\ Cardinality(LiveRepos) \in Nat
  <2>1. IsFiniteSet(LiveRepos)
    OBVIOUS
  <2>2. /\ IsFiniteSet(LiveRepos \ {w})
        /\ Cardinality(LiveRepos \ {w}) = Cardinality(LiveRepos) - 1
    BY <1>1, <2>1, FS_RemoveElement
  <2>3. QED
    BY <1>1, <2>1, <2>2, FS_CardinalityType
<1>3. tokens'[slotChan] \in {tokens[slotChan], tokens[slotChan] - 1}
  BY <1>1 DEF RepoReturns, RepoReleases
<1>4. tokens[slotChan] \in Nat
  BY <1>1
<1>5. Cardinality(LiveRepos') <= tokens'[slotChan]
  BY <1>1, <1>2, <1>3, <1>4
<1>6. QED
  BY <1>1, <1>2, <1>5

\* A Repo.Start begins with a token of its own in the channel.
LEMMA AcquireTokens ==
  ASSUME TypeOK, SlotInv, NEW l \in Listeners, ListenAcquires(l)
  PROVE  TokenInv'
<1> USE DEF SlotInv, TokenInv, OneChannel, TypeOK, Goes
<1>1. /\ slotChan # None /\ slotChan \in Inits /\ UNCHANGED slotChan
      /\ tokens[slotChan] \in Nat /\ tokens'[slotChan] = tokens[slotChan] + 1
  BY DEF ListenAcquires
<1>2. LiveRepos' \in {LiveRepos, LiveRepos \cup {<<cur[l], l>>}}
  BY DEF ListenAcquires, LiveRepos
<1>3. /\ IsFiniteSet(LiveRepos \cup {<<cur[l], l>>})
      /\ Cardinality(LiveRepos \cup {<<cur[l], l>>})
           \in {Cardinality(LiveRepos), Cardinality(LiveRepos) + 1}
      /\ Cardinality(LiveRepos) \in Nat
  BY FS_AddElement, FS_CardinalityType
<1>4. /\ IsFiniteSet(LiveRepos')
      /\ Cardinality(LiveRepos')
           \in {Cardinality(LiveRepos), Cardinality(LiveRepos) + 1}
  BY <1>2, <1>3
<1>5. Cardinality(LiveRepos') <= tokens'[slotChan]
  BY <1>1, <1>3, <1>4
<1>6. QED
  BY <1>1, <1>4, <1>5

\* Every step keeps the account of the slots.
LEMMA NextSlotInv ==
  ASSUME MaxInFlight = 1, MaxDrops = 0, TypeOK, CommandInv, StaysUp, SlotInv,
         [Next]_vars
  PROVE  SlotInv'
<1> USE DEF flagVars, mapVars, slotVars, cmdVars, listenVars, repoVars,
    syncVars, connVars, procVars
<1>1. ChannelInv'
  BY NextChannelInv DEF SlotInv
<1>2. ASSUME NEW c \in Inits, InitBegins(c) PROVE SlotInv'
  <2>1. slotChan = None
    BY <1>2 DEF InitBegins, Goes, SlotInv, ChannelInv, Begun, CommandInv,
       OneCommand, InFlight
  <2>2. c # None /\ slotChan' = c /\ UNCHANGED <<waits, repo, releaseOn, tokens>>
    BY <1>2, LifecycleAssumption
       DEF InitBegins, LifecycleAssumption, Listeners
  <2>3. LiveRepos = {} /\ LiveRepos' = {}
    BY <2>1, <2>2 DEF SlotInv, TokenInv, LiveRepos
  <2>4. OneChannel'
    BY <2>1, <2>2, <2>3 DEF SlotInv, OneChannel, LiveRepos
  <2>5. IsFiniteSet({}) /\ Cardinality({}) = 0
    BY FS_EmptySet
  <2>6. TokenInv'
    BY <2>2, <2>3, <2>5 DEF TokenInv, TypeOK
  <2>7. QED
    BY <1>1, <2>4, <2>6 DEF SlotInv
<1>3. ASSUME NEW l \in Listeners, ListenPuts(l) PROVE SlotInv'
  <2>1. UNCHANGED <<slotChan, tokens, repo, releaseOn>>
        /\ \A m \in Listeners : waits'[m] \in {waits[m], slotChan}
    BY <1>3 DEF ListenPuts, TypeOK
  <2>2. QED
    BY <1>1, <2>1 DEF SlotInv, OneChannel, TokenInv, LiveRepos
<1>4. ASSUME NEW l \in Listeners, ListenAcquires(l) PROVE SlotInv'
  <2>1. OneChannel'
    BY <1>4 DEF ListenAcquires, SlotInv, OneChannel, TypeOK
  <2>2. QED
    BY <1>1, <1>4, <2>1, AcquireTokens DEF SlotInv
<1>5. ASSUME NEW w \in Watches,
             RepoAdvances(w) \/ RepoFails(w) \/ RepoRetries(w) \/ RepoReady(w)
      PROVE  SlotInv'
  <2>1. LiveRepos' = LiveRepos /\ UNCHANGED <<slotChan, tokens>>
    BY <1>5 DEF RepoAdvances, RepoFails, RepoRetries, RepoReady, Goes,
       LiveRepos, TypeOK
  <2>2. OneChannel'
    BY <1>5 DEF RepoAdvances, RepoFails, RepoRetries, RepoReady, Goes,
       SlotInv, OneChannel, TypeOK
  <2>3. QED
    BY <1>1, <2>1, <2>2 DEF SlotInv, TokenInv
<1>6. ASSUME NEW w \in Watches, RepoReturns(w) \/ RepoReleases(w)
      PROVE  SlotInv'
  <2>1. OneChannel'
    BY <1>6 DEF RepoReturns, RepoReleases, Goes, SlotInv, OneChannel, TypeOK
  <2>2. QED
    BY <1>1, <1>6, <2>1, RepoEndTokens DEF SlotInv
<1>7. ASSUME UNCHANGED <<slotChan, tokens, waits, repo, releaseOn>>
      PROVE  SlotInv'
  BY <1>1, <1>7 DEF SlotInv, OneChannel, TokenInv, LiveRepos
<1>8. ASSUME NEW c \in Inits,
             \/ InitArrives(c) \/ InitLocks(c) \/ InitSkips(c) \/ InitFails(c)
             \/ InitSucceeds(c) \/ InitUnlocks(c) \/ InitFlags(c)
      PROVE  SlotInv'
  BY <1>7, <1>8 DEF InitArrives, InitLocks, InitSkips, InitFails,
     InitSucceeds, InitUnlocks, InitFlags
<1>9. ASSUME NEW e \in Envs, \/ \E a \in Adds : AddArrives(a, e)
                             \/ DeleteArrives(e) \/ DeleteSignals(e)
                             \/ DeleteForgets(e)
      PROVE  SlotInv'
  BY <1>7, <1>9 DEF AddArrives, DeleteArrives, DeleteSignals, DeleteForgets
<1>10. ASSUME NEW l \in Listeners,
              \/ ListenStarts(l) \/ ListenStartsInterval(l)
              \/ \E e \in Envs : ListenChecks(l, e)
              \/ ListenFinishes(l) \/ IntervalEnds(l)
       PROVE  SlotInv'
  BY <1>7, <1>10 DEF ListenStarts, ListenStartsInterval, ListenChecks,
     ListenFinishes, IntervalEnds
<1>11. ASSUME NEW w \in Watches,
              SyncLoopSelects(w) \/ SyncLoopWorks(w) \/ SyncLoopEnds(w)
       PROVE  SlotInv'
  BY <1>7, <1>11 DEF SyncLoopSelects, SyncLoopWorks, SyncLoopEnds
<1>12. CASE LinkDrops \/ LoopStep
  BY <1>7, <1>12 DEF LinkDrops, LoopStep, LoopTests, LoopCloses,
     LoopClearsRunning, LoopClearsInitialized, LoopReconnects, LoopStops
<1>13. CASE ShutdownBegins \/ WorkerStops \/ ProcessExits \/ UNCHANGED vars
  BY <1>7, <1>13 DEF ShutdownBegins, WorkerStops, ProcessExits, vars
<1>14. QED
  BY <1>2, <1>3, <1>4, <1>5, <1>6, <1>8, <1>9, <1>10, <1>11, <1>12, <1>13
     DEF Next, InitStep, ListenStep, RepoStep

\* The slot channel bounds the Repo.Start goroutines at work as global.go says,
\* whatever is added, deleted, broken or shut down, as long as the connection
\* stays and agent_init commands come one at a time.  (After a disconnect the
\* next generation has a channel of its own.)
THEOREM SpecInitConcurrencyBounded ==
  ASSUME MaxDrops = 0, MaxInFlight = 1
  PROVE  Spec => []InitConcurrencyBounded
<1>1. Init => StaysUp /\ SlotInv
  <2>1. IsFiniteSet({}) /\ Cardinality({}) = 0
    BY FS_EmptySet
  <2>2. Init => LiveRepos = {}
    BY DEF Init, LiveRepos
  <2>3. QED
    BY <2>1, <2>2 DEF Init, StaysUp, SlotInv, ChannelInv, OneChannel, TokenInv
<1>2. TypeOK /\ CommandInv /\ StaysUp /\ SlotInv /\ [Next]_vars
        => StaysUp' /\ SlotInv'
  BY NextStaysUp, NextSlotInv
<1>3. TypeOK /\ SlotInv => InitConcurrencyBounded
  <2> SUFFICES ASSUME TypeOK, SlotInv PROVE Cardinality(LiveRepos) <= SlotSize
    BY DEF InitConcurrencyBounded
  <2>1. CASE slotChan = None
    <3>1. Cardinality(LiveRepos) = 0
      BY <2>1, FS_EmptySet DEF SlotInv, TokenInv
    <3>2. QED
      BY <3>1, LifecycleAssumption DEF LifecycleAssumption
  <2>2. CASE slotChan # None
    <3>1. tokens[slotChan] \in 0 .. SlotSize
      BY <2>2 DEF TypeOK
    <3>2. Cardinality(LiveRepos) \in Nat
      BY FS_CardinalityType DEF SlotInv, TokenInv
    <3>3. QED
      BY <2>2, <3>1, <3>2, LifecycleAssumption
         DEF LifecycleAssumption, SlotInv, TokenInv
  <2>3. QED
    BY <2>1, <2>2
<1>4. QED
  BY <1>1, <1>2, <1>3, LifecycleTypeOK, SpecCommandInv, PTL DEF Spec
-----------------------------------------------------------------------------
\* What holds of a listener whatever the commands, the connection and the
\* failures.  Before it starts nothing is its own ...
UnstartedInv ==
  /\ \A c \in Inits :
       init[c] \in {"idle", "lock", "check", "body"} => listener[c] = "none"
  /\ \A l \in Listeners : listener[l] = "none" =>
       /\ \A e \in Envs : syncLoop[<<e, l>>] = "none" /\ gitRepos[e] # l
       /\ \A k \in Keys : stopMap[k] # l

\* ... and it visits an environment once: one it has a loop for is neither
\* before it nor the one it is at.
At(l, e) == listener[l] \in {"put", "slot"} /\ cur[l] = e

VisitInv ==
  \A l \in Listeners :
    /\ listener[l] \in {"put", "slot"} => cur[l] \in Envs \ todo[l]
    /\ \A e \in Envs : syncLoop[<<e, l>>] # "none" => e \notin todo[l] /\ ~At(l, e)

\* A mirror in the map, or one that was signalled, has had its loop started.
LoopStartedInv ==
  /\ \A e \in Envs : gitRepos[e] # None => syncLoop[<<e, gitRepos[e]>>] # "none"
  /\ \A w \in syncTok : syncLoop[w] # "none"

FreshInv == UnstartedInv /\ VisitInv /\ LoopStartedInv

freshVars == <<init, listener, todo, cur, syncLoop, syncTok, gitRepos, stopMap>>

\* Only these steps change what FreshInv speaks of.
LEMMA FreshFrame ==
  ASSUME [Next]_vars
  PROVE  \/ \E c \in Inits : InitArrives(c) \/ InitStep(c) \/ InitFails(c)
         \/ \E a \in Adds, e \in Envs : AddArrives(a, e)
         \/ \E e \in Envs : DeleteSignals(e) \/ DeleteForgets(e)
         \/ \E l \in Listeners : ListenStep(l)
         \/ \E w \in Watches : \/ SyncLoopSelects(w) \/ SyncLoopWorks(w)
                               \/ SyncLoopEnds(w)
         \/ \E k \in Keys : LoopCloses(k)
         \/ UNCHANGED freshVars
<1> USE DEF freshVars, flagVars, mapVars, slotVars, cmdVars, listenVars,
    repoVars, syncVars, connVars, procVars
<1>1. ASSUME NEW w \in Watches, RepoAdvances(w) \/ RepoFails(w) \/ RepoStep(w)
      PROVE  UNCHANGED freshVars
  BY <1>1 DEF RepoAdvances, RepoFails, RepoStep, RepoRetries, RepoReturns,
     RepoReady, RepoReleases
<1>2. ASSUME NEW l \in Listeners, IntervalEnds(l) PROVE UNCHANGED freshVars
  BY <1>2 DEF IntervalEnds
<1>3. ASSUME NEW e \in Envs, DeleteArrives(e) PROVE UNCHANGED freshVars
  BY <1>3 DEF DeleteArrives
<1>4. CASE \/ LinkDrops \/ LoopTests \/ LoopClearsRunning
           \/ LoopClearsInitialized \/ LoopReconnects \/ LoopStops
  BY <1>4 DEF LinkDrops, LoopTests, LoopClearsRunning, LoopClearsInitialized,
     LoopReconnects, LoopStops
<1>5. CASE ShutdownBegins \/ WorkerStops \/ ProcessExits \/ UNCHANGED vars
  BY <1>5 DEF ShutdownBegins, WorkerStops, ProcessExits, vars
<1>6. QED
  BY <1>1, <1>2, <1>3, <1>4, <1>5 DEF Next, LoopStep

\* The steps of the commands keep FreshInv.
LEMMA CommandFreshInv ==
  ASSUME TypeOK, FreshInv,
         \/ \E c \in Inits : InitArrives(c) \/ InitStep(c) \/ InitFails(c)
         \/ \E a \in Adds, e \in Envs : AddArrives(a, e)
         \/ \E e \in Envs : DeleteSignals(e) \/ DeleteForgets(e)
  PROVE  FreshInv'
<1> USE LifecycleAssumption DEF LifecycleAssumption, FreshInv, UnstartedInv,
    VisitInv, At, LoopStartedInv, TypeOK, Goes, InitStates, Listeners, Keys, Watches,
    flagVars, mapVars, slotVars, listenVars, syncVars
<1>1. ASSUME NEW c \in Inits, InitArrives(c) PROVE FreshInv'
  <2>1. /\ listener[c] = "none" /\ init[c] = "idle"
        /\ UNCHANGED <<listener, cur, syncLoop, syncTok, gitRepos, stopMap>>
        /\ \A l \in Listeners : l # c => todo'[l] = todo[l]
        /\ \A d \in Inits : d # c => init'[d] = init[d]
    BY <1>1 DEF InitArrives
  <2>2. UnstartedInv' /\ LoopStartedInv'
    BY <2>1
  <2>3. VisitInv'
    BY <2>1
  <2>4. QED
    BY <2>2, <2>3
<1>2. ASSUME NEW c \in Inits, InitSucceeds(c) PROVE FreshInv'
  <2>1. /\ init[c] = "body" /\ listener[c] = "none" /\ init'[c] = "unlock"
        /\ UNCHANGED <<todo, cur, syncLoop, syncTok, gitRepos, stopMap>>
        /\ listener'[c] = "start"
        /\ \A l \in Listeners : l # c => listener'[l] = listener[l]
        /\ \A d \in Inits : d # c => init'[d] = init[d]
    BY <1>2 DEF InitSucceeds
  <2>2. UnstartedInv' /\ LoopStartedInv'
    BY <2>1
  <2>3. VisitInv'
    BY <2>1
  <2>4. QED
    BY <2>2, <2>3
<1>3. ASSUME NEW c \in Inits,
             \/ InitLocks(c) \/ InitSkips(c) \/ InitBegins(c) \/ InitFails(c)
             \/ InitUnlocks(c) \/ InitFlags(c)
      PROVE  FreshInv'
  <2>1. /\ UNCHANGED <<listener, todo, cur, syncLoop, syncTok, gitRepos, stopMap>>
        /\ \A d \in Inits : init'[d] \in {"idle", "lock", "check", "body"} =>
             init[d] \in {"idle", "lock", "check", "body"}
    BY <1>3 DEF InitLocks, InitSkips, InitBegins, InitFails, InitUnlocks, InitFlags
  <2>2. QED
    BY <2>1
<1>4. ASSUME NEW a \in Adds, NEW e \in Envs, AddArrives(a, e) PROVE FreshInv'
  <2>1. /\ listener[a] = "none" /\ a \notin Inits
        /\ UNCHANGED <<init, cur, syncLoop, syncTok, gitRepos, stopMap>>
        /\ listener'[a] = "start"
        /\ \A l \in Listeners : l # a => /\ listener'[l] = listener[l]
                                         /\ todo'[l] = todo[l]
    BY <1>4 DEF AddArrives
  <2>2. UnstartedInv' /\ LoopStartedInv'
    BY <2>1
  <2>3. VisitInv'
    BY <2>1
  <2>4. QED
    BY <2>2, <2>3
<1>5. ASSUME NEW e \in Envs, DeleteSignals(e) PROVE FreshInv'
  <2>1. /\ UNCHANGED <<init, listener, todo, cur, syncLoop, gitRepos, stopMap>>
        /\ \/ UNCHANGED syncTok
           \/ gitRepos[e] # None /\ syncTok' = syncTok \cup {<<e, gitRepos[e]>>}
    BY <1>5 DEF DeleteSignals
  <2>2. UnstartedInv' /\ VisitInv'
    BY <2>1
  <2>3. \A w \in syncTok' : syncLoop[w] # "none"
    BY <2>1
  <2>4. QED
    BY <2>1, <2>2, <2>3
<1>6. ASSUME NEW e \in Envs, DeleteForgets(e) PROVE FreshInv'
  <2>1. /\ UNCHANGED <<init, listener, todo, cur, syncLoop, syncTok>>
        /\ \A f \in Envs : gitRepos'[f] \in {gitRepos[f], None}
        /\ \A k \in Keys : stopMap'[k] \in {stopMap[k], None}
    BY <1>6 DEF DeleteForgets
  <2>2. QED
    BY <2>1
<1>7. QED
  BY <1>1, <1>2, <1>3, <1>4, <1>5, <1>6 DEF InitStep

\* So do those of the listeners, of the loops and of the Loop.
LEMMA ListenFreshInv ==
  ASSUME TypeOK, FreshInv, NEW l \in Listeners, ListenStep(l)
  PROVE  FreshInv'
<1> USE LifecycleAssumption DEF LifecycleAssumption, FreshInv, UnstartedInv,
    VisitInv, At, LoopStartedInv, TypeOK, Goes, ListenStates, Listeners, Keys, Watches,
    flagVars, mapVars, slotVars, cmdVars, listenVars, syncVars
<1>1. CASE ListenStarts(l) \/ ListenFinishes(l)
  <2>1. /\ UNCHANGED <<init, todo, cur, syncLoop, syncTok, gitRepos, stopMap>>
        /\ listener[l] # "none" /\ listener'[l] \notin {"none", "put", "slot"}
        /\ \A m \in Listeners : m # l => listener'[m] = listener[m]
    BY <1>1 DEF ListenStarts, ListenFinishes
  <2>2. QED
    BY <2>1
<1>2. CASE ListenStartsInterval(l)
  <2>1. /\ UNCHANGED <<init, todo, cur, syncLoop, syncTok, gitRepos>>
        /\ listener[l] # "none" /\ listener'[l] = "range"
        /\ \A k \in Keys : stopMap'[k] \in {stopMap[k], l}
        /\ \A m \in Listeners : m # l => listener'[m] = listener[m]
    BY <1>2 DEF ListenStartsInterval
  <2>2. QED
    BY <2>1
<1>3. ASSUME NEW e \in Envs, ListenChecks(l, e) PROVE FreshInv'
  <2>1. /\ UNCHANGED <<init, syncLoop, syncTok, gitRepos, stopMap>>
        /\ listener[l] = "range" /\ e \in todo[l] /\ todo'[l] = todo[l] \ {e}
        /\ \/ listener'[l] = "put" /\ cur'[l] = e
           \/ listener'[l] = "range"
        /\ \A m \in Listeners : m # l => /\ listener'[m] = listener[m]
                                         /\ todo'[m] = todo[m] /\ cur'[m] = cur[m]
    BY <1>3 DEF ListenChecks
  <2>a. \A m \in Listeners : listener'[m] = "none" <=> listener[m] = "none"
    BY <2>1
  <2>2. UnstartedInv' /\ LoopStartedInv'
    BY <2>1, <2>a
  <2>3. ASSUME NEW m \in Listeners, m # l
        PROVE  /\ listener'[m] \in {"put", "slot"} => cur'[m] \in Envs \ todo'[m]
               /\ \A f \in Envs : syncLoop'[<<f, m>>] # "none" =>
                    f \notin todo'[m] /\ ~At(m, f)'
    BY <2>1, <2>3
  <2>4. listener'[l] \in {"put", "slot"} => cur'[l] \in Envs \ todo'[l]
    BY <2>1
  <2>5. ASSUME NEW f \in Envs, syncLoop'[<<f, l>>] # "none"
        PROVE  f \notin todo'[l] /\ ~At(l, f)'
    <3>1. f \notin todo[l] /\ f # e
      BY <2>1, <2>5
    <3>2. QED
      BY <2>1, <3>1
  <2>6. QED
    BY <2>2, <2>3, <2>4, <2>5
<1>4. CASE ListenPuts(l)
  <2>1. /\ UNCHANGED <<init, todo, cur, syncLoop, syncTok, gitRepos>>
        /\ listener[l] = "put" /\ listener'[l] = "slot"
        /\ \A k \in Keys : stopMap'[k] \in {stopMap[k], l}
        /\ \A m \in Listeners : m # l => listener'[m] = listener[m]
    BY <1>4 DEF ListenPuts
  <2>2. UnstartedInv' /\ LoopStartedInv'
    BY <2>1
  <2>3. \A m \in Listeners :
          listener'[m] \in {"put", "slot"} <=> listener[m] \in {"put", "slot"}
    BY <2>1
  <2>4. VisitInv'
    BY <2>1, <2>3
  <2>5. QED
    BY <2>2, <2>4
<1>5. CASE ListenAcquires(l)
  <2>1. /\ UNCHANGED <<init, todo, syncTok, stopMap>>
        /\ listener[l] = "slot" /\ listener'[l] = "range"
        /\ cur[l] \in Envs \ todo[l]
        /\ \A e \in Envs : gitRepos'[e] = IF e = cur[l] THEN l ELSE gitRepos[e]
        /\ \A w \in Watches :
             syncLoop'[w] = IF w = <<cur[l], l>> THEN "eval" ELSE syncLoop[w]
        /\ \A m \in Listeners : m # l => /\ listener'[m] = listener[m]
                                         /\ cur'[m] = cur[m]
    BY <1>5 DEF ListenAcquires
  <2>a. ASSUME NEW m \in Listeners, listener'[m] = "none"
        PROVE  /\ \A e \in Envs : syncLoop'[<<e, m>>] = "none" /\ gitRepos'[e] # m
               /\ \A k \in Keys : stopMap'[k] # m
    <3>1. m # l /\ listener[m] = "none"
      BY <2>1, <2>a
    <3>2. \A e \in Envs : <<e, m>> \in Watches /\ syncLoop'[<<e, m>>] = syncLoop[<<e, m>>]
      BY <2>1, <3>1
    <3>3. QED
      BY <2>1, <3>1, <3>2
  <2>b. \A c \in Inits : listener[c] = "none" => listener'[c] = "none"
    BY <2>1
  <2>2. UnstartedInv'
    BY <2>1, <2>a, <2>b
  <2>3. ASSUME NEW m \in Listeners, m # l
        PROVE  /\ listener'[m] \in {"put", "slot"} => cur'[m] \in Envs \ todo'[m]
               /\ \A e \in Envs : syncLoop'[<<e, m>>] # "none" =>
                    e \notin todo'[m] /\ ~At(m, e)'
    <3>1. \A e \in Envs : syncLoop'[<<e, m>>] = syncLoop[<<e, m>>]
      BY <2>1, <2>3
    <3>2. QED
      BY <2>1, <2>3, <3>1
  <2>4. ASSUME NEW e \in Envs, syncLoop'[<<e, l>>] # "none"
        PROVE  e \notin todo'[l] /\ ~At(l, e)'
    <3>1. CASE e = cur[l]
      BY <2>1, <3>1
    <3>2. CASE e # cur[l]
      <4>1. syncLoop[<<e, l>>] # "none"
        BY <2>1, <2>4, <3>2
      <4>2. QED
        BY <2>1, <4>1
    <3>3. QED
      BY <3>1, <3>2
  <2>5. VisitInv'
    BY <2>1, <2>3, <2>4
  <2>6. \A w \in Watches : syncLoop[w] # "none" => syncLoop'[w] # "none"
    BY <2>1
  <2>7. ASSUME NEW e \in Envs, gitRepos'[e] # None
        PROVE  syncLoop'[<<e, gitRepos'[e]>>] # "none"
    <3>1. CASE e = cur[l]
      BY <2>1, <3>1
    <3>2. CASE e # cur[l]
      <4>1. /\ gitRepos'[e] = gitRepos[e] /\ <<e, gitRepos[e]>> \in Watches
            /\ syncLoop[<<e, gitRepos[e]>>] # "none"
        BY <2>1, <2>7, <3>2
      <4>2. QED
        BY <2>6, <4>1
    <3>3. QED
      BY <3>1, <3>2
  <2>8. LoopStartedInv'
    BY <2>1, <2>6, <2>7
  <2>9. QED
    BY <2>2, <2>5, <2>8
<1>6. QED
  BY <1>1, <1>2, <1>3, <1>4, <1>5 DEF ListenStep

\* Every step keeps FreshInv, whatever is lost, added or deleted.
LEMMA NextFreshInv == TypeOK /\ FreshInv /\ [Next]_vars => FreshInv'
<1> SUFFICES ASSUME TypeOK, FreshInv, [Next]_vars PROVE FreshInv'
  OBVIOUS
<1> USE DEF FreshInv, UnstartedInv, VisitInv, At, LoopStartedInv, TypeOK, Goes
<1>1. ASSUME NEW w \in Watches,
             SyncLoopSelects(w) \/ SyncLoopWorks(w) \/ SyncLoopEnds(w)
      PROVE  FreshInv'
  <2>1. /\ UNCHANGED <<init, listener, todo, cur, gitRepos, stopMap>>
        /\ syncTok' \subseteq syncTok
        /\ \A v \in Watches : syncLoop'[v] = "none" <=> syncLoop[v] = "none"
    BY <1>1 DEF SyncLoopSelects, SyncLoopWorks, SyncLoopEnds, flagVars,
       mapVars, cmdVars, listenVars
  <2>2. QED
    BY <2>1 DEF Watches
<1>2. ASSUME NEW k \in Keys, LoopCloses(k) PROVE FreshInv'
  <2>1. /\ UNCHANGED <<init, listener, todo, cur, syncLoop, syncTok, gitRepos>>
        /\ \A i \in Keys : stopMap'[i] \in {stopMap[i], None}
    BY <1>2 DEF LoopCloses, cmdVars, listenVars, syncVars
  <2>2. None \notin Listeners
    BY LifecycleAssumption DEF LifecycleAssumption
  <2>3. QED
    BY <2>1, <2>2
<1>3. CASE UNCHANGED freshVars
  BY <1>3 DEF freshVars
<1>4. QED
  BY <1>1, <1>2, <1>3, FreshFrame, CommandFreshInv, ListenFreshInv

\* It holds in every reachable state.
LEMMA SpecFreshInv == Spec => []FreshInv
<1>1. Init => FreshInv
  BY LifecycleAssumption DEF LifecycleAssumption, Init, FreshInv, UnstartedInv,
     VisitInv, LoopStartedInv, Watches, Listeners, Keys
<1>2. QED
  BY <1>1, NextFreshInv, LifecycleTypeOK, PTL DEF Spec

-----------------------------------------------------------------------------
\* The abstract watches.  A listener that asks for the slot of an environment
\* finds nobody who follows it untold, and was not told to leave it before.
SlotIsFree ==
  \A l \in Listeners : listener[l] = "slot" =>
    /\ \A m \in Listeners : <<cur[l], m>> \notin LiveLoops \ Told
    /\ <<cur[l], l>> \notin closed

\* Then every step is one of the abstract watches, or changes none.
LEMMA StepImplementsWatches ==
  ASSUME TypeOK, FreshInv, SlotIsFree, [Next]_vars
  PROVE  [WatchesRef!WatchesNext]_(WatchesRef!watchesVars)
<1> DEFINE left == {w \in Watches : syncLoop[w] = "exited"}
<1> USE LifecycleAssumption DEF LifecycleAssumption, LiveLoops, Told, TypeOK,
    Goes, flagVars, mapVars, cmdVars, listenVars, syncVars
<1>0. ASSUME UNCHANGED <<LiveLoops, Told, left>>
      PROVE  UNCHANGED WatchesRef!watchesVars
  BY <1>0 DEF WatchesRef!watchesVars
<1>t. ASSUME NEW w \in Envs \X Listeners, WatchesRef!IsTold(w) \/ WatchesRef!Ends(w)
      PROVE  WatchesRef!WatchesNext
  BY <1>t DEF WatchesRef!WatchesNext
<1>1. ASSUME NEW l \in Listeners, ListenAcquires(l)
      PROVE  WatchesRef!TakesOver(cur[l], l)
  <2> DEFINE w == <<cur[l], l>>
  <2>1. /\ listener[l] = "slot" /\ cur[l] \in Envs /\ w \in Watches
        /\ syncLoop[w] = "none" /\ w \notin closed /\ w \notin syncTok
    BY <1>1 DEF ListenAcquires, FreshInv, VisitInv, At, LoopStartedInv,
       SlotIsFree, Watches
  <2>2. /\ UNCHANGED <<closed, syncTok>>
        /\ \A v \in Watches : syncLoop'[v] = IF v = w THEN "eval" ELSE syncLoop[v]
    BY <1>1 DEF ListenAcquires
  <2>3. LiveLoops' = LiveLoops \cup {w}
    BY <2>1, <2>2
  <2>4. Told' = Told
    BY <2>1, <2>2, <2>3
  <2>5. left' = left
    BY <2>1, <2>2
  <2>6. w \notin Told \cup left
    BY <2>1
  <2>7. \A m \in Listeners : <<cur[l], m>> \notin LiveLoops \ Told
    BY <2>1 DEF SlotIsFree
  <2>8. (LiveLoops \ Told)' = (LiveLoops \ Told) \cup {w}
    BY <2>3, <2>4, <2>6
  <2>9. QED
    BY <2>4, <2>5, <2>6, <2>7, <2>8 DEF WatchesRef!TakesOver
<1>2. ASSUME NEW k \in Keys, LoopCloses(k)
      PROVE  [WatchesRef!WatchesNext]_(WatchesRef!watchesVars)
  <2> DEFINE w == <<k, stopMap[k]>>
  <2>1. UNCHANGED <<syncLoop, syncTok>> /\ closed' = closed \cup {w}
    BY <1>2 DEF LoopCloses
  <2>2. LiveLoops' = LiveLoops /\ left' = left
    BY <2>1
  <2>3. ASSUME NEW v \in LiveLoops \ Told, v = w
        PROVE  WatchesRef!WatchesNext
    <3>1. Told' = Told \cup {v}
      BY <2>1, <2>2, <2>3
    <3>2. v \in Envs \X Listeners
      BY DEF Watches
    <3>3. WatchesRef!IsTold(v)
      BY <2>2, <2>3, <3>1 DEF WatchesRef!IsTold
    <3>4. QED
      BY <1>t, <3>2, <3>3
  <2>4. CASE w \notin LiveLoops \ Told
    <3>1. \A v \in LiveLoops : v \in closed' \/ v \in syncTok'
                              <=> v \in closed \/ v \in syncTok
      BY <2>1, <2>4
    <3>2. Told' = Told
      BY <2>2, <3>1
    <3>3. QED
      BY <1>0, <2>2, <3>2
  <2>5. QED
    BY <2>3, <2>4
<1>3. ASSUME NEW e \in Envs, DeleteSignals(e)
      PROVE  [WatchesRef!WatchesNext]_(WatchesRef!watchesVars)
  <2> DEFINE w == <<e, gitRepos[e]>>
  <2>1. /\ UNCHANGED <<syncLoop, closed>>
        /\ syncTok' = syncTok \/ syncTok' = syncTok \cup {w}
    BY <1>3 DEF DeleteSignals
  <2>2. LiveLoops' = LiveLoops /\ left' = left
    BY <2>1
  <2>3. ASSUME NEW v \in LiveLoops \ Told, v = w,
               syncTok' = syncTok \cup {w}
        PROVE  WatchesRef!WatchesNext
    <3>1. Told' = Told \cup {v}
      BY <2>1, <2>2, <2>3
    <3>2. v \in Envs \X Listeners
      BY DEF Watches
    <3>3. WatchesRef!IsTold(v)
      BY <2>2, <2>3, <3>1 DEF WatchesRef!IsTold
    <3>4. QED
      BY <1>t, <3>2, <3>3
  <2>4. CASE w \notin LiveLoops \ Told \/ syncTok' = syncTok
    <3>1. \A v \in LiveLoops : v \in closed' \/ v \in syncTok'
                              <=> v \in closed \/ v \in syncTok
      BY <2>1, <2>4
    <3>2. Told' = Told
      BY <2>2, <3>1
    <3>3. QED
      BY <1>0, <2>2, <3>2
  <2>5. QED
    BY <2>1, <2>3, <2>4
<1>4. ASSUME NEW w \in Watches, SyncLoopEnds(w)
      PROVE  WatchesRef!Ends(w)
  <2>1. /\ w \in Told /\ closed' = closed
        /\ syncTok' = syncTok \/ syncTok' = syncTok \ {w}
        /\ \A v \in Watches : syncLoop'[v] = IF v = w THEN "exited" ELSE syncLoop[v]
    BY <1>4 DEF SyncLoopEnds
  <2>2. LiveLoops' = LiveLoops \ {w} /\ left' = left \cup {w}
    BY <2>1
  <2>3. Told' = Told \ {w}
    BY <2>1, <2>2
  <2>4. (LiveLoops \ Told)' = LiveLoops \ Told
    BY <2>1, <2>2, <2>3
  <2>5. QED
    BY <2>1, <2>2, <2>3, <2>4 DEF WatchesRef!Ends
<1>5. ASSUME NEW w \in Watches, SyncLoopSelects(w) \/ SyncLoopWorks(w)
      PROVE  UNCHANGED WatchesRef!watchesVars
  <2>1. /\ UNCHANGED <<closed, syncTok>>
        /\ \A v \in Watches : /\ syncLoop'[v] \in {"eval", "select"}
                                  <=> syncLoop[v] \in {"eval", "select"}
                              /\ syncLoop'[v] = "exited" <=> syncLoop[v] = "exited"
    BY <1>5 DEF SyncLoopSelects, SyncLoopWorks
  <2>2. LiveLoops' = LiveLoops /\ left' = left
    BY <2>1
  <2>3. QED
    BY <1>0, <2>1, <2>2
<1>6. ASSUME UNCHANGED <<syncLoop, syncTok, closed>>
      PROVE  UNCHANGED WatchesRef!watchesVars
  BY <1>0, <1>6
<1>7. ASSUME NEW c \in Inits, InitArrives(c) \/ InitStep(c) \/ InitFails(c)
      PROVE  UNCHANGED <<syncLoop, syncTok, closed>>
  BY <1>7 DEF InitArrives, InitStep, InitFails, InitLocks, InitSkips,
     InitBegins, InitSucceeds, InitUnlocks, InitFlags
<1>8. ASSUME NEW e \in Envs, \/ \E a \in Adds : AddArrives(a, e)
                             \/ DeleteArrives(e) \/ DeleteForgets(e)
      PROVE  UNCHANGED <<syncLoop, syncTok, closed>>
  BY <1>8 DEF AddArrives, DeleteArrives, DeleteForgets
<1>9. ASSUME NEW l \in Listeners, ListenStep(l) \/ IntervalEnds(l)
      PROVE  ListenAcquires(l) \/ UNCHANGED <<syncLoop, syncTok, closed>>
  BY <1>9 DEF ListenStep, ListenStarts, ListenStartsInterval, ListenChecks,
     ListenPuts, ListenFinishes, IntervalEnds
<1>10. ASSUME NEW w \in Watches, RepoAdvances(w) \/ RepoFails(w) \/ RepoStep(w)
       PROVE  UNCHANGED <<syncLoop, syncTok, closed>>
  BY <1>10 DEF RepoAdvances, RepoFails, RepoStep, RepoRetries, RepoReturns,
     RepoReady, RepoReleases
<1>11. ASSUME \/ LinkDrops \/ LoopTests \/ LoopClearsRunning
              \/ LoopClearsInitialized \/ LoopReconnects \/ LoopStops
       PROVE  UNCHANGED <<syncLoop, syncTok, closed>>
  BY <1>11 DEF LinkDrops, LoopTests, LoopClearsRunning,
     LoopClearsInitialized, LoopReconnects, LoopStops
<1>12. ASSUME ShutdownBegins \/ WorkerStops \/ ProcessExits \/ UNCHANGED vars
       PROVE  UNCHANGED <<syncLoop, syncTok, closed>>
  BY <1>12 DEF ShutdownBegins, WorkerStops, ProcessExits, vars
<1>13. ASSUME NEW l \in Listeners, ListenAcquires(l)
       PROVE  WatchesRef!WatchesNext
  <2>1. cur[l] \in Envs
    BY <1>13 DEF ListenAcquires, FreshInv, VisitInv
  <2>2. QED
    BY <1>1, <1>13, <2>1 DEF WatchesRef!WatchesNext
<1>14. ASSUME NEW w \in Watches, SyncLoopEnds(w)
       PROVE  WatchesRef!WatchesNext
  BY <1>t, <1>4, <1>14 DEF Watches
<1> HIDE DEF LiveLoops, Told, TypeOK, Goes, left
<1>15. QED
  BY <1>2, <1>3, <1>5, <1>6, <1>7, <1>8, <1>9, <1>10, <1>11, <1>12, <1>13, <1>14
     DEF Next, LoopStep

-----------------------------------------------------------------------------
\* With agent_init commands only, what the Loop has closed belongs to listeners
\* that are done.
ClosedInv == \A v \in closed : listener[v[2]] = "done"

\* The Loop closes only while no listener is at work.
LEMMA NextClosedInv ==
  ASSUME Adds = {}, Deletes = {}, TypeOK, NothingDeleted, FlagInv, FreshInv,
         ClosedInv, [Next]_vars
  PROVE  ClosedInv'
<1> USE DEF ClosedInv, TypeOK, Goes, flagVars, mapVars, slotVars, cmdVars,
    listenVars, syncVars
<1>1. Listeners = Inits
  BY OnlyInits
<1>2. \A v \in closed : v[2] \in Listeners
  OBVIOUS
<1>3. ASSUME UNCHANGED closed,
             \A l \in Listeners : listener[l] = "done" => listener'[l] = "done"
      PROVE  ClosedInv'
  BY <1>2, <1>3
<1>4. ASSUME NEW k \in Keys, LoopCloses(k) PROVE ClosedInv'
  <2>1. /\ loop = "close" /\ stopMap[k] # None /\ UNCHANGED listener
        /\ closed' = closed \cup {<<k, stopMap[k]>>}
    BY <1>4 DEF LoopCloses
  <2>2. stopMap[k] \in Listeners /\ listener[stopMap[k]] # "none"
    BY <2>1 DEF FreshInv, UnstartedInv
  <2>3. listener[stopMap[k]] = "done"
    BY <2>1, <2>2 DEF FlagInv, CloseInv, Active
  <2>4. QED
    BY <2>1, <2>3
<1>5. ASSUME NEW c \in Inits, InitArrives(c) \/ InitStep(c) \/ InitFails(c)
      PROVE  ClosedInv'
  <2>1. CASE InitSucceeds(c)
    <3>1. listener[c] = "none" /\ UNCHANGED closed
          /\ \A l \in Listeners : l # c => listener'[l] = listener[l]
      BY <2>1 DEF InitSucceeds, FreshInv, UnstartedInv
    <3>2. QED
      BY <1>3, <3>1
  <2>2. CASE ~InitSucceeds(c)
    <3>1. UNCHANGED <<listener, closed>>
      BY <1>5, <2>2 DEF InitArrives, InitStep, InitFails, InitLocks, InitSkips,
         InitBegins, InitUnlocks, InitFlags
    <3>2. QED
      BY <1>3, <3>1
  <2>3. QED
    BY <2>1, <2>2
<1>6. ASSUME NEW l \in Inits, ListenStep(l) PROVE ClosedInv'
  <2>1. /\ UNCHANGED closed /\ listener[l] # "done"
        /\ \A m \in Listeners : m # l => listener'[m] = listener[m]
    BY <1>1, <1>6 DEF ListenStep, ListenStarts, ListenStartsInterval,
       ListenChecks, ListenPuts, ListenAcquires, ListenFinishes
  <2>2. QED
    BY <1>3, <2>1
<1>7. CASE \/ \E l \in Inits : IntervalEnds(l)
           \/ \E w \in Watches : \/ SyncLoopSelects(w) \/ SyncLoopWorks(w)
                                 \/ SyncLoopEnds(w)
  BY <1>3, <1>7 DEF IntervalEnds, SyncLoopSelects, SyncLoopWorks, SyncLoopEnds
<1>8. CASE \/ LinkDrops \/ LoopTests \/ LoopClearsRunning
           \/ LoopClearsInitialized \/ LoopReconnects \/ LoopStops
  BY <1>3, <1>8 DEF LinkDrops, LoopTests, LoopClearsRunning,
     LoopClearsInitialized, LoopReconnects, LoopStops
<1>9. CASE UNCHANGED watchVars
  BY <1>3, <1>9 DEF watchVars
<1>10. QED
  BY <1>4, <1>5, <1>6, <1>7, <1>8, <1>9, WatchFrame DEF LoopStep

\* Then the stop channel that the listener has put into the map is its own
\* claim to the environment: a loop that follows it untold would have its own
\* channel in that place.
LEMMA GenerationSlotIsFree ==
  ASSUME TypeOK, WatchInv, FreshInv, ClosedInv
  PROVE  SlotIsFree
<1> SUFFICES ASSUME NEW l \in Listeners, listener[l] = "slot"
             PROVE  /\ \A m \in Listeners : <<cur[l], m>> \notin LiveLoops \ Told
                    /\ <<cur[l], l>> \notin closed
  BY DEF SlotIsFree
<1>1. stopMap[cur[l]] = l /\ cur[l] \in Envs
  BY DEF WatchInv, PlaceInv
<1>2. syncLoop[<<cur[l], l>>] = "none"
  BY <1>1 DEF FreshInv, VisitInv, At
<1>3. ASSUME NEW m \in Listeners, <<cur[l], m>> \in LiveLoops \ Told PROVE FALSE
  <2>1. stopMap[cur[l]] = m
    BY <1>3 DEF WatchInv, NoOrphans, Told
  <2>2. QED
    BY <1>1, <1>2, <1>3, <2>1 DEF LiveLoops
<1>4. <<cur[l], l>> \notin closed
  BY DEF ClosedInv
<1>5. QED
  BY <1>3, <1>4

\* So with agent_init commands only a listener finds the slot's environment free.
LEMMA SpecGenerationSlotIsFree ==
  ASSUME Adds = {}, Deletes = {}, MaxInFlight = 1
  PROVE  Spec => []SlotIsFree
<1>1. Init => ClosedInv
  BY DEF Init, ClosedInv
<1>2. TypeOK /\ GenerationInv /\ FreshInv /\ ClosedInv /\ [Next]_vars => ClosedInv'
  BY NextClosedInv DEF GenerationInv
<1>3. TypeOK /\ GenerationInv /\ FreshInv /\ ClosedInv => SlotIsFree
  BY GenerationSlotIsFree DEF GenerationInv
<1>4. QED
  BY <1>1, <1>2, <1>3, LifecycleTypeOK, SpecFreshInv, SpecGenerationInv, PTL
     DEF Spec

\* At the start nobody follows anything.
LEMMA InitImplementsWatches == Init => WatchesRef!WatchesInit
<1> SUFFICES ASSUME Init PROVE WatchesRef!WatchesInit
  OBVIOUS
<1>1. \A w \in Watches : syncLoop[w] = "none"
  BY DEF Init
<1>2. LiveLoops = {} /\ Told = {} /\ {w \in Watches : syncLoop[w] = "exited"} = {}
  BY <1>1 DEF LiveLoops, Told
<1>3. QED
  BY <1>2 DEF WatchesRef!WatchesInit

-----------------------------------------------------------------------------
\* One connection, with add_env and delete_env as well.  The stop channels are
\* of no use then, since delete_env forgets them; that nobody follows an
\* environment twice rests on who may come to it.

\* An agent_init on its way that has not begun, or begun and not ended.
Pending(l) == l \in Inits /\ init[l] \in {"lock", "check", "body"} /\ ~initialized

\* Who will visit an environment, is at it, or follows it untold.
Owns(e, l) ==
  \/ Pending(l) /\ e \in todo[l]
  \/ l \in Active /\ e \in todo[l]
  \/ At(l, e)
  \/ <<e, l>> \in LiveLoops \ Told

\* Nothing has been closed, an agent_init that is over has set the flag, and
\* before the first one there is nothing.
UpInv ==
  /\ closed = {}
  /\ \A c \in Inits : init[c] = "done" => initialized
  /\ (\A c \in Inits : init[c] = "idle") =>
       /\ \A l \in Listeners : listener[l] = "none"
       /\ present = {}
       /\ \A e \in Envs : gitRepos[e] = None /\ del[e] = "idle"

\* An environment has one owner at most, whose mirror is the one in the map.
SoleOwner(e) ==
  /\ \A l, m \in Listeners : Owns(e, l) /\ Owns(e, m) => l = m
  /\ \A l \in Listeners : gitRepos[e] # None /\ Owns(e, l) => gitRepos[e] = l

\* Mirrors, deletions and owners are of namespaces that exist; an agent_init
\* that is pending names none that exists yet, and delete_env forgets only what
\* nobody owns.
OwnerExists(e) ==
  /\ gitRepos[e] # None \/ del[e] \in {"signal", "forget"} => e \in present
  /\ \A c \in Inits : Pending(c) /\ e \in todo[c] => e \notin present /\ del[e] = "idle"
  /\ Running => /\ \A l \in Listeners : Owns(e, l) /\ ~Pending(l) => e \in present
                /\ del[e] = "forget" => \A l \in Listeners : ~Owns(e, l)

OwnerInv == \A e \in Envs : SoleOwner(e) /\ OwnerExists(e)

\* The Loop closes nothing as long as the connection stays.
LEMMA NextUpInv ==
  ASSUME TypeOK, StaysUp, UpInv, [Next]_vars
  PROVE  UpInv'
<1> USE DEF UpInv, TypeOK, Goes, InitStates, flagVars, mapVars, slotVars,
    cmdVars, listenVars, connVars, StaysUp
<1>1. ASSUME NEW c \in Inits, InitArrives(c) \/ InitStep(c) \/ InitFails(c)
      PROVE  UpInv'
  <2>1. /\ UNCHANGED closed /\ init'[c] # "idle"
        /\ init'[c] = "done" => initialized'
        /\ initialized => initialized'
        /\ \A d \in Inits : d # c => init'[d] = init[d]
    BY <1>1 DEF InitArrives, InitStep, InitFails, InitLocks, InitSkips,
       InitBegins, InitSucceeds, InitUnlocks, InitFlags
  <2>2. QED
    BY <2>1
<1>2. ASSUME NEW a \in Adds, NEW e \in Envs, AddArrives(a, e) PROVE UpInv'
  BY <1>2 DEF AddArrives
<1>3. ASSUME UNCHANGED <<closed, init, initialized>>,
             (\A c \in Inits : init[c] = "idle") =>
               UNCHANGED <<listener, present, gitRepos, del>>
      PROVE  UpInv'
  BY <1>3
<1>4. ASSUME NEW e \in Envs,
             DeleteArrives(e) \/ DeleteSignals(e) \/ DeleteForgets(e)
      PROVE  UpInv'
  <2>1. ~\A c \in Inits : init[c] = "idle"
    BY <1>4 DEF DeleteArrives, DeleteSignals, DeleteForgets
  <2>2. UNCHANGED <<closed, init, initialized>>
    BY <1>4 DEF DeleteArrives, DeleteSignals, DeleteForgets
  <2>3. QED
    BY <1>3, <2>1, <2>2
<1>5. ASSUME NEW l \in Listeners, ListenStep(l) PROVE UpInv'
  <2>1. ~\A c \in Inits : init[c] = "idle"
    BY <1>5 DEF ListenStep, ListenStarts, ListenStartsInterval, ListenChecks,
       ListenPuts, ListenAcquires, ListenFinishes
  <2>2. UNCHANGED <<closed, init, initialized>>
    BY <1>5 DEF ListenStep, ListenStarts, ListenStartsInterval, ListenChecks,
       ListenPuts, ListenAcquires, ListenFinishes
  <2>3. QED
    BY <1>3, <2>1, <2>2
<1>6. ASSUME NEW w \in Watches,
             \/ RepoAdvances(w) \/ RepoFails(w) \/ RepoStep(w)
             \/ SyncLoopSelects(w) \/ SyncLoopWorks(w) \/ SyncLoopEnds(w)
             \/ \E l \in Listeners : IntervalEnds(l)
      PROVE  UpInv'
  BY <1>3, <1>6 DEF RepoAdvances, RepoFails, RepoStep, RepoRetries, RepoReturns,
     RepoReady, RepoReleases, SyncLoopSelects, SyncLoopWorks, SyncLoopEnds,
     IntervalEnds
<1>7. CASE LinkDrops \/ LoopStep
  BY <1>3, <1>7 DEF LinkDrops, LoopStep, LoopTests, LoopCloses, LoopClearsRunning,
     LoopClearsInitialized, LoopReconnects, LoopStops
<1>8. CASE ShutdownBegins \/ WorkerStops \/ ProcessExits \/ UNCHANGED vars
  BY <1>3, <1>8 DEF ShutdownBegins, WorkerStops, ProcessExits, vars
<1>9. ASSUME NEW l \in Listeners, IntervalEnds(l) PROVE UpInv'
  BY <1>3, <1>9 DEF IntervalEnds
<1>10. QED
  BY <1>1, <1>2, <1>4, <1>5, <1>6, <1>7, <1>8, <1>9 DEF Next

\* A step that makes nobody an owner, and changes none of the rest.
LEMMA FewerOwners ==
  ASSUME OwnerInv, Running, NEW e \in Envs,
         gitRepos'[e] = gitRepos[e], del'[e] = del[e],
         e \in present' <=> e \in present,
         \A l \in Listeners : /\ Owns(e, l)' => Owns(e, l)
                              /\ Owns(e, l)' /\ ~Pending(l)' => ~Pending(l),
         \A c \in Inits : Pending(c)' /\ e \in todo'[c] => Pending(c) /\ e \in todo[c]
  PROVE  SoleOwner(e)' /\ OwnerExists(e)'
<1>1. SoleOwner(e)'
  BY DEF OwnerInv, SoleOwner
<1>2. OwnerExists(e)'
  BY DEF OwnerInv, OwnerExists
<1>3. QED
  BY <1>1, <1>2

\* Of a pending agent_init nothing has started.
LEMMA PendingUnstarted ==
  ASSUME FreshInv, NEW l \in Listeners, Pending(l), NEW e \in Envs
  PROVE  l \notin Active /\ ~At(l, e) /\ <<e, l>> \notin LiveLoops
  BY DEF FreshInv, UnstartedInv, Pending, Active, At, LiveLoops

ownVars == <<init, initialized, listener, todo, cur, syncLoop, syncTok, closed,
             gitRepos, present, del>>

\* Steps that leave all of it alone keep OwnerInv.
LEMMA OwnFrame ==
  ASSUME OwnerInv, Running, UNCHANGED ownVars
  PROVE  OwnerInv'
<1> SUFFICES ASSUME NEW e \in Envs PROVE SoleOwner(e)' /\ OwnerExists(e)'
  BY DEF OwnerInv
<1>1. UNCHANGED <<gitRepos, present, del, todo>>
  BY DEF ownVars
<1>2. \A l : Pending(l)' <=> Pending(l)
  BY DEF ownVars, Pending
<1>3. LiveLoops' = LiveLoops /\ Told' = Told /\ Active' = Active
  BY DEF ownVars, LiveLoops, Told, Active
<1>4. \A l : At(l, e)' <=> At(l, e)
  BY DEF ownVars, At
<1>5. \A l : Owns(e, l)' <=> Owns(e, l)
  BY <1>1, <1>2, <1>3, <1>4 DEF Owns
<1>6. QED
  BY <1>1, <1>2, <1>5, FewerOwners

\* The steps of agent_init keep OwnerInv.
LEMMA InitOwnerInv ==
  ASSUME MaxInFlight = 1, TypeOK, CommandInv, UpInv, FreshInv, OwnerInv, Running,
         NEW c \in Inits, InitArrives(c) \/ InitStep(c) \/ InitFails(c)
  PROVE  OwnerInv'
<1> SUFFICES ASSUME NEW e \in Envs PROVE SoleOwner(e)' /\ OwnerExists(e)'
  BY DEF OwnerInv
<1> USE DEF Goes, TypeOK, Listeners, flagVars, mapVars, slotVars, listenVars,
    syncVars, cmdVars
<1>1. CASE InitArrives(c)
  <2>1. InFlight = {}
    BY <1>1, NoneInFlight DEF InitArrives, CommandInv
  <2>2. /\ init[c] = "idle" /\ init'[c] = "lock"
        /\ \A d \in Inits : d # c => init'[d] = init[d]
        /\ \A l \in Listeners : l # c => todo'[l] = todo[l]
        /\ UNCHANGED <<initialized, listener, cur, syncLoop, syncTok, closed,
                      gitRepos, present, del>>
    BY <1>1 DEF InitArrives
  <2>3. listener[c] = "none" /\ syncLoop[<<e, c>>] = "none"
    BY <2>2 DEF FreshInv, UnstartedInv
  <2>4. LiveLoops' = LiveLoops /\ Told' = Told /\ Active' = Active
    BY <2>2 DEF LiveLoops, Told, Active
  <2>5. \A l \in Listeners : l # c => (Owns(e, l)' <=> Owns(e, l))
    BY <2>2, <2>4 DEF Owns, Pending, At
  <2>6. Owns(e, c)' => Pending(c)'
    BY <2>2, <2>3, <2>4 DEF Owns, Active, At, LiveLoops
  <2>7. \A l \in Listeners : ~Pending(l)
    BY <2>1 DEF Pending, InFlight
  <2>8. CASE initialized
    <3>1. \A l \in Listeners : ~Pending(l)'
      BY <2>2, <2>8 DEF Pending
    <3>2. \A l \in Listeners : Owns(e, l)' => Owns(e, l)
      BY <2>5, <2>6, <3>1
    <3>3. QED
      BY <2>2, <2>7, <3>1, <3>2, FewerOwners
  <2>9. CASE ~initialized
    <3>1. \A d \in Inits : init[d] = "idle"
      BY <2>1, <2>9 DEF InFlight, UpInv
    <3>2. /\ \A l \in Listeners : listener[l] = "none"
          /\ present = {} /\ gitRepos[e] = None /\ del[e] = "idle"
      BY <3>1 DEF UpInv
    <3>3. \A l \in Listeners : l # c => ~Owns(e, l)
      BY <2>7, <3>2 DEF Owns, Active, At, LiveLoops, FreshInv, UnstartedInv
    <3>4. \A l \in Listeners : Owns(e, l)' => l = c
      BY <2>5, <3>3
    <3>5. Pending(c)'
      BY <2>2, <2>9 DEF Pending
    <3>6. SoleOwner(e)'
      BY <2>2, <3>2, <3>4 DEF SoleOwner
    <3>7. OwnerExists(e)'
      BY <2>2, <3>2, <3>4, <3>5 DEF OwnerExists
    <3>8. QED
      BY <3>6, <3>7
  <2>10. QED
    BY <2>8, <2>9
<1>2. CASE InitSucceeds(c)
  <2>1. /\ init[c] = "body" /\ init'[c] = "unlock"
        /\ \A d \in Inits : d # c => init'[d] = init[d]
        /\ listener'[c] = "start"
        /\ \A l \in Listeners : l # c => listener'[l] = listener[l]
        /\ present' = present \cup todo[c]
        /\ UNCHANGED <<initialized, todo, cur, syncLoop, syncTok, closed,
                      gitRepos, del>>
    BY <1>2 DEF InitSucceeds
  <2>2. listener[c] = "none" /\ syncLoop[<<e, c>>] = "none" /\ Pending(c)
    BY <2>1 DEF FreshInv, UnstartedInv, CommandInv, BodyInv, Pending
  <2>3. \A l \in Listeners : l # c => ~Pending(l)
    BY <2>1 DEF CommandInv, OneCommand, InFlight, Pending
  <2>4. \A l \in Listeners : ~Pending(l)'
    BY <2>1, <2>3 DEF Pending
  <2>5. LiveLoops' = LiveLoops /\ Told' = Told
    BY <2>1 DEF LiveLoops, Told
  <2>6. \A l \in Listeners : l # c => (Owns(e, l)' <=> Owns(e, l))
    BY <2>1, <2>3, <2>4, <2>5 DEF Owns, At, Active
  <2>7. Owns(e, c)' => e \in todo[c]
    BY <2>1, <2>2, <2>4, <2>5 DEF Owns, At, LiveLoops
  <2>8. \A l \in Listeners : Owns(e, l)' => Owns(e, l)
    BY <2>2, <2>6, <2>7 DEF Owns
  <2>9. SoleOwner(e)'
    BY <2>1, <2>8 DEF OwnerInv, SoleOwner
  <2>10. ASSUME NEW l \in Listeners, Owns(e, l)' PROVE e \in present'
    BY <2>1, <2>3, <2>7, <2>8, <2>10 DEF OwnerInv, OwnerExists
  <2>11. OwnerExists(e)'
    BY <2>1, <2>4, <2>8, <2>10 DEF OwnerInv, OwnerExists
  <2>12. QED
    BY <2>9, <2>11
<1>3. CASE \/ InitLocks(c) \/ InitSkips(c) \/ InitBegins(c) \/ InitFails(c)
           \/ InitUnlocks(c) \/ InitFlags(c)
  <2>1. /\ UNCHANGED <<listener, todo, cur, syncLoop, syncTok, closed, gitRepos,
                      present, del>>
        /\ initialized => initialized'
        /\ \A d \in Inits : init'[d] \in {"lock", "check", "body"}
                             => init[d] \in {"lock", "check", "body"}
    BY <1>3 DEF InitLocks, InitSkips, InitBegins, InitFails, InitUnlocks, InitFlags
  <2>2. \A l \in Listeners : Pending(l)' => Pending(l)
    BY <2>1 DEF Pending
  <2>3. LiveLoops' = LiveLoops /\ Told' = Told /\ Active' = Active
    BY <2>1 DEF LiveLoops, Told, Active
  <2>4. \A l \in Listeners : Owns(e, l)' => Owns(e, l)
    BY <2>1, <2>2, <2>3 DEF Owns, At
  <2>5. \A l \in Listeners : Owns(e, l)' /\ ~Pending(l)' => ~Pending(l)
    BY <2>1, <2>3, PendingUnstarted DEF Owns, At
  <2>6. QED
    BY <2>1, <2>2, <2>4, <2>5, FewerOwners
<1>4. QED
  BY <1>1, <1>2, <1>3 DEF InitStep

-----------------------------------------------------------------------------
\* So do add_env and delete_env.
LEMMA EnvOwnerInv ==
  ASSUME TypeOK, FreshInv, OwnerInv, Running, NEW f \in Envs,
         \/ \E a \in Adds : AddArrives(a, f)
         \/ DeleteArrives(f) \/ DeleteSignals(f) \/ DeleteForgets(f)
  PROVE  OwnerInv'
<1> SUFFICES ASSUME NEW e \in Envs PROVE SoleOwner(e)' /\ OwnerExists(e)'
  BY DEF OwnerInv
<1> USE LifecycleAssumption DEF LifecycleAssumption, Goes, TypeOK, Listeners,
    flagVars, mapVars, slotVars, listenVars, syncVars, repoVars, cmdVars
<1>0. OwnerExists(e) /\ SoleOwner(e)
  BY DEF OwnerInv
<1>1. ASSUME NEW a \in Adds, AddArrives(a, f) PROVE SoleOwner(e)' /\ OwnerExists(e)'
  <2>1. /\ listener[a] = "none" /\ listener'[a] = "start"
        /\ todo'[a] = {f} /\ f \notin present
        /\ present' = present \cup {f}
        /\ \A c \in InFlight : f \notin todo[c]
        /\ \A l \in Listeners : l # a => /\ listener'[l] = listener[l]
                                         /\ todo'[l] = todo[l]
        /\ UNCHANGED <<init, initialized, cur, syncLoop, syncTok, closed,
                      gitRepos, del>>
    BY <1>1 DEF AddArrives
  <2>2. a \notin Inits /\ a \in Listeners /\ syncLoop[<<e, a>>] = "none"
    BY <2>1 DEF FreshInv, UnstartedInv
  <2>3. LiveLoops' = LiveLoops /\ Told' = Told
    BY <2>1 DEF LiveLoops, Told
  <2>4. \A l \in Listeners : Pending(l)' <=> Pending(l)
    BY <2>1 DEF Pending
  <2>5. \A l \in Listeners : l # a => (Owns(e, l)' <=> Owns(e, l))
    BY <2>1, <2>3, <2>4 DEF Owns, At, Active
  <2>6. Owns(e, a)' => e = f
    BY <2>1, <2>2, <2>3 DEF Owns, At, LiveLoops, Pending
  <2>7. \A c \in Inits : c # a
    BY <2>2
  <2>8. CASE e # f
    BY <1>0, <2>1, <2>2, <2>4, <2>5, <2>6, <2>7, <2>8, FewerOwners
  <2>9. CASE e = f
    <3>1. ASSUME NEW l \in Listeners, Owns(e, l) PROVE FALSE
      <4>1. CASE Pending(l)
        <5>1. e \in todo[l]
          BY <3>1, <4>1, PendingUnstarted DEF Owns
        <5>2. l \in InFlight
          BY <4>1 DEF Pending, InFlight
        <5>3. QED
          BY <2>1, <2>9, <5>1, <5>2
      <4>2. CASE ~Pending(l)
        BY <1>0, <2>1, <2>9, <3>1, <4>2 DEF OwnerExists
      <4>3. QED
        BY <4>1, <4>2
    <3>2. \A l \in Listeners : Owns(e, l)' => l = a
      BY <2>5, <3>1
    <3>3. gitRepos[e] = None /\ del[e] \notin {"signal", "forget"}
      BY <1>0, <2>1, <2>9 DEF OwnerExists
    <3>4. ASSUME NEW c \in Inits, Pending(c)' PROVE e \notin todo'[c]
      BY <2>1, <2>7, <2>9, <3>4 DEF Pending, InFlight
    <3>5. SoleOwner(e)'
      BY <2>1, <3>2, <3>3 DEF SoleOwner
    <3>6. OwnerExists(e)'
      BY <2>1, <2>9, <3>3, <3>4 DEF OwnerExists
    <3>7. QED
      BY <3>5, <3>6
  <2>10. QED
    BY <2>8, <2>9
<1>2. CASE DeleteArrives(f)
  <2>1. /\ f \in present /\ del'[f] = "signal"
        /\ \A g \in Envs : g # f => del'[g] = del[g]
        /\ UNCHANGED <<init, initialized, listener, todo, cur, syncLoop, syncTok,
                      closed, gitRepos, present, process>>
    BY <1>2 DEF DeleteArrives, procVars
  <2>2. \A l \in Listeners : (Pending(l)' <=> Pending(l)) /\ (Owns(e, l)' <=> Owns(e, l))
    BY <2>1 DEF Pending, Owns, At, Active, LiveLoops, Told
  <2>3. CASE e # f
    BY <2>1, <2>2, <2>3, FewerOwners
  <2>4. CASE e = f
    <3>1. SoleOwner(e)'
      BY <1>0, <2>1, <2>2 DEF SoleOwner
    <3>2. OwnerExists(e)'
      BY <1>0, <2>1, <2>2, <2>4 DEF OwnerExists
    <3>3. QED
      BY <3>1, <3>2
  <2>5. QED
    BY <2>3, <2>4
<1>3. CASE DeleteSignals(f)
  <2>1. /\ del[f] = "signal" /\ del'[f] = "forget"
        /\ \A g \in Envs : g # f => del'[g] = del[g]
        /\ UNCHANGED <<init, initialized, listener, todo, cur, syncLoop,
                      closed, gitRepos, present>>
    BY <1>3 DEF DeleteSignals
  <2>2. \/ gitRepos[f] = None /\ ~Running'
        \/ gitRepos[f] # None /\ <<f, gitRepos[f]>> \in syncTok'
    BY <1>3 DEF DeleteSignals, Crash, Running
  <2>3. syncTok \subseteq syncTok'
    BY <1>3 DEF DeleteSignals
  <2>4. \A l \in Listeners : Pending(l)' <=> Pending(l)
    BY <2>1 DEF Pending
  <2>5. LiveLoops' = LiveLoops /\ Active' = Active
    BY <2>1 DEF LiveLoops, Active
  <2>6. Told \subseteq Told'
    BY <2>1, <2>3, <2>5 DEF Told
  <2>7. \A l \in Listeners : Owns(e, l)' => Owns(e, l)
    BY <2>1, <2>4, <2>5, <2>6 DEF Owns, At
  <2>8. CASE e # f
    BY <2>1, <2>4, <2>7, <2>8, FewerOwners
  <2>9. CASE e = f
    <3>1. SoleOwner(e)'
      BY <1>0, <2>1, <2>7 DEF SoleOwner
    <3>2. e \in present /\ \A c \in Inits : Pending(c) => e \notin todo[c]
      BY <1>0, <2>1, <2>9 DEF OwnerExists
    <3>3. ASSUME gitRepos[f] # None, NEW l \in Listeners, Owns(e, l)' PROVE FALSE
      <4>1. Owns(e, l) /\ l = gitRepos[e]
        BY <1>0, <2>7, <2>9, <3>3 DEF SoleOwner
      <4>2. syncLoop[<<e, l>>] # "none"
        BY <2>9, <3>3, <4>1 DEF FreshInv, LoopStartedInv
      <4>3. e \notin todo[l] /\ ~At(l, e)
        BY <4>2 DEF FreshInv, VisitInv
      <4>4. <<e, l>> \in LiveLoops' \ Told'
        BY <2>1, <3>3, <4>3 DEF Owns, At
      <4>5. QED
        BY <2>2, <2>9, <3>3, <4>1, <4>4 DEF Told
    <3>4. OwnerExists(e)'
      <4>1. e \in present' /\ \A c \in Inits : ~(Pending(c)' /\ e \in todo'[c])
        BY <2>1, <2>4, <3>2
      <4>2. Running' => \A l \in Listeners : ~Owns(e, l)'
        BY <2>2, <3>3
      <4>3. QED
        BY <4>1, <4>2 DEF OwnerExists
    <3>5. QED
      BY <3>1, <3>4
  <2>10. QED
    BY <2>8, <2>9
<1>4. CASE DeleteForgets(f)
  <2>1. /\ del[f] = "forget" /\ del'[f] = "done"
        /\ \A g \in Envs : g # f => gitRepos'[g] = gitRepos[g] /\ del'[g] = del[g]
        /\ gitRepos'[f] = None /\ present' = present \ {f}
        /\ UNCHANGED <<init, initialized, listener, todo, cur, syncLoop, syncTok,
                      closed>>
    BY <1>4 DEF DeleteForgets
  <2>2. \A l \in Listeners : (Pending(l)' <=> Pending(l)) /\ (Owns(e, l)' <=> Owns(e, l))
    BY <2>1 DEF Pending, Owns, At, Active, LiveLoops, Told
  <2>3. CASE e # f
    BY <2>1, <2>2, <2>3, FewerOwners
  <2>4. CASE e = f
    <3>1. e \in present /\ \A l \in Listeners : ~Owns(e, l)
      BY <1>0, <2>1, <2>4 DEF OwnerExists
    <3>2. \A c \in Inits : Pending(c) => e \notin todo[c]
      BY <1>0, <3>1 DEF OwnerExists
    <3>3. SoleOwner(e)'
      BY <2>2, <3>1 DEF SoleOwner
    <3>4. OwnerExists(e)'
      BY <2>1, <2>2, <2>4, <3>1, <3>2 DEF OwnerExists
    <3>5. QED
      BY <3>3, <3>4
  <2>5. QED
    BY <2>3, <2>4
<1>5. QED
  BY <1>1, <1>2, <1>3, <1>4

\* And the listeners: one at an environment was its owner already.
LEMMA ListenOwnerInv ==
  ASSUME TypeOK, FreshInv, OwnerInv, Running, NEW l \in Listeners, ListenStep(l)
  PROVE  OwnerInv'
<1> SUFFICES ASSUME NEW e \in Envs PROVE SoleOwner(e)' /\ OwnerExists(e)'
  BY DEF OwnerInv
<1> USE LifecycleAssumption DEF LifecycleAssumption, Goes, TypeOK,
    ListenStates, flagVars, mapVars, slotVars, listenVars, syncVars, cmdVars
<1>0. OwnerExists(e) /\ SoleOwner(e)
  BY DEF OwnerInv
<1>1. /\ UNCHANGED <<init, initialized, syncTok, closed, present, del>>
      /\ listener[l] \notin {"none", "done"}
      /\ \A m \in Listeners : m # l => /\ listener'[m] = listener[m]
                                       /\ cur'[m] = cur[m] /\ todo'[m] = todo[m]
  BY DEF ListenStep, ListenStarts, ListenStartsInterval, ListenChecks,
     ListenPuts, ListenAcquires, ListenFinishes
<1>2. ~Pending(l) /\ l \in Active
  BY <1>1 DEF Pending, FreshInv, UnstartedInv, Active
<1>3. \A m \in Listeners : Pending(m)' <=> Pending(m)
  BY <1>1 DEF Pending
<1>4. \A c \in Inits : Pending(c)' => Pending(c) /\ todo'[c] = todo[c]
  BY <1>1, <1>2, <1>3 DEF Listeners
<1>5. CASE ~ListenAcquires(l)
  <2>1. UNCHANGED <<syncLoop, gitRepos>>
    BY <1>5 DEF ListenStep, ListenStarts, ListenStartsInterval, ListenChecks,
       ListenPuts, ListenFinishes
  <2>2. LiveLoops' = LiveLoops /\ Told' = Told
    BY <1>1, <2>1 DEF LiveLoops, Told
  <2>3. \A m \in Listeners : m # l => (Owns(e, m)' <=> Owns(e, m))
    BY <1>1, <1>3, <2>2 DEF Owns, At, Active
  <2>4. /\ l \in Active' /\ e \in todo'[l] => e \in todo[l]
        /\ At(l, e)' => e \in todo[l] \/ At(l, e)
    <3>1. CASE ListenStarts(l) \/ ListenStartsInterval(l) \/ ListenFinishes(l)
      BY <3>1 DEF ListenStarts, ListenStartsInterval, ListenFinishes, Active, At
    <3>2. CASE ListenPuts(l)
      BY <3>2 DEF ListenPuts, At
    <3>3. ASSUME NEW f \in Envs, ListenChecks(l, f)
          PROVE  /\ l \in Active' /\ e \in todo'[l] => e \in todo[l]
                 /\ At(l, e)' => e \in todo[l] \/ At(l, e)
      BY <3>3 DEF ListenChecks, At
    <3>4. QED
      BY <1>5, <3>1, <3>2, <3>3 DEF ListenStep
  <2>5. Owns(e, l)' => Owns(e, l)
    BY <1>2, <1>3, <2>2, <2>4 DEF Owns
  <2>6. QED
    BY <1>1, <1>3, <1>4, <2>1, <2>3, <2>5, FewerOwners
<1>6. CASE ListenAcquires(l)
  <2>1. /\ listener[l] = "slot" /\ listener'[l] = "range" /\ cur[l] \in Envs
        /\ todo' = todo
        /\ gitRepos'[e] = IF e = cur[l] THEN l ELSE gitRepos[e]
        /\ \A w \in Watches : w # <<cur[l], l>> => syncLoop'[w] = syncLoop[w]
    BY <1>6 DEF ListenAcquires, FreshInv, VisitInv
  <2>2. ASSUME NEW m \in Listeners, m # l \/ e # cur[l]
        PROVE  /\ <<e, m>> \in LiveLoops' <=> <<e, m>> \in LiveLoops
               /\ <<e, m>> \in Told' <=> <<e, m>> \in Told
    <3>1. <<e, m>> \in Watches /\ syncLoop'[<<e, m>>] = syncLoop[<<e, m>>]
      BY <2>1, <2>2 DEF Watches
    <3>2. QED
      BY <1>1, <3>1 DEF LiveLoops, Told
  <2>3. \A m \in Listeners : m # l => (Owns(e, m)' <=> Owns(e, m))
    BY <1>1, <1>3, <2>2 DEF Owns, At, Active
  <2>4. ~At(l, e)' /\ l \in Active'
    BY <2>1 DEF At, Active
  <2>5. CASE e # cur[l]
    <3>1. Owns(e, l)' => Owns(e, l)
      BY <1>2, <1>3, <2>1, <2>2, <2>4, <2>5 DEF Owns
    <3>2. QED
      BY <1>1, <1>3, <1>4, <2>1, <2>3, <2>5, <3>1, FewerOwners
  <2>6. CASE e = cur[l]
    <3>1. Owns(e, l)
      BY <2>1, <2>6 DEF Owns, At
    <3>2. \A m \in Listeners : Owns(e, m)' => m = l
      BY <1>0, <2>3, <3>1 DEF SoleOwner
    <3>3. gitRepos'[e] = l
      BY <2>1, <2>6
    <3>4. e \in present /\ del[e] # "forget"
      BY <1>0, <1>2, <3>1 DEF OwnerExists
    <3>5. \A c \in Inits : ~(Pending(c) /\ e \in todo[c])
      BY <1>0, <3>4 DEF OwnerExists
    <3>6. SoleOwner(e)'
      BY <3>2, <3>3 DEF SoleOwner
    <3>7. OwnerExists(e)'
      <4>1. e \in present' /\ del'[e] # "forget"
        BY <1>1, <3>4
      <4>2. \A c \in Inits : ~(Pending(c)' /\ e \in todo'[c])
        BY <1>3, <2>1, <3>5 DEF Listeners
      <4>3. QED
        BY <4>1, <4>2 DEF OwnerExists
    <3>8. QED
      BY <3>6, <3>7
  <2>7. QED
    BY <2>5, <2>6
<1>7. QED
  BY <1>5, <1>6

\* The loops, once told, never come back to what they left.
LEMMA LoopOwnerInv ==
  ASSUME TypeOK, OwnerInv, Running, NEW w \in Watches,
         SyncLoopSelects(w) \/ SyncLoopWorks(w) \/ SyncLoopEnds(w)
  PROVE  OwnerInv'
<1> SUFFICES ASSUME NEW e \in Envs PROVE SoleOwner(e)' /\ OwnerExists(e)'
  BY DEF OwnerInv
<1>1. /\ UNCHANGED <<init, initialized, listener, todo, cur, closed, gitRepos,
                    present, del>>
      /\ w \in Told \/ UNCHANGED syncTok
      /\ syncTok' \in {syncTok, syncTok \ {w}}
      /\ \A v \in Watches : syncLoop'[v] \in {"eval", "select"}
                            => syncLoop[v] \in {"eval", "select"}
      /\ ~UNCHANGED syncTok => syncLoop'[w] = "exited"
  BY DEF SyncLoopSelects, SyncLoopWorks, SyncLoopEnds, Goes, TypeOK, Told,
     LiveLoops, flagVars, mapVars, listenVars, cmdVars
<1>2. LiveLoops' \ Told' \subseteq LiveLoops \ Told
  BY <1>1 DEF LiveLoops, Told
<1>3. \A l \in Listeners : Pending(l)' <=> Pending(l)
  BY <1>1 DEF Pending
<1>4. \A l \in Listeners : Owns(e, l)' => Owns(e, l)
  BY <1>1, <1>2, <1>3 DEF Owns, At, Active
<1>5. QED
  BY <1>1, <1>3, <1>4, FewerOwners DEF Listeners

\* Every step keeps OwnerInv.
LEMMA NextOwnerInv ==
  ASSUME MaxInFlight = 1, MaxDrops = 0, TypeOK, CommandInv, StaysUp, UpInv,
         FreshInv, OwnerInv, [Next]_vars
  PROVE  OwnerInv'
<1>1. CASE UNCHANGED vars
  <2>1. UNCHANGED <<ownVars, process>>
    BY <1>1 DEF vars, ownVars, flagVars, mapVars, cmdVars, listenVars,
       repoVars, syncVars, procVars
  <2>2. CASE Running
    BY <2>1, <2>2, OwnFrame
  <2>3. CASE ~Running
    <3>1. ASSUME NEW e \in Envs, NEW l \in Listeners
          PROVE  (Owns(e, l)' <=> Owns(e, l)) /\ (Pending(l)' <=> Pending(l))
      BY <2>1 DEF ownVars, Owns, Pending, Active, At, LiveLoops, Told
    <3>2. ASSUME NEW e \in Envs PROVE SoleOwner(e)' /\ OwnerExists(e)'
      BY <2>1, <2>3, <3>1 DEF OwnerInv, SoleOwner, OwnerExists, ownVars, Running,
         Listeners
    <3>3. QED
      BY <3>2 DEF OwnerInv
  <2>4. QED
    BY <2>2, <2>3
<1>2. CASE Next
  <2> USE DEF flagVars, mapVars, slotVars, cmdVars, listenVars, repoVars,
      syncVars, connVars, procVars
  <2>1. Running
    BY <1>2 DEF Next
  <2>2. ASSUME UNCHANGED ownVars PROVE OwnerInv'
    BY <2>1, <2>2, OwnFrame
  <2>3. ASSUME NEW c \in Inits, InitArrives(c) \/ InitStep(c) \/ InitFails(c)
        PROVE  OwnerInv'
    BY <2>1, <2>3, InitOwnerInv
  <2>4. ASSUME NEW e \in Envs,
               \/ \E a \in Adds : AddArrives(a, e)
               \/ DeleteArrives(e) \/ DeleteSignals(e) \/ DeleteForgets(e)
        PROVE  OwnerInv'
    BY <2>1, <2>4, EnvOwnerInv
  <2>5. ASSUME NEW l \in Listeners, ListenStep(l) PROVE OwnerInv'
    BY <2>1, <2>5, ListenOwnerInv
  <2>6. ASSUME NEW l \in Listeners, IntervalEnds(l) PROVE OwnerInv'
    BY <2>2, <2>6 DEF IntervalEnds, ownVars
  <2>7. ASSUME NEW w \in Watches,
               SyncLoopSelects(w) \/ SyncLoopWorks(w) \/ SyncLoopEnds(w)
        PROVE  OwnerInv'
    BY <2>1, <2>7, LoopOwnerInv
  <2>8. ASSUME NEW w \in Watches, RepoAdvances(w) \/ RepoFails(w) \/ RepoStep(w)
        PROVE  OwnerInv'
    BY <2>2, <2>8 DEF RepoAdvances, RepoFails, RepoStep, RepoRetries,
       RepoReturns, RepoReady, RepoReleases, ownVars
  <2>9. LinkDrops \/ LoopStep => LoopStops
    BY DEF LinkDrops, LoopStep, LoopTests, LoopCloses, LoopClearsRunning,
       LoopClearsInitialized, LoopReconnects, StaysUp
  <2>10. CASE LoopStops \/ ShutdownBegins \/ WorkerStops \/ ProcessExits
    BY <2>2, <2>10 DEF LoopStops, ShutdownBegins, WorkerStops, ProcessExits,
       ownVars
  <2>11. QED
    BY <1>2, <2>3, <2>4, <2>5, <2>6, <2>7, <2>8, <2>9, <2>10 DEF Next
<1>3. QED
  BY <1>1, <1>2

\* A listener at an environment owns it.
LEMMA OwnerSlotIsFree ==
  ASSUME TypeOK, FreshInv, UpInv, OwnerInv
  PROVE  SlotIsFree
<1> SUFFICES ASSUME NEW l \in Listeners, listener[l] = "slot"
             PROVE  /\ \A m \in Listeners : <<cur[l], m>> \notin LiveLoops \ Told
                    /\ <<cur[l], l>> \notin closed
  BY DEF SlotIsFree
<1>1. cur[l] \in Envs /\ Owns(cur[l], l)
  BY DEF FreshInv, VisitInv, Owns, At
<1>2. syncLoop[<<cur[l], l>>] = "none"
  BY <1>1 DEF FreshInv, VisitInv, At
<1>3. ASSUME NEW m \in Listeners, <<cur[l], m>> \in LiveLoops \ Told PROVE FALSE
  <2>1. Owns(cur[l], m)
    BY <1>3 DEF Owns
  <2>2. m = l
    BY <1>1, <2>1 DEF OwnerInv, SoleOwner
  <2>3. QED
    BY <1>2, <1>3, <2>2 DEF LiveLoops
<1>4. QED
  BY <1>3 DEF UpInv

\* OwnerInv holds as long as the connection stays and agent_init commands come
\* one at a time.
LEMMA SpecOwnerInv ==
  ASSUME MaxDrops = 0, MaxInFlight = 1
  PROVE  Spec => [](UpInv /\ OwnerInv)
<1>1. Init => StaysUp /\ UpInv
  BY DEF Init, StaysUp, UpInv
<1>2. Init => OwnerInv
  <2> SUFFICES ASSUME Init, NEW e \in Envs PROVE SoleOwner(e) /\ OwnerExists(e)
    BY DEF OwnerInv
  <2>1. gitRepos[e] = None /\ del[e] = "idle" /\ \A c \in Inits : ~Pending(c)
    BY DEF Init, Pending
  <2>2. \A l \in Listeners : ~Owns(e, l)
    BY <2>1 DEF Init, Owns, Pending, Active, At, LiveLoops, Watches
  <2>3. QED
    BY <2>1, <2>2 DEF SoleOwner, OwnerExists
<1>3. TypeOK /\ CommandInv /\ FreshInv /\ StaysUp /\ UpInv /\ OwnerInv /\ [Next]_vars
        => StaysUp' /\ UpInv' /\ OwnerInv'
  BY NextStaysUp, NextUpInv, NextOwnerInv
<1>4. QED
  BY <1>1, <1>2, <1>3, LifecycleTypeOK, SpecCommandInv, SpecFreshInv, PTL DEF Spec

\* So on one connection a listener finds the slot's environment free.
LEMMA SpecOwnerSlotIsFree ==
  ASSUME MaxDrops = 0, MaxInFlight = 1
  PROVE  Spec => []SlotIsFree
<1>1. TypeOK /\ FreshInv /\ UpInv /\ OwnerInv => SlotIsFree
  BY OwnerSlotIsFree
<1>2. QED
  BY <1>1, LifecycleTypeOK, SpecFreshInv, SpecOwnerInv, PTL

\* The listeners implement Watches, with any number of disconnects as long as
\* the service only sends agent_init, and with add_env and delete_env in any
\* order on one connection; agent_init commands come one at a time.
THEOREM SpecImplementsWatches ==
  ASSUME MaxInFlight = 1, MaxDrops = 0 \/ (Adds = {} /\ Deletes = {})
  PROVE  Spec => ImplementsWatches
<1>1. Spec => []SlotIsFree
  BY SpecGenerationSlotIsFree, SpecOwnerSlotIsFree
<1>2. TypeOK /\ FreshInv /\ SlotIsFree /\ [Next]_vars
        => [WatchesRef!WatchesNext]_(WatchesRef!watchesVars)
  BY StepImplementsWatches
<1>3. QED
  BY <1>1, <1>2, InitImplementsWatches, LifecycleTypeOK, SpecFreshInv, PTL
     DEF Spec, ImplementsWatches, WatchesRef!WatchesSpec

-----------------------------------------------------------------------------
\* On one connection too the mirror in the map is that of the loop that
\* follows the environment untold.
OwnRepoInv == \A w \in LiveLoops \ Told : gitRepos[w[1]] = w[2]

\* Only a listener that is granted a slot starts a loop, and only delete_env
\* takes a mirror out, after it has told the loop.
LEMMA NextOwnRepoInv ==
  ASSUME TypeOK, FreshInv, UpInv, UpInv', OwnerInv, OwnRepoInv, [Next]_vars
  PROVE  OwnRepoInv'
<1> USE DEF Goes, TypeOK, OwnRepoInv, LiveLoops, Told, flagVars, mapVars,
    slotVars, cmdVars, listenVars, repoVars, syncVars, connVars, procVars
<1>1. ASSUME UNCHANGED gitRepos, LiveLoops' \ Told' \subseteq LiveLoops \ Told
      PROVE  OwnRepoInv'
  BY <1>1
<1>2. ASSUME UNCHANGED <<gitRepos, syncLoop, syncTok>>
      PROVE  OwnRepoInv'
  <2>1. closed' = closed
    BY DEF UpInv
  <2>2. QED
    BY <1>2, <2>1
<1>3. ASSUME NEW c \in Inits, InitArrives(c) \/ InitStep(c) \/ InitFails(c)
      PROVE  OwnRepoInv'
  BY <1>2, <1>3 DEF InitArrives, InitStep, InitFails, InitLocks, InitSkips,
     InitBegins, InitSucceeds, InitUnlocks, InitFlags
<1>4. ASSUME NEW e \in Envs, \/ \E a \in Adds : AddArrives(a, e)
                             \/ DeleteArrives(e)
      PROVE  OwnRepoInv'
  BY <1>2, <1>4 DEF AddArrives, DeleteArrives
<1>5. ASSUME NEW e \in Envs, DeleteSignals(e) PROVE OwnRepoInv'
  <2>1. UNCHANGED <<gitRepos, syncLoop, closed>> /\ syncTok \subseteq syncTok'
    BY <1>5 DEF DeleteSignals
  <2>2. QED
    BY <1>1, <2>1
<1>6. ASSUME NEW e \in Envs, DeleteForgets(e), Running PROVE OwnRepoInv'
  <2>1. /\ del[e] = "forget" /\ UNCHANGED <<syncLoop, syncTok, closed>>
        /\ \A f \in Envs : f # e => gitRepos'[f] = gitRepos[f]
    BY <1>6 DEF DeleteForgets
  <2>2. \A l \in Listeners : <<e, l>> \notin LiveLoops \ Told
    BY <1>6, <2>1 DEF OwnerInv, OwnerExists, Owns
  <2>3. \A w \in Watches : w[1] \in Envs /\ w[2] \in Listeners /\ w = <<w[1], w[2]>>
    BY DEF Watches
  <2>4. \A w \in LiveLoops \ Told : w[1] # e
    BY <2>2, <2>3
  <2>5. QED
    BY <2>1, <2>3, <2>4
<1>7. ASSUME NEW l \in Listeners, ListenAcquires(l), Running PROVE OwnRepoInv'
  <2>1. /\ cur[l] \in Envs /\ UNCHANGED <<syncTok, closed>>
        /\ \A f \in Envs : gitRepos'[f] = IF f = cur[l] THEN l ELSE gitRepos[f]
        /\ \A w \in Watches : w # <<cur[l], l>> => syncLoop'[w] = syncLoop[w]
    BY <1>7 DEF ListenAcquires, FreshInv, VisitInv
  <2>2. SlotIsFree /\ listener[l] = "slot"
    BY <1>7, OwnerSlotIsFree DEF ListenAcquires
  <2>3. ASSUME NEW w \in LiveLoops', w \notin Told' PROVE gitRepos'[w[1]] = w[2]
    <3>1. w[1] \in Envs /\ w[2] \in Listeners /\ w = <<w[1], w[2]>>
      BY DEF Watches
    <3>2. CASE w = <<cur[l], l>>
      BY <2>1, <3>2
    <3>3. CASE w # <<cur[l], l>>
      <4>1. w \in LiveLoops \ Told
        <5>1. w \in Watches /\ syncLoop'[w] \in {"eval", "select"}
          OBVIOUS
        <5>2. syncLoop[w] \in {"eval", "select"}
          BY <2>1, <3>3, <5>1
        <5>3. w \notin closed /\ w \notin syncTok
          BY <2>1, <2>3
        <5>4. QED
          BY <5>1, <5>2, <5>3
      <4>2. w[1] # cur[l]
        <5>1. \A m \in Listeners : w # <<cur[l], m>>
          BY <2>2, <4>1 DEF SlotIsFree
        <5>2. QED
          BY <3>1, <5>1
      <4>3. QED
        BY <2>1, <3>1, <4>1, <4>2
    <3>4. QED
      BY <3>2, <3>3
  <2>4. QED
    BY <2>3
<1>8. ASSUME NEW l \in Listeners, ListenStep(l) \/ IntervalEnds(l),
             ~ListenAcquires(l)
      PROVE  OwnRepoInv'
  BY <1>2, <1>8 DEF ListenStep, ListenStarts, ListenStartsInterval,
     ListenChecks, ListenPuts, ListenFinishes, IntervalEnds
<1>9. ASSUME NEW w \in Watches, RepoAdvances(w) \/ RepoFails(w) \/ RepoStep(w)
      PROVE  OwnRepoInv'
  BY <1>2, <1>9 DEF RepoAdvances, RepoFails, RepoStep, RepoRetries,
     RepoReturns, RepoReady, RepoReleases
<1>10. ASSUME NEW w \in Watches,
              SyncLoopSelects(w) \/ SyncLoopWorks(w) \/ SyncLoopEnds(w)
       PROVE  OwnRepoInv'
  <2>1. /\ UNCHANGED <<gitRepos, closed>>
        /\ \/ syncTok' = syncTok
           \/ syncTok' = syncTok \ {w} /\ syncLoop'[w] = "exited"
        /\ \A v \in Watches : syncLoop'[v] \in {"eval", "select"}
                              => syncLoop[v] \in {"eval", "select"}
    BY <1>10 DEF SyncLoopSelects, SyncLoopWorks, SyncLoopEnds
  <2>2. ASSUME NEW v \in LiveLoops', v \notin Told' PROVE v \in LiveLoops \ Told
    <3>2. syncLoop[v] \in {"eval", "select"}
      BY <2>1
    <3>3. v \notin closed /\ v \notin syncTok
      BY <2>1, <2>2
    <3>4. QED
      BY <3>2, <3>3
  <2>3. QED
    BY <1>1, <2>1, <2>2
<1>11. CASE LinkDrops \/ LoopStep
  BY <1>2, <1>11 DEF LinkDrops, LoopStep, LoopTests, LoopCloses,
     LoopClearsRunning, LoopClearsInitialized, LoopReconnects, LoopStops
<1>12. CASE ShutdownBegins \/ WorkerStops \/ ProcessExits \/ UNCHANGED vars
  BY <1>2, <1>12 DEF ShutdownBegins, WorkerStops, ProcessExits, vars
<1> HIDE DEF OwnRepoInv
<1>13. QED
  BY <1>3, <1>4, <1>5, <1>6, <1>7, <1>8, <1>9, <1>10, <1>11, <1>12 DEF Next

\* Under the same conditions a loop that has not been told to stop works on the
\* mirror its own listener put into gitRepos.
THEOREM SpecLoopUsesItsRepo ==
  ASSUME MaxInFlight = 1, MaxDrops = 0 \/ (Adds = {} /\ Deletes = {})
  PROVE  Spec => []LoopUsesItsRepo
<1>1. CASE Adds = {} /\ Deletes = {}
  <2>1. GenerationInv => LoopUsesItsRepo
    BY DEF GenerationInv, WatchInv
  <2>2. QED
    BY <1>1, <2>1, SpecGenerationInv, PTL
<1>2. CASE MaxDrops = 0
  <2>1. Init => OwnRepoInv
    BY DEF Init, OwnRepoInv, LiveLoops
  <2>2. TypeOK /\ FreshInv /\ UpInv /\ UpInv' /\ OwnerInv /\ OwnRepoInv /\ [Next]_vars
          => OwnRepoInv'
    BY NextOwnRepoInv
  <2>3. OwnRepoInv => LoopUsesItsRepo
    BY DEF OwnRepoInv, LoopUsesItsRepo, Told
  <2>4. QED
    BY <1>2, <2>1, <2>2, <2>3, LifecycleTypeOK, SpecFreshInv, SpecOwnerInv, PTL
       DEF Spec
<1>3. QED
  BY <1>1, <1>2
-----------------------------------------------------------------------------
\* On one connection the stop channel in the map is that of the loop that
\* follows the environment untold, add_env and delete_env included; already when
\* its listener waits for the slot.
LoopsCanBeTold == \A w \in LiveLoops \ Told : stopMap[w[1]] = w[2]

StopInv ==
  /\ LoopsCanBeTold
  /\ \A l \in Listeners : listener[l] = "slot" => stopMap[cur[l]] = l

\* Only a listener that puts its channel replaces one, and it is alone with the
\* environment; delete_env takes out the channel of a loop that has been told.
LEMMA NextStopInv ==
  ASSUME TypeOK, FreshInv, StaysUp, UpInv, UpInv', OwnerInv, StopInv, [Next]_vars
  PROVE  StopInv'
<1> USE DEF Goes, TypeOK, StopInv, LoopsCanBeTold, LiveLoops, Told, flagVars,
    mapVars, slotVars, cmdVars, listenVars, repoVars, syncVars, connVars, procVars
<1>w. \A w \in Watches : w[1] \in Envs /\ w[2] \in Listeners /\ w = <<w[1], w[2]>>
  BY DEF Watches
<1>k. Envs \subseteq Keys /\ Interval \notin Envs
  BY LifecycleAssumption DEF Keys
<1>v. \A l \in Listeners : listener[l] = "slot" => cur[l] \in Envs /\ At(l, cur[l])
  BY DEF FreshInv, VisitInv, At
<1>1. ASSUME LiveLoops' \ Told' \subseteq LiveLoops \ Told,
             \A l \in Listeners : listener'[l] = "slot" =>
               listener[l] = "slot" /\ cur'[l] = cur[l],
             \A e \in Envs : stopMap'[e] = stopMap[e]
      PROVE  StopInv'
  <2>1. \A w \in LiveLoops' \ Told' : w[1] \in Envs
    BY <1>w
  <2>2. QED
    BY <1>1, <1>v, <2>1
<1>2. ASSUME UNCHANGED <<syncLoop, syncTok>>,
             \A l \in Listeners : listener'[l] = "slot" =>
               listener[l] = "slot" /\ cur'[l] = cur[l],
             \A e \in Envs : stopMap'[e] = stopMap[e]
      PROVE  StopInv'
  <2>1. closed' = closed
    BY DEF UpInv
  <2>2. LiveLoops' \ Told' \subseteq LiveLoops \ Told
    BY <1>2, <2>1
  <2>3. QED
    BY <1>1, <1>2, <2>2
<1>3. ASSUME NEW c \in Inits, InitArrives(c) \/ InitStep(c) \/ InitFails(c)
      PROVE  StopInv'
  <2>1. /\ UNCHANGED <<syncLoop, syncTok, stopMap, cur>>
        /\ \A l \in Listeners : listener'[l] = "slot" => listener[l] = "slot"
    BY <1>3 DEF InitArrives, InitStep, InitFails, InitLocks, InitSkips,
       InitBegins, InitSucceeds, InitUnlocks, InitFlags
  <2>2. QED
    BY <1>2, <2>1
<1>4. ASSUME NEW e \in Envs, \/ \E a \in Adds : AddArrives(a, e)
                             \/ DeleteArrives(e)
      PROVE  StopInv'
  BY <1>2, <1>4 DEF AddArrives, DeleteArrives
<1>5. ASSUME NEW e \in Envs, DeleteSignals(e) PROVE StopInv'
  <2>1. /\ UNCHANGED <<stopMap, listener, cur, syncLoop, closed>>
        /\ syncTok \subseteq syncTok'
    BY <1>5 DEF DeleteSignals
  <2>2. QED
    BY <1>1, <2>1
<1>6. ASSUME NEW e \in Envs, DeleteForgets(e), Running PROVE StopInv'
  <2>1. /\ del[e] = "forget" /\ UNCHANGED <<syncLoop, syncTok, closed, listener, cur>>
        /\ \A f \in Envs : f # e => stopMap'[f] = stopMap[f]
    BY <1>6, <1>k DEF DeleteForgets
  <2>2. \A l \in Listeners : ~Owns(e, l)
    BY <1>6, <2>1 DEF OwnerInv, OwnerExists, Owns, Pending, Active, At
  <2>3. \A w \in LiveLoops \ Told : w[1] # e
    BY <1>w, <2>2 DEF Owns
  <2>4. \A l \in Listeners : listener[l] = "slot" => cur[l] # e
    BY <1>v, <2>2 DEF Owns
  <2>5. QED
    BY <1>w, <1>v, <2>1, <2>3, <2>4
<1>7. ASSUME NEW l \in Listeners, ListenStartsInterval(l) \/ ListenStarts(l)
      PROVE  StopInv'
  BY <1>2, <1>7, <1>k DEF ListenStartsInterval, ListenStarts
<1>8. ASSUME NEW l \in Listeners, ListenPuts(l), Running PROVE StopInv'
  <2>1. /\ At(l, cur[l]) /\ cur[l] \in Envs
        /\ UNCHANGED <<syncLoop, syncTok, closed, cur>>
        /\ stopMap' = [stopMap EXCEPT ![cur[l]] = l]
        /\ \A m \in Listeners : m # l => listener'[m] = listener[m]
    BY <1>8 DEF ListenPuts, FreshInv, VisitInv, At
  <2>2. \A m \in Listeners : Owns(cur[l], m) => m = l
    BY <2>1 DEF OwnerInv, SoleOwner, Owns
  <2>3. \A w \in LiveLoops \ Told : w[1] = cur[l] => w[2] = l
    BY <1>w, <2>2 DEF Owns
  <2>4. \A m \in Listeners : listener[m] = "slot" /\ cur[m] = cur[l] => m = l
    BY <1>v, <2>2 DEF Owns
  <2>5. \A e \in Envs : stopMap'[e] = IF e = cur[l] THEN l ELSE stopMap[e]
    BY <1>k, <2>1
  <2>6. \A w \in LiveLoops' \ Told' : stopMap'[w[1]] = w[2]
    BY <1>w, <2>1, <2>3, <2>5
  <2>7. \A m \in Listeners : listener'[m] = "slot" => stopMap'[cur'[m]] = m
    BY <1>v, <2>1, <2>4, <2>5
  <2>8. QED
    BY <2>6, <2>7
<1>9. ASSUME NEW l \in Listeners, ListenAcquires(l) PROVE StopInv'
  <2>1. /\ stopMap[cur[l]] = l /\ cur[l] \in Envs
        /\ UNCHANGED <<stopMap, syncTok, closed>>
        /\ \A w \in Watches : w # <<cur[l], l>> => syncLoop'[w] = syncLoop[w]
        /\ \A m \in Listeners : listener'[m] = "slot" =>
             listener[m] = "slot" /\ cur'[m] = cur[m]
    BY <1>9, <1>v DEF ListenAcquires
  <2>2. ASSUME NEW w \in LiveLoops' \ Told' PROVE stopMap'[w[1]] = w[2]
    <3>1. CASE w = <<cur[l], l>>
      BY <2>1, <3>1
    <3>2. CASE w # <<cur[l], l>>
      BY <1>w, <2>1, <3>2
    <3>3. QED
      BY <3>1, <3>2
  <2>3. QED
    BY <2>1, <2>2
<1>10. ASSUME NEW l \in Listeners,
              \/ \E e \in Envs : ListenChecks(l, e)
              \/ ListenFinishes(l) \/ IntervalEnds(l)
       PROVE  StopInv'
  BY <1>2, <1>10 DEF ListenChecks, ListenFinishes, IntervalEnds
<1>11. ASSUME NEW w \in Watches, RepoAdvances(w) \/ RepoFails(w) \/ RepoStep(w)
       PROVE  StopInv'
  BY <1>2, <1>11 DEF RepoAdvances, RepoFails, RepoStep, RepoRetries,
     RepoReturns, RepoReady, RepoReleases
<1>12. ASSUME NEW w \in Watches,
              SyncLoopSelects(w) \/ SyncLoopWorks(w) \/ SyncLoopEnds(w)
       PROVE  StopInv'
  <2>1. /\ UNCHANGED <<stopMap, listener, cur, closed>>
        /\ \/ syncTok' = syncTok
           \/ syncTok' = syncTok \ {w} /\ syncLoop'[w] = "exited"
        /\ \A v \in Watches : syncLoop'[v] \in {"eval", "select"}
                              => syncLoop[v] \in {"eval", "select"}
    BY <1>12 DEF SyncLoopSelects, SyncLoopWorks, SyncLoopEnds
  <2>2. ASSUME NEW v \in LiveLoops', v \notin Told' PROVE v \in LiveLoops \ Told
    <3>1. syncLoop[v] \in {"eval", "select"}
      BY <2>1
    <3>2. v \notin closed /\ v \notin syncTok
      BY <2>1, <2>2
    <3>3. QED
      BY <3>1, <3>2
  <2>3. QED
    BY <1>1, <2>1, <2>2
<1>13. CASE LinkDrops \/ LoopStep
  <2>1. UNCHANGED <<stopMap, listener, cur, syncLoop, syncTok>>
    BY <1>13 DEF LinkDrops, LoopStep, LoopTests, LoopCloses, LoopClearsRunning,
       LoopClearsInitialized, LoopReconnects, LoopStops, StaysUp
  <2>2. QED
    BY <1>2, <2>1
<1>14. CASE ShutdownBegins \/ WorkerStops \/ ProcessExits \/ UNCHANGED vars
  BY <1>2, <1>14 DEF ShutdownBegins, WorkerStops, ProcessExits, vars
<1> HIDE DEF StopInv, LoopsCanBeTold
<1>15. QED
  BY <1>3, <1>4, <1>5, <1>6, <1>7, <1>8, <1>9, <1>10, <1>11, <1>12, <1>13, <1>14
     DEF Next, ListenStep

\* A loop that has not been told to stop can be: the stop channel it waits for
\* is the one the Loop will close.  Of NoOrphans that is the part about the
\* loops; the goroutine of the timers can be started twice beside an add_env.
THEOREM SpecLoopsCanBeTold ==
  ASSUME MaxInFlight = 1, MaxDrops = 0 \/ (Adds = {} /\ Deletes = {})
  PROVE  Spec => []LoopsCanBeTold
<1>1. CASE Adds = {} /\ Deletes = {}
  <2>1. NoOrphans => LoopsCanBeTold
    BY DEF NoOrphans, LoopsCanBeTold, Told
  <2>2. QED
    BY <1>1, <2>1, SpecNoOrphans, PTL
<1>2. CASE MaxDrops = 0
  <2>1. Init => StopInv
    BY DEF Init, StopInv, LoopsCanBeTold, LiveLoops
  <2>2. Init => StaysUp
    BY DEF Init, StaysUp
  <2>3. StaysUp /\ [Next]_vars => StaysUp'
    BY <1>2, NextStaysUp
  <2>4. TypeOK /\ FreshInv /\ StaysUp /\ UpInv /\ UpInv' /\ OwnerInv /\ StopInv
          /\ [Next]_vars => StopInv'
    BY NextStopInv
  <2>5. StopInv => LoopsCanBeTold
    BY DEF StopInv
  <2>6. QED
    BY <1>2, <2>1, <2>2, <2>3, <2>4, <2>5, LifecycleTypeOK, SpecFreshInv,
       SpecOwnerInv, PTL DEF Spec
<1>3. QED
  BY <1>1, <1>2
=============================================================================
