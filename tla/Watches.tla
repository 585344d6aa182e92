------------------------------ MODULE Watches ------------------------------
(***************************************************************************)
(* What pkg/gitops promises about who follows an environment.  A listener  *)
(* takes an environment over only while nobody follows it, follows it      *)
(* until it is told to stop, and ends for no other reason; it never takes  *)
(* the environment again.  Those told to stop may take their time.         *)
(***************************************************************************)
CONSTANTS Envs, Listeners

VARIABLES  \* sets of pairs <<environment, listener>>:
  following,  \* whose goroutines follow the environment
  leaving,    \* told to stop and still at work
  left        \* history: those that have ended

watchesVars == <<following, leaving, left>>

WatchesInit == following = {} /\ leaving = {} /\ left = {}

TakesOver(e, l) ==
  /\ \A m \in Listeners : <<e, m>> \notin following
  /\ <<e, l>> \notin leaving \cup left
  /\ following' = following \cup {<<e, l>>}
  /\ UNCHANGED <<leaving, left>>

\* By the loss of the connection, or by delete_env.
IsTold(w) ==
  /\ w \in following
  /\ following' = following \ {w}
  /\ leaving' = leaving \cup {w}
  /\ UNCHANGED left

Ends(w) ==
  /\ w \in leaving
  /\ leaving' = leaving \ {w}
  /\ left' = left \cup {w}
  /\ UNCHANGED following

WatchesNext ==
  \/ \E e \in Envs, l \in Listeners : TakesOver(e, l)
  \/ \E w \in Envs \X Listeners : IsTold(w) \/ Ends(w)

WatchesSpec == WatchesInit /\ [][WatchesNext]_watchesVars
=============================================================================
