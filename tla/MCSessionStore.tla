--------------------------- MODULE MCSessionStore ---------------------------
(***************************************************************************)
(* Where a session is kept, the log and its Redis copy, one per behaviour: *)
(* `part` says which of the two modules moves, the other one stays in its  *)
(* initial state.                                                          *)
(***************************************************************************)
EXTENDS EventLog, SessionCache, TLC

VARIABLE part

StoreInit == part \in {"log", "cache"} /\ Init /\ CacheInit

StoreNext ==
  \/ part = "log" /\ Next /\ UNCHANGED <<part, cacheVars>>
  \/ part = "cache" /\ CacheNext /\ UNCHANGED <<part, vars>>

StoreSpec == StoreInit /\ [][StoreNext]_<<part, vars, cacheVars>>

StoreTypeOK == TypeOK /\ CacheTypeOK

(* Transactions are interchangeable, and so are requests.                  *)
Symmetric == Permutations(Writers) \cup Permutations(Procs)
=============================================================================
