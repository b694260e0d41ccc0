---------------------------- MODULE CacheContract ----------------------------
(***************************************************************************)
(* What the persistent cache promises to those who ask it for history      *)
(* (MarketDataCache in src/connector/persistent_cache.rs).  Of one dataset *)
(* it knows some moments and holds some records:                           *)
(*                                                                         *)
(*   - a stretch of time becomes known only together with a record in it;  *)
(*   - knowledge is given up as a whole, never in part;                    *)
(*   - a reply calls a moment covered only if it was known when the        *)
(*     question was put, and brings every record then held of it.          *)
(*                                                                         *)
(* Nothing is said here of buckets, blobs, transactions or downloads; the  *)
(* module MarketCache is shown to implement this one.                      *)
(***************************************************************************)
EXTENDS Integers

CONSTANTS
  LastMoment,  \* the time line is 0..LastMoment
  Records,     \* what may be stored; a record has a field "time"
  Clients      \* who asks

VARIABLES
  known,     \* moments that need no download
  held,      \* records that can be read back
  stage,     \* stage[c]: c is "away", "asking" or "answered"
  moments,   \* moments[c]: what the cache calls covered for c
  records    \* records[c]: the records of c's reply

contractVars == <<known, held, stage, moments, records>>

Moments == 0..LastMoment

At(S) == {r \in Records : r.time \in S}

ContractInit ==
  /\ known = {}
  /\ held = {}
  /\ stage = [c \in Clients |-> "away"]
  /\ moments = [c \in Clients |-> {}]
  /\ records = [c \in Clients |-> {}]

clientVars == <<stage, moments, records>>

(* A page is stored: records, and the stretch of time it answers for.      *)
Learn ==
  /\ \E a, b \in Moments :
        /\ known' = known \cup (a..b)
        /\ held \subseteq held'
        /\ held' \ held \subseteq At(a..b)
        /\ held' \cap At(a..b) # {}
  /\ UNCHANGED clientVars

(* Cleared, invalidated, or the record of what is known is unreadable.     *)
Forget ==
  /\ known' = {}
  /\ held' \subseteq held
  /\ UNCHANGED clientVars

(* A stored record can no longer be read.                                  *)
Lose ==
  /\ held' \subseteq held
  /\ UNCHANGED <<known, clientVars>>

Ask(c) ==
  /\ stage[c] = "away"
  /\ stage' = [stage EXCEPT ![c] = "asking"]
  /\ moments'[c] \subseteq known
  /\ moments' = [moments EXCEPT ![c] = moments'[c]]
  /\ UNCHANGED <<known, held, records>>

Reply(c) ==
  /\ stage[c] = "asking"
  /\ stage' = [stage EXCEPT ![c] = "answered"]
  /\ held \cap At(moments[c]) \subseteq records'[c]
  /\ records'[c] \subseteq held
  /\ records' = [records EXCEPT ![c] = records'[c]]
  /\ UNCHANGED <<known, held, moments>>

(* The reply that knows nothing: everything has to be downloaded.  A blob  *)
(* that was found damaged or missing is given up with all knowledge.       *)
Miss(c) ==
  /\ stage[c] # "answered"
  /\ stage' = [stage EXCEPT ![c] = "answered"]
  /\ moments' = [moments EXCEPT ![c] = {}]
  /\ UNCHANGED records
  /\ \/ UNCHANGED <<known, held>>
     \/ known' = {} /\ held' \subseteq held

Leave(c) ==
  /\ stage' = [stage EXCEPT ![c] = "away"]
  /\ moments' = [moments EXCEPT ![c] = {}]
  /\ records' = [records EXCEPT ![c] = {}]
  /\ UNCHANGED <<known, held>>

(* The program ends; its database may be found unusable when it returns.   *)
Restart ==
  /\ stage' = [c \in Clients |-> "away"]
  /\ moments' = [c \in Clients |-> {}]
  /\ records' = [c \in Clients |-> {}]
  /\ \/ UNCHANGED <<known, held>>
     \/ known' = {} /\ held' = {}

ContractNext ==
  \/ Learn
  \/ Forget
  \/ Lose
  \/ \E c \in Clients : Ask(c) \/ Reply(c) \/ Miss(c) \/ Leave(c)
  \/ Restart

Contract == ContractInit /\ [][ContractNext]_contractVars
=============================================================================
