------------------------ MODULE ReplayPreventionStore ------------------------
(***************************************************************************)
(* The in-memory store of spent transaction ids of payment_verifier.py     *)
(* (class ReplayPreventionStore): a set of used ids and, beside it, the    *)
(* time each id was marked.  The two containers are written separately by  *)
(* the code; is_used reads both and also writes them.                      *)
(*                                                                         *)
(* This module is the class on its own, with every method it offers.       *)
(* PaymentVerifier extends it and uses only the methods the program calls: *)
(* nothing in the backend schedules cleanup_expired.                       *)
(***************************************************************************)
EXTENDS Integers, FiniteSets

CONSTANTS
  Txids,       \* the transaction ids clients may present
  Ttl,         \* ttl_seconds, in ticks of the clock
  MaxTime      \* bound on the clock, for model checking only

ASSUME StoreAssumption == Ttl \in Nat /\ MaxTime \in Nat

VARIABLES
  usedTxids,        \* _used_txids
  txidTimestamps,   \* _txid_timestamps: a dict, here a partial function
  now               \* datetime.now()

storeVars == <<usedTxids, txidTimestamps, now>>

StoreTypeOK ==
  /\ usedTxids \subseteq Txids
  /\ DOMAIN txidTimestamps \subseteq Txids
  /\ txidTimestamps \in [DOMAIN txidTimestamps -> Nat]
  /\ now \in Nat

StoreInit ==
  /\ usedTxids = {}
  /\ txidTimestamps = [x \in {} |-> 0]
  /\ now = 0
-----------------------------------------------------------------------------
Aged(x) == now - txidTimestamps[x] > Ttl

(* is_used: the value it returns ... *)
IsUsed(x) ==
  \/ x \in usedTxids
  \/ x \in DOMAIN txidTimestamps /\ ~Aged(x)

(* ... and what it removes on the way (only when the set does not hold x). *)
Lapsed(x) == x \notin usedTxids /\ x \in DOMAIN txidTimestamps /\ Aged(x)

ForgetAll(S) ==
  /\ usedTxids' = usedTxids \ S
  /\ txidTimestamps' = [y \in DOMAIN txidTimestamps \ S |-> txidTimestamps[y]]
  /\ UNCHANGED now

CheckUsed(x) == ForgetAll({y \in {x} : Lapsed(y)})

(* Fault: mark_used writes the timestamp and forgets the set. *)
MarkUsedInDictOnly(x) ==
  /\ txidTimestamps' = [y \in DOMAIN txidTimestamps \cup {x} |->
                          IF y = x THEN now ELSE txidTimestamps[y]]
  /\ UNCHANGED <<usedTxids, now>>

MarkUsed(x) ==
  /\ usedTxids' = usedTxids \cup {x}
  /\ txidTimestamps' = [y \in DOMAIN txidTimestamps \cup {x} |->
                          IF y = x THEN now ELSE txidTimestamps[y]]
  /\ UNCHANGED now

(* Fault: the clean-up deletes the timestamps and leaves the set alone. *)
CleanupDictOnly ==
  LET kept == {x \in DOMAIN txidTimestamps : ~Aged(x)} IN
  /\ txidTimestamps' = [x \in kept |-> txidTimestamps[x]]
  /\ UNCHANGED <<usedTxids, now>>

CleanupExpired == ForgetAll({x \in DOMAIN txidTimestamps : Aged(x)})

(* Fault: a clock that is set back. *)
TickBack == now' = now - 1 /\ UNCHANGED <<usedTxids, txidTimestamps>>

Tick == now < MaxTime /\ now' = now + 1 /\ UNCHANGED <<usedTxids, txidTimestamps>>

StoreNext ==
  \/ \E x \in Txids : CheckUsed(x) \/ MarkUsed(x)
  \/ CleanupExpired
  \/ Tick

StoreSpec == StoreInit /\ [][StoreNext]_storeVars
-----------------------------------------------------------------------------
(* The set and the dict of timestamps always hold the same ids.  Every     *)
(* method writes both; if one of them forgot to, is_used would fall into   *)
(* its second branch and start expiring ids on its own.                    *)
StoreAgrees == usedTxids = DOMAIN txidTimestamps

(* An id that is_used refuses stays refused until it is older than the TTL *)
(* at the moment it is dropped: neither the passing of time nor a look-up  *)
(* makes a spent id usable again, only cleanup_expired does.               *)
DroppedOnlyWhenAged ==
  [][\A x \in Txids : IsUsed(x) /\ ~IsUsed(x)' => Aged(x) /\ UNCHANGED now]_storeVars
=============================================================================
