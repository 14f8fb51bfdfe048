------------------------------ MODULE Delivery ------------------------------
(***************************************************************************)
(* What the collector promises whoever hands it an observation, whichever  *)
(* way it comes in: the source keeps what it has not been told to let go,  *)
(* and is told so only when all of it is in the ledger.                    *)
(*                                                                         *)
(* Items are what sources hand over: a spool entry, a batch of OTLP        *)
(* records, a line of a session file, a chunk of an old transcript.        *)
(***************************************************************************)
CONSTANTS
  Ids,      \* event identities
  Items,    \* what is handed over
  Parts,    \* the identities an item is normalised to
  Old,      \* items there before the collector first starts
  MayLose   \* items whose source gives up after a while

VARIABLES
  ledger,   \* identities recorded
  held,     \* items their source still holds
  released, \* items let go because they are recorded
  lost      \* items their source gave up

deliveryVars == <<ledger, held, released, lost>>

DeliveryInit == ledger = {} /\ held = Old /\ released = {} /\ lost = {}

Produce(x) ==
  /\ x \notin held \cup released \cup lost
  /\ held' = held \cup {x}
  /\ UNCHANGED <<ledger, released, lost>>

(* A copy on its way may still be recorded after its source gave it up. *)
RecordPart(i) ==
  /\ \E x \in held \cup lost : i \in Parts[x]
  /\ ledger' = ledger \cup {i}
  /\ UNCHANGED <<held, released, lost>>

Release(X) ==
  /\ X \subseteq held
  /\ \A x \in X : Parts[x] \subseteq ledger
  /\ held' = held \ X
  /\ released' = released \cup X
  /\ UNCHANGED <<ledger, lost>>

Lose(x) ==
  /\ x \in held \cap MayLose
  /\ held' = held \ {x}
  /\ lost' = lost \cup {x}
  /\ UNCHANGED <<ledger, released>>

DeliveryNext ==
  \/ \E x \in Items : Produce(x) \/ Lose(x)
  \/ \E i \in Ids : RecordPart(i)
  \/ \E X \in SUBSET Items : Release(X)

DeliverySpec == DeliveryInit /\ [][DeliveryNext]_deliveryVars
=============================================================================
