---------------------------- MODULE MCCloudSync ----------------------------
(* Two sign-ins and two accounts; this machine records 1 and 2, another    *)
(* device 3; uploads and pages of two.                                     *)
EXTENDS CloudSync

CONSTANTS m1, text, none

Prompt == [meta |-> m1, content |-> text]
MCArchive == [i \in Ids |-> IF i = 1 THEN Prompt ELSE None]
MCObservation == [i \in {2} |-> Prompt]
MCOther == [i \in Ids \ {2} |-> IF i = 3 THEN {Mask(Prompt)} ELSE {}]
OneAccount == [d \in Dests |-> CHOOSE s \in Scopes : TRUE]
============================================================================
