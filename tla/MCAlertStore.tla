---------------------------- MODULE MCAlertStore ----------------------------
(***************************************************************************)
(* The alerts table from two sides, checked side by side: the collectors   *)
(* that fill it and the workers that decode the attachments of its rows.   *)
(* The two share no column beyond the existence of a row, which each       *)
(* module has as its own action.  A behaviour belongs to one of them; the  *)
(* other keeps a state in which nothing of its can happen.  The collectors *)
(* come in two sizes: p1 alone with the events e1 and e2, of which the     *)
(* table refuses e2, and both of them with the event e1 of a target that   *)
(* moves.                                                                  *)
(***************************************************************************)
EXTENDS AlertIngest, CperDecoding

CONSTANTS p1, p2, e1, e2

MCReceives == [p \in Procs |-> IF p = p1 THEN {e1, e2} ELSE {e1}]

VARIABLE side    \* "alone", "both" or "decode"

storeVars == <<side, vars, decodeVars>>

StoreInit == side \in {"alone", "both", "decode"} /\ Init /\ DecodeInit

\* What a collector receives on this side.
Within ==
    /\ side = "alone" => \A p \in Procs \ {p1} : queue'[p] = <<>> /\ window'[p] = 0
    /\ side = "both" => \A k \in handed' : k[2] = e1

StoreNext ==
    \/ side # "decode" /\ Next /\ Within /\ UNCHANGED <<side, decodeVars>>
    \/ side = "decode" /\ DecodeNext /\ UNCHANGED <<side, vars>>

\* The fairness of both modules, asked of the one that runs.  With empty memory
\* no fair action of AlertIngest is enabled.
StoreSpec ==
    /\ StoreInit /\ [][StoreNext]_storeVars
    /\ IngestFair
    /\ WF_decodeVars(TimePasses)
    /\ \A w \in Workers :
          /\ WF_decodeVars(side = "decode" /\ WorkerStep(w))
          /\ SF_decodeVars(side = "decode" /\ Wake(w) /\ at'[w] = "requeue")
=============================================================================
