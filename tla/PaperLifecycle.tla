--------------------------- MODULE PaperLifecycle ---------------------------
(***************************************************************************)
(* What the ingestion pipeline promises a client that polls                *)
(* GET /papers/:id: a paper row is created as "processing", it is shown as *)
(* "ready" only once one whole extraction of its PDF is stored, and - when *)
(* SettledIsFinal - its outcome is written once.  Ingestion implements     *)
(* this specification; the name of the code's parts live there.            *)
(***************************************************************************)
CONSTANTS Papers,          \* paper ids
          SettledIsFinal   \* a Boolean: TRUE when "ready" and "failed" are never rewritten

VARIABLES status,     \* status[p]: the column papers.status, "none" without a row
          complete    \* papers of which one whole extraction is in paper_chunks

lifeVars == <<status, complete>>

Settled == {"ready", "failed"}

Init == /\ status = [p \in Papers |-> "none"]
        /\ complete = {}

(* The upload created the row. *)
Accept(p) == /\ status[p] = "none"
             /\ status' = [status EXCEPT ![p] = "processing"]
             /\ UNCHANGED complete

(* The last chunk of some extraction of p was stored. *)
Complete(p) == /\ status[p] # "none"
               /\ complete' = complete \union {p}
               /\ UNCHANGED status

Settle(p, s) == /\ status[p] # "none"
                /\ SettledIsFinal => status[p] = "processing"
                /\ s = "ready" => p \in complete
                /\ status' = [status EXCEPT ![p] = s]
                /\ UNCHANGED complete

Next == \E p \in Papers : \/ Accept(p)
                          \/ Complete(p)
                          \/ \E s \in Settled : Settle(p, s)

Spec == Init /\ [][Next]_lifeVars
=============================================================================
