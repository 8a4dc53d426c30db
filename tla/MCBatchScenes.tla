---------------------------- MODULE MCBatchScenes ----------------------------
(***************************************************************************)
(* The safety of a batch-settlement channel.  A behaviour is about one of  *)
(* two scenes.  In one, two requests with vouchers of two prices share an  *)
(* open channel.  In the other, requests that come one at a time, with one *)
(* reservation between them and chain reads from the slot they began at,   *)
(* meet a claim, a cooperative close, a forced close and its finalizer.    *)
(***************************************************************************)
EXTENDS MCBatch

VARIABLE scene

InScene ==
    \/ /\ scene = "serve"
       /\ clock <= 2 /\ chain.status = "open"
       /\ \A p \in Processes \ Requests : pc[p] = "idle"
    \/ /\ scene = "close"
       /\ crashes = 0 /\ ch.seq <= Opened.seq + 1
       /\ \A r \in Requests :
            /\ pay[r].cum <= 2 /\ ~pay[r].replay
            /\ pc[r] = "observe" => seen[r].slot = seen[r].at
       /\ \A r, q \in Requests : r # q => "idle" \in {pc[r], pc[q]}

MCSpec ==
    /\ Init /\ scene \in {"serve", "close"}
    /\ [][Next /\ UNCHANGED scene /\ InScene']_<<vars, scene>>

=============================================================================
