---------------------------- MODULE SessionRecord ----------------------------
(***************************************************************************)
(* What the sessions table promises as an audit trail, with nothing said   *)
(* of how sessions are served: a record is opened with the credentials of  *)
(* its asset, is established, ends without them, is dropped, and never     *)
(* goes back.                                                              *)
(***************************************************************************)
CONSTANT Sessions
VARIABLES
    rec,   \* stage of each record
    cred   \* the records that hold credentials

Init ==
    /\ rec = [s \in Sessions |-> "absent"]
    /\ cred = {}

Open(s) ==
    /\ rec[s] = "absent"
    /\ rec' = [rec EXCEPT ![s] = "pending"]
    /\ cred' = cred \cup {s}

Establish(s) ==
    /\ rec[s] = "pending"
    /\ rec' = [rec EXCEPT ![s] = "live"]
    /\ UNCHANGED cred

End(s) ==
    /\ rec[s] = "live"
    /\ rec' = [rec EXCEPT ![s] = "ended"]
    /\ cred' = cred \ {s}

\* a record can be dropped at any stage
Drop(s) ==
    /\ rec[s] \in {"pending", "live", "ended"}
    /\ rec' = [rec EXCEPT ![s] = "gone"]
    /\ cred' = cred \ {s}

\* a restart ends what was live and forgets every credential
Restart ==
    /\ rec' = [s \in Sessions |-> IF rec[s] = "live" THEN "ended" ELSE rec[s]]
    /\ cred' = {}

Next ==
    \/ \E s \in Sessions : Open(s) \/ Establish(s) \/ End(s) \/ Drop(s)
    \/ Restart

Spec == Init /\ [][Next]_<<rec, cred>>
=============================================================================
