------------------------------ MODULE FlowSink ------------------------------
(***************************************************************************)
(* What the flow writer promises its callers, and nothing of how: a row    *)
(* handed to the writer is pending until it is settled, once and for ever, *)
(* either acknowledged by ClickHouse ("stored") or given up and counted    *)
(* ("dropped").  BatchWriter implements it (see Sink in BatchWriter).      *)
(***************************************************************************)
CONSTANT Row           \* the rows the workers may produce

VARIABLE status        \* status[r]: how far row r has come

Status == {"new", "pending", "stored", "dropped"}

FSTypeOK == status \in [Row -> Status]

FSInit == status = [r \in Row |-> "new"]

(* A worker hands one new row to the writer. *)
Accept(r) ==
    /\ status[r] = "new"
    /\ status' = [status EXCEPT ![r] = "pending"]

(* One round trip settles some pending rows: those in S are stored, those  *)
(* in D are given up.                                                      *)
Settle(S, D) ==
    /\ S \cap D = {}
    /\ \A r \in S \cup D : status[r] = "pending"
    /\ status' = [r \in Row |-> IF r \in S THEN "stored"
                                ELSE IF r \in D THEN "dropped"
                                ELSE status[r]]

FSNext ==
    \/ \E r \in Row : Accept(r)
    \/ \E S, D \in SUBSET Row : Settle(S, D)

FSSpec == FSInit /\ [][FSNext]_status
=============================================================================
