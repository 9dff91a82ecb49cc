---------------------------- MODULE TraceAndLive ----------------------------
(***************************************************************************)
(* The trace beside the live store: the same events, told to identity.go   *)
(* as they happen and read back from the tables by cmd/trace.              *)
(***************************************************************************)
EXTENDS Trace

CONSTANT Absent   \* no entry in the live store's maps

Binding == [entity : Macs \cup Sessions, user : Token \cup {NoToken},
            time : Int, closed : BOOLEAN]

ASSUME LiveAssumption ==
    /\ IPs \cap (Macs \cup {NoToken}) = {}
    /\ Absent \notin Binding

(* identity.go at time t with the given bindings. *)
Live(t, bindings) ==
    INSTANCE IdentityStore WITH
        state <- bindings, now <- t, newest <- 0, shut <- {},
        NoMac <- NoToken, NoUser <- NoToken, MaxClock <- MaxTime

(* What one event makes of a binding. *)
Applied(b, r) ==
    IF r.opens THEN Live(0, << >>)!Opened(b, r.entity, r.token, r.time)
               ELSE Live(0, << >>)!Ended(b, r.entity, r.token, r.time)

(* The binding of a key after the events of g, in that order.              *)
Told(g) ==
    LET after[n \in 0..Len(g)] ==
          IF n = 0 THEN Absent ELSE Applied(after[n - 1], g[n])
    IN after[Len(g)]

InOrder(key, t) ==
    CHOOSE g \in Sorted(Evidence(leases \cup sessions, key, t)) : TRUE

(* What Lookup(ip) answers at time t when no event came late. *)
LiveAnswer(ip, t) ==
    Live(t, [k \in IPs \cup Macs |-> Told(InOrder(k, t))])!Lookup(ip)

OneEventASecond(R) == \A r, s \in R : r.time = s.time => r = s

(* The trace and the live store agree wherever no two events of the        *)
(* address or of its device fall in one second: that is the only case in   *)
(* which they may differ (identity_join.go:37-38).                         *)
LiveStoreAgrees ==
    pc = "done" =>
        \A c \in DOMAIN report :
            LET t == report[c].last
                told == LiveAnswer(c[1], t)
            IN /\ OneEventASecond(Evidence(leases, c[1], t))
               /\ OneEventASecond(Evidence(sessions, told[1], t))
               => told = <<report[c].device, report[c].user>>
=============================================================================
