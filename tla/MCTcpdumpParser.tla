--------------------------- MODULE MCTcpdumpParser --------------------------
(* Small instances of TcpdumpParser for TLC: a client, the resolver and    *)
(* its forwarder; the resolver asks from port 53.                          *)
EXTENDS TcpdumpParser, TLC

Message(from, to, dns, from53, reply, body) ==
    [asker |-> from, server |-> to, dns |-> dns, from53 |-> from53,
     reply |-> reply, body |-> body]

(* Clocks go back on the first day, forward on the second, not on later    *)
(* ones.                                                                   *)
MCForward == (0 :> -1) @@ (1 :> 1) @@ (2 :> 0) @@ (3 :> 0)

MCPackets ==
    {Message("client", "resolver", TRUE, FALSE, FALSE, "question"),
     Message("client", "resolver", TRUE, FALSE, TRUE, "addresses"),
     Message("resolver", "forwarder", TRUE, TRUE, FALSE, "question"),
     Message("resolver", "forwarder", TRUE, TRUE, TRUE, "aliases"),
     Message("forwarder", "resolver", TRUE, TRUE, FALSE, "cut"),
     Message("client", "forwarder", TRUE, TRUE, TRUE, "addresses"),
     Message("client", "forwarder", FALSE, FALSE, TRUE, "nothing")}
=============================================================================
