------------------------------ MODULE MCTabPanes ------------------------------
(* Two Burp processes: the event thread and a worker of the one with the    *)
(* tab, and a thread of another that keeps calling.                          *)
EXTENDS TabPanes

CONSTANTS p1, p2, event, worker, other

MCProcOf == [t \in {event, worker, other} |-> IF t = other THEN p2 ELSE p1]
Hello(v, n) ==
    [kind |-> "hello", sig |-> [version |-> v, wire |-> n, lists |-> "lists", sni |-> "sni", alpn |-> "h2"]]
Odd == [kind |-> "odd"]
Garbage == [kind |-> "garbage", sig |-> "none"]
MCInputs == {Hello("TLS 1.2", 771), Odd}
AllInputs ==
    {Hello("TLS 1.3", 771), Hello("TLS 1.2", 771), Hello("TLS 1.1", 770), Hello("TLS 1.0", 769),
     Hello("SSL 3.0", 768), Hello("unknown", 64250), Odd, Garbage}
=============================================================================
