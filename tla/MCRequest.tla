------------------------------ MODULE MCRequest ------------------------------
(* The instance TLC checks RequestPath on: the requests clients send and the *)
(* settings services have.                                                   *)
EXTENDS RequestPath, TLC

CONSTANTS client, proxy, u, v     \* a tailnet client, a trusted proxy; two users

Holders == (client :> u) @@ (proxy :> v)

Plain == [addr |-> client, identity |-> None, claim |-> <<>>, funnel |-> None,
          size |-> 0, declared |-> FALSE, expects |-> FALSE, upgrade |-> FALSE]

\* Body sizes: none, the limit 2, and beyond it, declared or not.
Requests ==
    {[Plain EXCEPT !.identity = Forged, !.claim = <<proxy>>, !.upgrade = TRUE],
     [Plain EXCEPT !.addr = proxy, !.claim = <<client>>, !.size = 2, !.declared = TRUE,
             !.expects = TRUE],
     [Plain EXCEPT !.size = 3, !.declared = TRUE],
     [Plain EXCEPT !.addr = proxy, !.funnel = client, !.size = 3]}

WithWhois == [metrics |-> FALSE, accessLog |-> Unset, globalAccessLog |-> Unset,
              whois |-> TRUE, max |-> Unset, globalMax |-> 2]
WithMetrics == [WithWhois EXCEPT !.metrics = TRUE, !.whois = FALSE]

\* The default limit, the global one, none although there is a global one.
Settings ==
    {WithWhois, [WithMetrics EXCEPT !.globalMax = Unset],
     [WithMetrics EXCEPT !.accessLog = FALSE, !.max = -1]}
=============================================================================
