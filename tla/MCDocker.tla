------------------------------- MODULE MCDocker -------------------------------
(* The instances TLC checks DockerProvider on. *)
EXTENDS DockerProvider, TLC

\* A container that exposes one port and says nothing else, and one Validate refuses.
WithBad == {"plain", "broken"}
BadLabels == [plain |-> <<>>, broken |-> [tls_mode |-> Garbled]]
BadPorts == [s \in WithBad |-> <<8080>>]

QuietSelf == [labels |-> <<>>, oauth |-> FALSE]

(* Ways to start a container that labels.go and config.go tell apart:           *)
(*   plain     one port, no labels                                             *)
(*   tagged    its own tags, timeout and headers, one of them not valid         *)
(*   retagged  the same tags in another order, a default said aloud, and a       *)
(*             label that does not parse                                       *)
(*   two       two ports and no label to choose: left out                       *)
(*   alias     a name of its own, which two containers may claim                *)
(*   broken    a tls_mode that Validate refuses                                 *)
ManySetups == {"plain", "tagged", "retagged", "two", "alias", "broken"}

ManyLabels ==
    [plain |-> <<>>,
     tagged |-> [tags |-> <<"t1", "t2">>, write_timeout |-> 1000, access_log |-> FALSE,
                 upstream_headers |-> {"h1", Garbled}],
     retagged |-> [tags |-> <<"t2", "t1">>, write_timeout |-> 1000, access_log |-> FALSE,
                   upstream_headers |-> {"h1"}, tls_mode |-> "auto", idle_timeout |-> Garbled],
     two |-> <<>>,
     alias |-> [name |-> "alias", port |-> 3000, flush_interval |-> ImmediateFlushInterval],
     broken |-> [tls_mode |-> Garbled]]

ManyPorts ==
    [plain |-> <<8080>>, tagged |-> <<0, 8080>>, retagged |-> <<8080>>,
     two |-> <<8080, 9090>>, alias |-> <<>>, broken |-> <<8080>>]

ManySelf ==
    [labels |-> [default_tags |-> <<"t1">>, write_timeout |-> 5000, idle_timeout |-> 0,
                 read_header_timeout |-> Garbled, access_log |-> Garbled],
     oauth |-> TRUE]
=============================================================================
