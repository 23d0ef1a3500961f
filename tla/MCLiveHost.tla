------------------------------ MODULE MCLiveHost ------------------------------
(* One busy host, with a terminal that may flood it or not, or two quiet   *)
(* hosts and two terminals that want each other's session.  Queues and     *)
(* pseudo terminals hold one message: the queue of the code holds 32.      *)
EXTENDS LiveHost

CONSTANTS h1, h2, t1, t2

MCHosts == {h1, h2}
MCTerminals == {t1, t2}
MCScenes ==
  {[hosts |-> {h1}, busy |-> {h1}, terminals |-> {t1}, conns |-> 2,
    floods |-> f] : f \in BOOLEAN}
    \cup {[hosts |-> MCHosts, busy |-> {}, terminals |-> MCTerminals,
            conns |-> 3, floods |-> FALSE]}
=============================================================================
