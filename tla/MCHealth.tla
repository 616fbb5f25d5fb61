------------------------------ MODULE MCHealth ------------------------------
(* One backend's checks and the files its configuration comes from, for    *)
(* TLC: in each field a value that is left out, or too small, or at one of *)
(* the limits, or beyond.                                                  *)
EXTENDS Health

MCDefaults == [drain |-> 1, poll |-> 2, interval |-> 5, timeout |-> 3]
MCFiles == [urls : BOOLEAN, drain : {-1, 0}, poll : {0, 1},
            interval : {0, 1, 2}, timeout : {0, 1, 2}]
==============================================================================
