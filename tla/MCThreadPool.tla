---------------------------- MODULE MCThreadPool ----------------------------
(* A default pool on a machine of eight processors, three of which the     *)
(* process may use.                                                        *)
EXTENDS ThreadPool

DefaultSize == NumCpus(TRUE, {"cpu1", "cpu2", "cpu5"}, 8)

=============================================================================
