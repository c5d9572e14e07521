---------------------------- MODULE MCSupervisor ----------------------------
(***************************************************************************)
(* Instances of Supervisor for TLC: one healthy and one critical reading,  *)
(* two policies an operator may configure.                                 *)
(***************************************************************************)
EXTENDS Supervisor

TwoSamples ==
    {[disk |-> d, rss_high |-> FALSE, journal_ok |-> TRUE] :
        d \in {"ok", "critical"}}
=============================================================================
