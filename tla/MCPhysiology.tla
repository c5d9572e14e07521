---------------------------- MODULE MCPhysiology ----------------------------
(***************************************************************************)
(* Instances of Physiology for TLC.  A sample matters only through the     *)
(* health it is assessed to and the RSS peak it leaves, so one sample per  *)
(* (disk level, RSS) pair and one with a damaged journal cover all.        *)
(***************************************************************************)
EXTENDS Physiology

Reading(disk, rss_high, journal_ok) ==
    [disk |-> disk, rss_high |-> rss_high, journal_ok |-> journal_ok]

AllSamples == {Reading("ok", FALSE, TRUE), Reading("degraded", FALSE, TRUE),
               Reading("critical", FALSE, TRUE), Reading("ok", TRUE, TRUE),
               Reading("ok", FALSE, FALSE)}
=============================================================================
