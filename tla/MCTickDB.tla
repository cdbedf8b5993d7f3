------------------------------- MODULE MCTickDB -------------------------------
(***************************************************************************)
(* Two instruments, hours 1 to 3 of four milliseconds, and keys that wrap  *)
(* at the start of the third hour.  A price tells one version of an hour   *)
(* from another.                                                           *)
(***************************************************************************)
EXTENDS TickDB

Tick(t, p) == [time |-> t, price |-> p]
MCBatches == {
    <<Tick(4, 1), Tick(5, 1), Tick(7, 1)>>,
    <<Tick(6, 2)>>,
    <<Tick(7, 1), Tick(8, 1), Tick(8, 2)>>,
    <<Tick(9, 2), Tick(12, 2)>>,
    <<Tick(9, 1), Tick(8, 1)>>}
MCConfigs == {[digits |-> 1, format |-> "raw"], [digits |-> 2, format |-> "compressor"]}
\* Nothing, and a tick of the first hour.
MCEarlier == {<<>>, <<Tick(5, 9)>>}
MCRanges == {<<8, 12>>, <<6, 9>>, <<5, 16>>}

\* The keys of these hours are 1 to 3, and 4, 8 and 0.
ASSUME MCHoursApart == HoursApart
=============================================================================
