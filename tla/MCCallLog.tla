----------------------------- MODULE MCCallLog ------------------------------
(***************************************************************************)
(* Instances of CallLog for TLC: a few calls, the console and two web UI   *)
(* clients, channels of capacity 1 or 2 so that they fill up.              *)
(***************************************************************************)
EXTENDS CallLog

CONSTANTS h1, h2, h3, w1, w2

Calls3 == {h1, h2, h3}
BothWatchers == {w1, w2}
OneWatcher == {w1}
=============================================================================
