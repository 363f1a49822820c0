---------------------------- MODULE MCLifecycle ----------------------------
(***************************************************************************)
(* Instances of Lifecycle for TLC: httptap with its options, and the two   *)
(* experiments, run as root.                                               *)
(***************************************************************************)
EXTENDS Lifecycle

Run(ns, overlay, hars, webs, users) ==
  [program : {"httptap"}, newUserNamespace : ns, overlay : overlay, har : hars, web : webs, user : users]
Experiments ==
  [program : {"pivotroot", "bindmount"}, newUserNamespace : {FALSE}, overlay : {FALSE},
   har : {FALSE}, web : {FALSE}, user : {"none"}]
AllOptions ==
  Run(BOOLEAN, BOOLEAN, BOOLEAN, {FALSE}, {"none"})
  \cup Run({TRUE}, {TRUE}, {FALSE}, {TRUE}, {"none"})
  \cup Run(BOOLEAN, {TRUE}, {FALSE}, {FALSE}, {"root", "other"})
  \cup Experiments
=============================================================================
