------------------------------ MODULE CallFeed ------------------------------
(***************************************************************************)
(* What the log of HTTP calls promises (http.go:50 and 56-57): one growing *)
(* log; a subscriber gets the log so far when it joins and from then on    *)
(* the next calls one by one, in the order of the log and without a gap.   *)
(***************************************************************************)
EXTENDS Naturals, Sequences

CONSTANTS Calls, Subscribers

VARIABLES
  log,    \* the complete sequence of calls up to the present moment
  joined, \* the subscribers so far
  inbox   \* what each of them has been given

feedVars == <<log, joined, inbox>>

FeedInit ==
  /\ log = <<>>
  /\ joined \in SUBSET Subscribers
  /\ inbox = [s \in Subscribers |-> <<>>]

Publish(c) ==
  /\ log' = Append(log, c)
  /\ UNCHANGED <<joined, inbox>>

Subscribe(s) ==
  /\ s \notin joined
  /\ joined' = joined \cup {s}
  /\ inbox' = [inbox EXCEPT ![s] = log]
  /\ UNCHANGED log

Deliver(s) ==
  /\ s \in joined
  /\ Len(inbox[s]) < Len(log)
  /\ inbox' = [inbox EXCEPT ![s] = Append(@, log[Len(@) + 1])]
  /\ UNCHANGED <<log, joined>>

FeedNext ==
  \/ \E c \in Calls : Publish(c)
  \/ \E s \in Subscribers : Subscribe(s) \/ Deliver(s)

FeedSpec == FeedInit /\ [][FeedNext]_feedVars
=============================================================================
