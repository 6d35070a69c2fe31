------------------------------ MODULE EventLog ------------------------------
(***************************************************************************)
(* What the flash log promises of the events appended to it, numbered in   *)
(* the order of their arrival: each is newer than all that are kept, an    *)
(* acknowledged one was added, and only a few of the oldest are forgotten  *)
(* at a time, never the newest.  Nothing is said of sectors, torn writes   *)
(* or resets.                                                              *)
(***************************************************************************)
EXTENDS Naturals, FiniteSets

CONSTANTS
  Events,       \* the numbers of the events that may be logged
  Eviction      \* how many of the oldest may be forgotten at a time

VARIABLES
  log,          \* the events that can be read
  acknowledged  \* the events whose append succeeded

(* An event is added after all older ones.  It may be kept although its     *)
(* append was cut short and nobody was told.                                *)
Add(e) ==
  /\ \A d \in log : d < e
  /\ log' = log \union {e}
  /\ acknowledged' \in {acknowledged, acknowledged \union {e}}

Oldest(n) == {e \in log : Cardinality({d \in log : d < e}) < n}

(* Some of the oldest events go, but the newest stays.                      *)
Forget ==
  \E lost \in SUBSET Oldest(Eviction) :
    /\ \E newest \in log \ lost : \A e \in log : e <= newest
    /\ log' = log \ lost
    /\ UNCHANGED acknowledged

Init == log = {} /\ acknowledged = {}

Next ==
  \/ \E e \in Events : Add(e)
  \/ Forget

Spec == Init /\ [][Next]_<<log, acknowledged>>
=============================================================================
