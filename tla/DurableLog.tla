----------------------------- MODULE DurableLog -----------------------------
(***************************************************************************)
(* What the storage of a room promises: a command that was accepted stays  *)
(* the same entry at the same place of the log for ever, and only what is  *)
(* in the log is acknowledged.  Evictions, restarts, new versions of the   *)
(* program and changes of presence are invisible here.                     *)
(***************************************************************************)
EXTENDS Sequences

CONSTANT Entries         \* the commands that may be accepted

VARIABLES log,           \* the accepted commands, in order
          acked          \* the places of the log that were acknowledged

durableVars == <<log, acked>>

DurableInit == log \in Seq(Entries) /\ acked = {}

Accept(e) == log' = Append(log, e) /\ UNCHANGED acked

Acknowledge ==
  /\ acked \subseteq acked'
  /\ acked' \subseteq DOMAIN log
  /\ UNCHANGED log

DurableNext == Acknowledge \/ \E e \in Entries : Accept(e)
=============================================================================
