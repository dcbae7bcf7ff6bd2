----------------------------- MODULE CommandLog -----------------------------
(***************************************************************************)
(* What a room promises to the people who send it commands, whatever the   *)
(* network does to their messages: only a request that a participant       *)
(* authored is applied, and at most once; a request that was acknowledged  *)
(* has been applied, and a request that was finally refused never is.      *)
(* The room protocols of src/online/protocol are shown to implement this   *)
(* module.                                                                 *)
(***************************************************************************)
EXTENDS Sequences

CONSTANT KeyOf(_)        \* the (participant, command id) pair of a request

VARIABLES authored,      \* the requests participants have sent
          log,           \* the requests applied so far, in order
          acked,         \* the requests that were acknowledged
          denied         \* the requests that were finally refused

logVars == <<authored, log, acked, denied>>

Applied == {log[i] : i \in DOMAIN log}

LogInit == authored = {} /\ log = <<>> /\ acked = {} /\ denied = {}

Author ==
  /\ authored \subseteq authored'
  /\ UNCHANGED <<log, acked, denied>>

(* A request is applied and acknowledged in one step. *)
Commit(q) ==
  /\ q \notin denied
  /\ \A r \in Applied : KeyOf(r) # KeyOf(q)
  /\ log' = Append(log, q)
  /\ acked' = acked \union {q}
  /\ UNCHANGED <<authored, denied>>

(* A request that was not applied is refused for good. *)
Deny(q) ==
  /\ q \notin Applied
  /\ denied' = denied \union {q}
  /\ UNCHANGED <<authored, log, acked>>

LogNext == Author \/ \E q \in authored : Commit(q) \/ Deny(q)

LogSpec == LogInit /\ [][LogNext]_logVars
=============================================================================
