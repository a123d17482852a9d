----------------------------- MODULE SerialRpc ------------------------------
(***************************************************************************)
(* What a sync controller promises of its SyncRpcClient                    *)
(* (src/systems/authsync).  The client's finished signal names no request, *)
(* so a reply reaches the right lambda only if the controller never has    *)
(* two requests open: it takes its in-flight slot with the first request   *)
(* of an operation, may follow a reply by the next request of the same     *)
(* operation without giving the slot back, and gives it back at the end.   *)
(***************************************************************************)
EXTENDS Naturals, Sequences

CONSTANTS Kinds,    \* the RPCs of the controller
          Follows   \* <<a, b>>: b may be sent on the reply to a

VARIABLES slot,     \* operations that hold the slot
          wire,     \* kinds of the open requests
          awaited   \* kinds the connected lambdas were written for

rpcVars == <<slot, wire, awaited>>

Idle == slot = 0 /\ wire = <<>> /\ awaited = <<>>

Holds(k) == slot = 1 /\ wire = <<k>> /\ awaited = <<k>>

Issue(k) == Idle /\ Holds(k)'

Follow(k, next) ==
    /\ <<k, next>> \in Follows
    /\ Holds(k)
    /\ Holds(next)'

Finish(k) == Holds(k) /\ Idle'

SerialNext ==
    \E k \in Kinds : \/ Issue(k)
                     \/ Finish(k)
                     \/ \E next \in Kinds : Follow(k, next)

SerialSafety == Idle /\ [][SerialNext]_rpcVars

\* Every operation gives the slot back.
SerialSpec == SerialSafety /\ []<>Idle
=============================================================================
