------------------------------ MODULE Transfer ------------------------------
(***************************************************************************)
(* What a run of the tool promises its operator about the value it was     *)
(* told to move, without chains, nonces or polling.                        *)
(*                                                                         *)
(* A run ends with one of three verdicts.  "refused": nothing was handed to*)
(* a node and nothing ever will be.  "succeeded": the value has moved.     *)
(* "failed": the operator has to look; it may have moved, and may still    *)
(* move later.  No verdict is ever revised and no move is undone.          *)
(***************************************************************************)
CONSTANT Ops

VARIABLES
  verdict,  \* verdict[o]: "pending" until the run ends
  moved     \* moved[o]: the value has left the source account

TInit ==
  /\ verdict = [o \in Ops |-> "pending"]
  /\ moved = [o \in Ops |-> FALSE]

\* Runs that built the very same transaction have moved the same value.
Move(S) ==
  /\ \A o \in S : ~moved[o] /\ verdict[o] \in {"pending", "failed"}
  /\ moved' = [o \in Ops |-> o \in S \/ moved[o]]
  /\ UNCHANGED verdict

Judge(o, v) ==
  /\ verdict[o] = "pending"
  /\ verdict' = [verdict EXCEPT ![o] = v]
  /\ UNCHANGED moved

Refuse(o) == ~moved[o] /\ Judge(o, "refused")
Succeed(o) == moved[o] /\ Judge(o, "succeeded")
GiveUp(o) == Judge(o, "failed")

TNext ==
  \/ \E S \in SUBSET Ops : Move(S)
  \/ \E o \in Ops : Refuse(o) \/ Succeed(o) \/ GiveUp(o)

TSpec == TInit /\ [][TNext]_<<verdict, moved>>
=============================================================================
