------------------------------ MODULE Decision ------------------------------
(***************************************************************************)
(* What the proposal platform promises of each proposal: it is created     *)
(* once, decided once, its change takes effect exactly if it is executed,  *)
(* and the outbox tells each of the two events once.                       *)
(***************************************************************************)
EXTENDS Naturals, Sequences

CONSTANT Proposals

VARIABLES
    decision,  \* "absent", "pending" or how the proposal was decided
    effect,    \* how often its change was made
    told       \* its events, in the order they were written

decisionVars == <<decision, effect, told>>

Refusals == {"expired", "stale", "rejected"}

Init ==
    /\ decision = [p \in Proposals |-> "absent"]
    /\ effect = [p \in Proposals |-> 0]
    /\ told = [p \in Proposals |-> <<>>]

Create(p) ==
    /\ decision[p] = "absent"
    /\ decision' = [decision EXCEPT ![p] = "pending"]
    /\ told' = [told EXCEPT ![p] = <<"created">>]
    /\ UNCHANGED effect

Execute(p) ==
    /\ decision[p] = "pending"
    /\ decision' = [decision EXCEPT ![p] = "executed"]
    /\ effect' = [effect EXCEPT ![p] = 1]
    /\ told' = [told EXCEPT ![p] = <<"created", "executed">>]

Refuse(p, why) ==
    /\ decision[p] = "pending"
    /\ decision' = [decision EXCEPT ![p] = why]
    /\ told' = [told EXCEPT ![p] = <<"created", why>>]
    /\ UNCHANGED effect

Next == \E p \in Proposals :
            \/ Create(p) \/ Execute(p)
            \/ \E why \in Refusals : Refuse(p, why)

Spec == Init /\ [][Next]_decisionVars
=============================================================================
