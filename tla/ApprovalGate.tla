----------------------------- MODULE ApprovalGate -----------------------------
(***************************************************************************)
(* What the approval gate promises agy, without sockets, maps or futures:  *)
(* each hook call is decided at most once and for good.  A held call is    *)
(* decided by the first answer accepted for it, unless its time lapses     *)
(* first: a lapsed call is denied, whatever was answered before or after,  *)
(* and once denied takes no answer.  On its own the gate allows only a     *)
(* call it never held.  Handing the question back to agy's terminal        *)
(* ("ask") is always open to it: the terminal then asks a person.          *)
(***************************************************************************)
CONSTANTS Calls, Answers    \* hook calls; the answers a person can give

VARIABLES
    gate,      \* "idle", "held", "lapsed" or "decided"
    answer,    \* the first answer accepted, "none" before it
    verdict    \* what the hook call was told, "none" before it

gateVars == <<gate, answer, verdict>>

GateInit ==
    /\ gate = [h \in Calls |-> "idle"]
    /\ answer = [h \in Calls |-> "none"]
    /\ verdict = [h \in Calls |-> "none"]

\* Decided without asking anybody: by policy, or handed back to the terminal.
Waive(h) ==
    /\ gate[h] = "idle"
    /\ gate' = [gate EXCEPT ![h] = "decided"]
    /\ \E v \in {"allow", "ask"} : verdict' = [verdict EXCEPT ![h] = v]
    /\ UNCHANGED answer

Hold(h) ==
    /\ gate[h] = "idle"
    /\ gate' = [gate EXCEPT ![h] = "held"]
    /\ UNCHANGED <<answer, verdict>>

\* A person answers; only the first answer counts.  A decided call takes one
\* only if its question went back to the terminal.
Accept(h) ==
    /\ gate[h] \in {"held", "lapsed"} \/ verdict[h] = "ask"
    /\ answer[h] = "none"
    /\ \E d \in Answers : answer' = [answer EXCEPT ![h] = d]
    /\ UNCHANGED <<gate, verdict>>

\* A held call is told its answer, or handed back.
Decide(h) ==
    /\ gate[h] = "held"
    /\ gate' = [gate EXCEPT ![h] = "decided"]
    /\ \/ verdict' = [verdict EXCEPT ![h] = "ask"]
       \/ answer[h] # "none" /\ verdict' = [verdict EXCEPT ![h] = answer[h]]
    /\ UNCHANGED answer

\* The time of a held call is over.
Lapse(h) ==
    /\ gate[h] = "held"
    /\ gate' = [gate EXCEPT ![h] = "lapsed"]
    /\ UNCHANGED <<answer, verdict>>

Deny(h) ==
    /\ gate[h] = "lapsed"
    /\ gate' = [gate EXCEPT ![h] = "decided"]
    /\ verdict' = [verdict EXCEPT ![h] = "deny"]
    /\ UNCHANGED answer

GateNext ==
    \E h \in Calls :
        Waive(h) \/ Hold(h) \/ Accept(h) \/ Decide(h) \/ Lapse(h) \/ Deny(h)

GateSpec == GateInit /\ [][GateNext]_gateVars
=============================================================================
