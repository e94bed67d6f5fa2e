---------------------------- MODULE CallLifecycle ----------------------------
(***************************************************************************)
(* What an RPC connection promises the caller of a method, with no ids, no *)
(* tables and no messages: a call that was made may get one outcome from   *)
(* the vat it was sent to, and the promise the caller holds is settled at  *)
(* most once, with the outcome of that very call.  Abstracts Question (the *)
(* caller's promise, src/rpc/question.ts) and AnswerEntry (the callee's    *)
(* side, src/rpc/answer.ts); QuestionTable and RpcConn implement it.       *)
(***************************************************************************)
CONSTANTS Call,      \* the calls an application may make
          Outcome,   \* what a method may end with: results or exceptions
          NoOutcome

VARIABLES asked,     \* calls that were made
          outcome,   \* what the callee decided for each of them
          settled    \* what the caller was told

cvars == <<asked, outcome, settled>>

Init == /\ asked = {}
        /\ outcome = [c \in Call |-> NoOutcome]
        /\ settled = [c \in Call |-> NoOutcome]

Make(c) == /\ c \notin asked
           /\ asked' = asked \cup {c}
           /\ UNCHANGED <<outcome, settled>>

Decide(c, o) == /\ c \in asked
                /\ outcome[c] = NoOutcome
                /\ outcome' = [outcome EXCEPT ![c] = o]
                /\ UNCHANGED <<asked, settled>>

Settle(c) == /\ outcome[c] # NoOutcome
             /\ settled[c] = NoOutcome
             /\ settled' = [settled EXCEPT ![c] = outcome[c]]
             /\ UNCHANGED <<asked, outcome>>

Next == \E c \in Call : \/ Make(c)
                        \/ \E o \in Outcome : Decide(c, o)
                        \/ Settle(c)

Spec == Init /\ [][Next]_cvars
=============================================================================
