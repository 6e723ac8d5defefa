------------------------------ MODULE TunerPool -----------------------------
(***************************************************************************)
(* What the clients of tuner_service rely on: a tuner is granted to one    *)
(* client at a time and goes back to the pool only through that client.    *)
(* The code also has a way to lose a tuner (its close is refused while the *)
(* entry still says tuned); a lost tuner is never granted again.           *)
(***************************************************************************)
CONSTANTS Clients, Tuners

VARIABLE state    \* [Tuners -> {"free", "lost"} \cup Clients]

Init == state = [t \in Tuners |-> "free"]

Grant(c, t)  == state[t] = "free" /\ state' = [state EXCEPT ![t] = c]
Return(c, t) == state[t] = c /\ state' = [state EXCEPT ![t] = "free"]
Lose(c, t)   == state[t] = c /\ state' = [state EXCEPT ![t] = "lost"]

Next ==
  \E t \in Tuners :
    IF state[t] = "free" THEN \E c \in Clients : Grant(c, t)
                         ELSE \E c \in {state[t]} \cap Clients : Return(c, t) \/ Lose(c, t)

Spec == Init /\ [][Next]_state
=============================================================================
