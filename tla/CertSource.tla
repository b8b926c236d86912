----------------------------- MODULE CertSource -----------------------------
(***************************************************************************)
(* What HTTPS clients are promised: a handshake is answered, at one moment *)
(* of its duration, with the certificate that the TLS secret holds at that *)
(* moment, or fails if the secret holds none.  There is no memory of       *)
(* parsed certificates here.                                               *)
(***************************************************************************)
EXTENDS Naturals

CONSTANTS Conns, MaxVersion

VARIABLES
    secret,  \* what the lister returns: resource version and kind
    phase,   \* per connection: "idle", "asked", "answered"
    answer   \* version of the secret the certificate is from, 0 for an error

vars == <<secret, phase, answer>>

Kinds == {"none", "broken", "pair"}

Certificate(s) == IF s.kind = "pair" THEN s.rv ELSE 0

Init ==
    /\ secret = [rv |-> 0, kind |-> "none"]
    /\ phase = [c \in Conns |-> "idle"]
    /\ answer = [c \in Conns |-> 0]

\* The cert manager writes the secret, or someone else does.
Rotate ==
    /\ secret.rv < MaxVersion
    /\ \E k \in Kinds : secret' = [rv |-> secret.rv + 1, kind |-> k]
    /\ UNCHANGED <<phase, answer>>

Ask(c) ==
    /\ phase[c] = "idle"
    /\ phase' = [phase EXCEPT ![c] = "asked"]
    /\ UNCHANGED <<secret, answer>>

Answer(c) ==
    /\ phase[c] = "asked"
    /\ phase' = [phase EXCEPT ![c] = "answered"]
    /\ answer' = [answer EXCEPT ![c] = Certificate(secret)]
    /\ UNCHANGED secret

Close(c) ==
    /\ phase' = [phase EXCEPT ![c] = "idle"]
    /\ answer' = [answer EXCEPT ![c] = 0]
    /\ UNCHANGED secret

\* A new process knows no secret and has no connections.
Restart ==
    /\ secret' = [rv |-> 0, kind |-> "none"]
    /\ phase' = [c \in Conns |-> "idle"]
    /\ answer' = [c \in Conns |-> 0]

Next ==
    \/ Rotate
    \/ \E c \in Conns : Ask(c) \/ Answer(c) \/ Close(c)
    \/ Restart

Spec == Init /\ [][Next]_vars
=============================================================================
