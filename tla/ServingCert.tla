---------------------------- MODULE ServingCert ----------------------------
(***************************************************************************)
(* GetCertificate of newTLSConfig, which handshakes run concurrently: the  *)
(* parsed certificate is remembered in an atomic pointer together with the *)
(* resource version of the secret it comes from.  A key pair is            *)
(* represented by the version of the secret that holds it.                 *)
(***************************************************************************)
EXTENDS Naturals

CONSTANTS
    Conns,      \* connections to the HTTPS server
    MaxVersion  \* versions of the secret

ASSUME VersionAssumption == MaxVersion \in Nat

VARIABLES
    secret,   \* the secret in the store of the informer
    current,  \* the pointer: resource version and certificate, 0 for nil
    hs,       \* per handshake: "idle", "get", "load", "parse", "done"
    got,      \* the secret that the handshake read
    cert      \* its certificate, 0 for an error

certVars == <<secret, current, hs, got, cert>>

Kinds == {"none", "broken", "pair"}
NoSecret == [rv |-> 0, kind |-> "none"]

CertInit ==
    /\ secret = NoSecret
    /\ current = [rv |-> 0, cert |-> 0]
    /\ hs = [c \in Conns |-> "idle"]
    /\ got = [c \in Conns |-> NoSecret]
    /\ cert = [c \in Conns |-> 0]

\* The informer learns of a new version of the secret, or of its deletion.
Rotate ==
    /\ secret.rv < MaxVersion
    /\ \E k \in Kinds : secret' = [rv |-> secret.rv + 1, kind |-> k]
    /\ UNCHANGED <<current, hs, got, cert>>

Hello(c) ==
    /\ hs[c] = "idle"
    /\ hs' = [hs EXCEPT ![c] = "get"]
    /\ UNCHANGED <<secret, current, got, cert>>

\* GetCertificate returns; 0 is an error.
Return(c, v) ==
    /\ hs' = [hs EXCEPT ![c] = "done"]
    /\ got' = [got EXCEPT ![c] = NoSecret]
    /\ cert' = [cert EXCEPT ![c] = v]

\* No secret, or one of another type, fails the handshake.
GetSecret(c) ==
    /\ hs[c] = "get"
    /\ IF secret.kind = "none"
       THEN Return(c, 0)
       ELSE /\ hs' = [hs EXCEPT ![c] = "load"]
            /\ got' = [got EXCEPT ![c] = secret]
            /\ UNCHANGED cert
    /\ UNCHANGED <<secret, current>>

\* Mutant of Remembered: the version is not compared.
RememberedAny(s) == current.rv # 0

Remembered(s) == current.rv # 0 /\ current.rv = s.rv

LoadCurrent(c) ==
    /\ hs[c] = "load"
    /\ IF Remembered(got[c])
       THEN Return(c, current.cert)
       ELSE hs' = [hs EXCEPT ![c] = "parse"] /\ UNCHANGED <<got, cert>>
    /\ UNCHANGED <<secret, current>>

\* A pair that does not parse is not stored.
ParseAndStore(c) ==
    /\ hs[c] = "parse"
    /\ IF got[c].kind = "pair"
       THEN current' = [rv |-> got[c].rv, cert |-> got[c].rv] /\ Return(c, got[c].rv)
       ELSE UNCHANGED current /\ Return(c, 0)
    /\ UNCHANGED secret

\* The connection ends.
Hangup(c) ==
    /\ hs' = [hs EXCEPT ![c] = "idle"]
    /\ got' = [got EXCEPT ![c] = NoSecret]
    /\ cert' = [cert EXCEPT ![c] = 0]
    /\ UNCHANGED <<secret, current>>

\* The process ends; a new one starts with an empty informer store.
Forget ==
    /\ secret' = NoSecret
    /\ current' = [rv |-> 0, cert |-> 0]
    /\ hs' = [c \in Conns |-> "idle"]
    /\ got' = [c \in Conns |-> NoSecret]
    /\ cert' = [c \in Conns |-> 0]

Handshake(c) == GetSecret(c) \/ LoadCurrent(c) \/ ParseAndStore(c)

CertNext ==
    \/ Rotate
    \/ \E c \in Conns : Hello(c) \/ Handshake(c) \/ Hangup(c)
    \/ Forget

CertSpec == CertInit /\ [][CertNext]_certVars

-----------------------------------------------------------------------------

CertTypeOK ==
    /\ secret \in [rv : Nat, kind : Kinds]
    /\ current \in [rv : Nat, cert : Nat]
    /\ hs \in [Conns -> {"idle", "get", "load", "parse", "done"}]
    /\ got \in [Conns -> [rv : Nat, kind : Kinds]]
    /\ cert \in [Conns -> Nat]

\* A handshake takes effect when it reads the secret: from then on its answer is
\* settled, whatever other handshakes store.
PhaseOf(c) ==
    CASE hs[c] = "idle" -> "idle" [] hs[c] = "get" -> "asked" [] OTHER -> "answered"
AnswerOf(c) ==
    IF hs[c] \in {"load", "parse"}
    THEN IF got[c].kind = "pair" THEN got[c].rv ELSE 0
    ELSE cert[c]

Source == INSTANCE CertSource WITH
    phase <- [c \in Conns |-> PhaseOf(c)],
    answer <- [c \in Conns |-> AnswerOf(c)]

\* The remembered certificate is invisible: with concurrent handshakes and
\* rotations, GetCertificate of newTLSConfig answers as if it parsed the secret
\* each time.
ServesCurrent == Source!Spec
=============================================================================
