------------------------- MODULE ServingCert_proofs -------------------------
(***************************************************************************)
(* GetCertificate implements CertSource, for any number of handshakes and  *)
(* versions of the secret.                                                 *)
(***************************************************************************)
EXTENDS ServingCert, TLAPS

Reading(c) == hs[c] \in {"load", "parse"}

\* A version of the secret has one content, wherever it is held: in the store, in
\* a handshake or, as the certificate that was parsed from it, in the pointer.
VersionInv ==
    /\ current.rv # 0 => current.cert = current.rv
    /\ current.rv <= secret.rv
    /\ current.rv # 0 /\ current.rv = secret.rv => secret.kind = "pair"
    /\ \A c \in Conns :
         /\ got[c].rv <= secret.rv
         /\ Reading(c) /\ got[c].rv = secret.rv => got[c] = secret
         /\ Reading(c) /\ current.rv # 0 /\ got[c].rv = current.rv => got[c].kind = "pair"
    /\ \A c, d \in Conns :
         Reading(c) /\ Reading(d) /\ got[c].rv = got[d].rv => got[c] = got[d]

\* What the actions of ServingCert start from.
CertInv == CertTypeOK /\ VersionInv

\* A new process knows no version.
LEMMA CertInitInv == CertInit => CertInv
  BY DEF CertInit, CertInv, CertTypeOK, VersionInv, Reading, NoSecret, Kinds

\* A handshake whose GetCertificate returns has the right types and is no longer
\* reading; the others go on as before.
LEMMA ReturnStep ==
    ASSUME CertTypeOK, NEW c \in Conns, NEW v \in Nat, Return(c, v)
    PROVE  /\ hs' \in [Conns -> {"idle", "get", "load", "parse", "done"}]
           /\ got' \in [Conns -> [rv : Nat, kind : Kinds]]
           /\ cert' \in [Conns -> Nat]
           /\ \A d \in Conns :
                /\ Reading(d)' => Reading(d) /\ got'[d] = got[d]
                /\ got'[d].rv = got[d].rv \/ got'[d].rv = 0
<1> USE DEF CertTypeOK, Return
<1>1. hs' \in [Conns -> {"idle", "get", "load", "parse", "done"}]
  OBVIOUS
<1>2. got' \in [Conns -> [rv : Nat, kind : Kinds]]
  BY DEF NoSecret, Kinds
<1>3. cert' \in [Conns -> Nat]
  OBVIOUS
<1>4. ASSUME NEW d \in Conns
      PROVE  /\ Reading(d)' => Reading(d) /\ got'[d] = got[d]
             /\ got'[d].rv = got[d].rv \/ got'[d].rv = 0
  BY DEF Reading, NoSecret
<1> QED
  BY <1>1, <1>2, <1>3, <1>4

\* Every step keeps the types.
LEMMA CertTypeStep == CertTypeOK /\ [CertNext]_certVars => CertTypeOK'
<1> SUFFICES ASSUME CertTypeOK, [CertNext]_certVars PROVE CertTypeOK'
  OBVIOUS
<1>1. CASE Rotate
  BY <1>1 DEF Rotate, CertTypeOK, Kinds
<1>2. ASSUME NEW c \in Conns, Hello(c) PROVE CertTypeOK'
  BY <1>2 DEF Hello, CertTypeOK
<1>3. ASSUME NEW c \in Conns, GetSecret(c) PROVE CertTypeOK'
  <2>1. CASE secret.kind = "none"
    BY <1>3, <2>1, ReturnStep DEF GetSecret, CertTypeOK
  <2>2. CASE secret.kind # "none"
    BY <1>3, <2>2 DEF GetSecret, CertTypeOK
  <2> QED
    BY <2>1, <2>2
<1>4. ASSUME NEW c \in Conns, LoadCurrent(c) PROVE CertTypeOK'
  <2>0. current.cert \in Nat
    BY DEF CertTypeOK
  <2>1. CASE Remembered(got[c])
    BY <1>4, <2>0, <2>1, ReturnStep DEF LoadCurrent, CertTypeOK
  <2>2. CASE ~Remembered(got[c])
    BY <1>4, <2>2 DEF LoadCurrent, CertTypeOK
  <2> QED
    BY <2>1, <2>2
<1>5. ASSUME NEW c \in Conns, ParseAndStore(c) PROVE CertTypeOK'
  <2>0. got[c].rv \in Nat
    BY DEF CertTypeOK
  <2>1. CASE got[c].kind = "pair"
    BY <1>5, <2>0, <2>1, ReturnStep DEF ParseAndStore, CertTypeOK
  <2>2. CASE got[c].kind # "pair"
    BY <1>5, <2>2, ReturnStep DEF ParseAndStore, CertTypeOK
  <2> QED
    BY <2>1, <2>2
<1>6. ASSUME NEW c \in Conns, Hangup(c) PROVE CertTypeOK'
  BY <1>6 DEF Hangup, CertTypeOK, NoSecret, Kinds
<1>7. CASE Forget
  BY <1>7 DEF Forget, CertTypeOK, NoSecret, Kinds
<1>8. CASE UNCHANGED certVars
  BY <1>8 DEF certVars, CertTypeOK
<1> QED
  BY <1>1, <1>2, <1>3, <1>4, <1>5, <1>6, <1>7, <1>8 DEF CertNext, Handshake

\* Every step keeps what is known of the versions: only ParseAndStore changes the
\* pointer, and it stores what the handshake read.
LEMMA VersionStep == CertInv /\ [CertNext]_certVars => VersionInv'
<1> SUFFICES ASSUME CertInv, [CertNext]_certVars PROVE VersionInv'
  OBVIOUS
<1> USE DEF CertInv
<1>1. CASE Rotate
  BY <1>1 DEF Rotate, CertTypeOK, VersionInv, Reading
<1>2. ASSUME NEW c \in Conns, Hello(c) PROVE VersionInv'
  BY <1>2 DEF Hello, CertTypeOK, VersionInv, Reading
<1>3. ASSUME NEW c \in Conns, GetSecret(c) PROVE VersionInv'
  <2>1. CASE secret.kind = "none"
    <3>1. UNCHANGED <<secret, current>> /\ Return(c, 0)
      BY <1>3, <2>1 DEF GetSecret
    <3> QED
      BY <3>1, ReturnStep DEF VersionInv, CertTypeOK
  <2>2. CASE secret.kind # "none"
    BY <1>3, <2>2 DEF GetSecret, CertTypeOK, VersionInv, Reading
  <2> QED
    BY <2>1, <2>2
<1>4. ASSUME NEW c \in Conns, LoadCurrent(c) PROVE VersionInv'
  <2>1. CASE Remembered(got[c])
    <3>1. UNCHANGED <<secret, current>> /\ Return(c, current.cert)
      BY <1>4, <2>1 DEF LoadCurrent
    <3>2. current.cert \in Nat
      BY DEF CertTypeOK
    <3> QED
      BY <3>1, <3>2, ReturnStep DEF VersionInv, CertTypeOK
  <2>2. CASE ~Remembered(got[c])
    BY <1>4, <2>2 DEF LoadCurrent, CertTypeOK, VersionInv, Reading
  <2> QED
    BY <2>1, <2>2
<1>5. ASSUME NEW c \in Conns, ParseAndStore(c) PROVE VersionInv'
  <2>1. CASE got[c].kind = "pair"
    <3>1. /\ Reading(c) /\ got[c].rv \in Nat
          /\ secret' = secret /\ Return(c, got[c].rv)
          /\ current' = [rv |-> got[c].rv, cert |-> got[c].rv]
      BY <1>5, <2>1 DEF ParseAndStore, Reading, CertTypeOK
    <3> QED
      BY <2>1, <3>1, ReturnStep DEF VersionInv, CertTypeOK
  <2>2. CASE got[c].kind # "pair"
    <3>1. UNCHANGED <<secret, current>> /\ Return(c, 0)
      BY <1>5, <2>2 DEF ParseAndStore
    <3> QED
      BY <3>1, ReturnStep DEF VersionInv, CertTypeOK
  <2> QED
    BY <2>1, <2>2
<1>6. ASSUME NEW c \in Conns, Hangup(c) PROVE VersionInv'
  BY <1>6 DEF Hangup, CertTypeOK, VersionInv, Reading, NoSecret
<1>7. CASE Forget
  BY <1>7 DEF Forget, VersionInv, Reading, NoSecret
<1>8. CASE UNCHANGED certVars
  BY <1>8 DEF certVars, VersionInv, Reading
<1> QED
  BY <1>1, <1>2, <1>3, <1>4, <1>5, <1>6, <1>7, <1>8 DEF CertNext, Handshake

\* Versions of the secret are never confused, in all runs of GetCertificate.
LEMMA CertInvariant == CertSpec => []CertInv
<1>1. CertInv /\ [CertNext]_certVars => CertInv'
  BY CertTypeStep, VersionStep DEF CertInv
<1> QED
  BY CertInitInv, <1>1, PTL DEF CertSpec

\* The mapping takes an initial state to one of CertSource.
LEMMA RefinesInit == CertInit => Source!Init
  BY DEF CertInit, Source!Init, PhaseOf, AnswerOf, NoSecret

\* The mapping takes every step to one of CertSource or to no step at all.
LEMMA RefinesNext ==
    CertInv /\ [CertNext]_certVars => [Source!Next]_(Source!vars)
<1> SUFFICES ASSUME CertInv, [CertNext]_certVars
             PROVE  [Source!Next]_(Source!vars)
  OBVIOUS
<1> DEFINE phase == [c \in Conns |-> PhaseOf(c)]
           answer == [c \in Conns |-> AnswerOf(c)]
<1> USE DEF CertInv, CertTypeOK
<1>1. CASE Rotate
  <2>1. phase' = phase /\ answer' = answer
    BY <1>1 DEF Rotate, PhaseOf, AnswerOf
  <2> QED
    BY <1>1, <2>1 DEF Rotate, Source!Next, Source!Rotate, Source!vars, Kinds, Source!Kinds
<1>2. ASSUME NEW c \in Conns, Hello(c) PROVE Source!Next
  <2>1. phase[c] = "idle" /\ phase' = [phase EXCEPT ![c] = "asked"]
    BY <1>2 DEF Hello, PhaseOf
  <2>2. answer' = answer
    BY <1>2 DEF Hello, AnswerOf
  <2>3. Source!Ask(c)
    BY <1>2, <2>1, <2>2 DEF Hello, Source!Ask
  <2> QED
    BY <2>3 DEF Source!Next
<1>3. ASSUME NEW c \in Conns, GetSecret(c) PROVE Source!Next
  <2>1. phase[c] = "asked" /\ phase' = [phase EXCEPT ![c] = "answered"]
    BY <1>3 DEF GetSecret, Return, PhaseOf
  <2>2. answer' = [answer EXCEPT ![c] = Source!Certificate(secret)]
    BY <1>3 DEF GetSecret, Return, AnswerOf, Source!Certificate, Kinds
  <2>3. Source!Answer(c)
    BY <1>3, <2>1, <2>2 DEF GetSecret, Source!Answer
  <2> QED
    BY <2>3 DEF Source!Next
<1>4. ASSUME NEW c \in Conns, LoadCurrent(c) PROVE UNCHANGED Source!vars
  <2>1. phase' = phase
    BY <1>4 DEF LoadCurrent, Return, PhaseOf
  <2>2. answer' = answer
    BY <1>4 DEF LoadCurrent, Return, AnswerOf, Remembered, VersionInv, Reading
  <2> QED
    BY <1>4, <2>1, <2>2 DEF LoadCurrent, Source!vars
<1>5. ASSUME NEW c \in Conns, ParseAndStore(c) PROVE UNCHANGED Source!vars
  <2>1. phase' = phase
    BY <1>5 DEF ParseAndStore, Return, PhaseOf
  <2>2. answer' = answer
    BY <1>5 DEF ParseAndStore, Return, AnswerOf
  <2> QED
    BY <1>5, <2>1, <2>2 DEF ParseAndStore, Source!vars
<1>6. ASSUME NEW c \in Conns, Hangup(c) PROVE Source!Next
  <2>1. phase' = [phase EXCEPT ![c] = "idle"]
    BY <1>6 DEF Hangup, PhaseOf
  <2>2. answer' = [answer EXCEPT ![c] = 0]
    BY <1>6 DEF Hangup, AnswerOf
  <2>3. Source!Close(c)
    BY <1>6, <2>1, <2>2 DEF Hangup, Source!Close
  <2> QED
    BY <2>3 DEF Source!Next
<1>7. CASE Forget
  <2>1. Source!Restart
    BY <1>7 DEF Forget, Source!Restart, PhaseOf, AnswerOf, NoSecret
  <2> QED
    BY <2>1 DEF Source!Next
<1>8. CASE UNCHANGED certVars
  BY <1>8 DEF certVars, Source!vars, PhaseOf, AnswerOf
<1> QED
  BY <1>1, <1>2, <1>3, <1>4, <1>5, <1>6, <1>7, <1>8 DEF CertNext, Handshake

\* The remembered certificate is invisible to clients: GetCertificate, with any
\* number of concurrent handshakes and rotations, implements CertSource.
THEOREM CertImplements == CertSpec => ServesCurrent
<1>1. CertInit => Source!Init
  BY RefinesInit
<1>2. CertInv /\ [CertNext]_certVars => [Source!Next]_(Source!vars)
  BY RefinesNext
<1> QED
  BY <1>1, <1>2, CertInvariant, PTL DEF CertSpec, ServesCurrent, Source!Spec
=============================================================================
