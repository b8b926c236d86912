--------------------------- MODULE MCCheckImages ---------------------------
(***************************************************************************)
(* Instances of CheckImages for TLC.  The registry holds two manifests, m1 *)
(* and m2, and in one of them m3, with signed referrers of one artifact    *)
(* type: m1 has r1 and r2, m2 has r1, m3 none.  Image "tag" is a tag,      *)
(* "dgst" names m1 by digest.                                              *)
(***************************************************************************)
EXTENDS CheckImages, TLC

MCImages == {"tag", "dgst"}
MCDigests == {"m1", "m2", "m3", "r1", "r2"}
MCManifests == {"m1", "m2"}
BareManifests == {"m1", "m2", "m3"}
MCDigestOf == [i \in MCImages |-> IF i = "dgst" THEN "m1" ELSE NoDigest]
MCContainers == {"app", "init"}
MCGroup == [c \in MCContainers |-> IF c = "app" THEN 1 ELSE 2]
MCAtts == {"sbom"}
MCTypeOf == [x \in MCDigests \cup MCAtts |-> "sbom"]
MCReferrersOf == [d \in MCDigests |-> CASE d = "m1" -> {"r1", "r2"}
                                        [] d = "m2" -> {"r1"}
                                        [] OTHER -> {}]

\* The conditions of the attestation hold of r1 only, or of both referrers.
MeetsOne == [a \in MCAtts |-> {"r1"}]
MeetsAll == [a \in MCAtts |-> {"r1", "r2"}]

\* "all" accepts every signature, "some" accepts neither m2 nor what the store
\* does not trust; "skip" turns verification off, "scoped" for one repository.
Trusts == [s1 |-> {"m1", "m3", "r1"}, s2 |-> {"m3", "r2"}]
MCVerdict == [x \in Docs \X Stores \X MCImages \X MCDigests |->
    CASE x[1] = "skip" \/ (x[1] = "scoped" /\ x[3] = "tag") -> "skip"
      [] x[1] = "some" /\ x[4] \notin Trusts[x[2]] -> "reject"
      [] OTHER -> "accept"]

Symmetry == Permutations(Handlers) \cup Permutations(Policies)

Request(p, images, matched, atts) ==
    [images |-> images, matched |-> matched, atts |-> [i \in MCImages |-> atts],
     policy |-> p, caller |-> "allowed", complete |-> TRUE]

Both == [c \in MCContainers |-> IF c = "app" THEN "tag" ELSE "dgst"]

\* Two images without attestations, one of them not selected by the request.
PinRequests == {Request(p, Both, {"tag"}, {}) : p \in Policies}

\* One image with a required attestation, by tag or by digest.
TagAttRequests == {Request(p, "app" :> "tag", MCImages, MCAtts) : p \in Policies}
AttRequests ==
    TagAttRequests \cup
    {Request(p, "init" :> "dgst", MCImages, MCAtts) : p \in Policies}

\* The same, some with another token, an attestation without a name, or no image.
AllRequests ==
    UNION {{r, [r EXCEPT !.caller = "other"], [r EXCEPT !.complete = FALSE]} :
               r \in AttRequests}
    \cup {Request(p, [c \in {} |-> "tag"], MCImages, {}) : p \in Policies}
=============================================================================
