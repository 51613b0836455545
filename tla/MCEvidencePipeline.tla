-------------------------- MODULE MCEvidencePipeline --------------------------
(* EvidencePipeline for TLC: one capsule, all three services. *)
EXTENDS EvidencePipeline, TLC

CONSTANTS Submits, Validates, Anchoreds, AiResults

MCRequests == Submits \cup Validates \cup Anchoreds \cup AiResults

MCWorkload ==
    [r \in MCRequests |->
        CASE r \in Submits   -> "submit"
          [] r \in Validates -> "validate"
          [] r \in Anchoreds -> "anchored"
          [] OTHER           -> "aiResult"]

\* CustodyEventType of the entity, as far as handlers write it.
MCCustodyTypes == {"CREATED", "UPLOADED", "HASH_VERIFIED", "AI_COMPLETED",
                   "VALIDATION_APPROVED", "VALIDATION_REJECTED",
                   "VALIDATION_ESCALATED", "TRUST_ANCHORED"}

Symmetry ==
    Permutations(Validates) \cup Permutations(Anchoreds)
      \cup Permutations(AiResults) \cup Permutations(AiCalls)

==============================================================================
