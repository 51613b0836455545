-------------------------- MODULE MCEvidenceCapsule --------------------------
(***************************************************************************)
(* Instances of EvidenceCapsule for TLC.  A configuration chooses how many *)
(* requests go to each endpoint; requests to the same endpoint are         *)
(* interchangeable, as are capsule ids, slots and agents.                  *)
(***************************************************************************)
EXTENDS EvidenceCapsule, TLC

CONSTANTS Submits, Validates, Anchoreds, AiResults, Tallies, Syncs

MCRequests ==
    Submits \cup Validates \cup Anchoreds \cup AiResults \cup Tallies \cup Syncs

MCWorkload ==
    [r \in MCRequests |->
        CASE r \in Submits   -> "submit"
          [] r \in Validates -> "validate"
          [] r \in Anchoreds -> "anchored"
          [] r \in AiResults -> "aiResult"
          [] r \in Tallies   -> "tally"
          [] OTHER           -> "sync"]

\* CustodyEventType of the entity: what the code writes.
EntityCustodyTypes == EventTypes

\* chk_coc_event as migration 011 creates it; no later migration alters it.
MigratedCustodyTypes == (EventTypes \ {"TRUST_ANCHORED"}) \cup {"QLDB_ANCHORED"}

Symmetry ==
    Permutations(Capsules) \cup Permutations(Slots) \cup Permutations(Agents)
      \cup Permutations(Submits) \cup Permutations(Validates)
      \cup Permutations(Anchoreds) \cup Permutations(AiResults) \cup Permutations(Tallies)

==============================================================================
