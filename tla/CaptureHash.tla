----------------------------- MODULE CaptureHash -----------------------------
(***************************************************************************)
(* The composite hash of a capture: the agent app computes it when the     *)
(* photograph is taken (apps/agent-mobile/src/utils/crypto.ts), the        *)
(* Evidence Service computes it again from what it is sent and refuses a   *)
(* submission whose hash differs (services/evidence/src/utils).            *)
(*                                                                         *)
(* SHA-256 is injective, and so is JSON with sorted keys: a digest is a    *)
(* record of what was hashed, a JSON text the record it was made from.     *)
(***************************************************************************)
EXTENDS Naturals

CONSTANTS
    Images,    \* contents of a photograph
    Stations,  \* IEBC station codes
    StreamOf,  \* stream number that the Geography Service has for a station
    Devices,   \* device ids
    Tenants,
    Times      \* capture times

VARIABLES
    form,    \* the LocalCapsule captured, with the image file
    verdict  \* of submitCapsule: "none", "accepted" or "rejected"

vars == <<form, verdict>>

Sha256(data) == [sha256 |-> data]

\* Text that is hashed in place of the bytes it encodes.
Base64(image) == [base64 |-> image]

\* sha256Bytes of the app: digestStringAsync hashes the base64 text.
sha256Bytes(image) == Sha256(Base64(image))

\* computeCapsuleHash of the app, with the metadata of captureFirstPage.
computeCapsuleHash(f) ==
    Sha256([image    |-> sha256Bytes(f.image),
            metadata |-> [iebcStationCode |-> f.station,
                          positionCode    |-> "PRESIDENT",
                          electionYear    |-> 2027,
                          tenantId        |-> f.tenant],
            time     |-> f.time])

\* computeCompositeHash of the service, with the metadata of submitCapsule.
computeCompositeHash(f, device) ==
    Sha256([image    |-> Sha256(f.image),
            metadata |-> [iebcStationCode  |-> f.station,
                          positionCode     |-> "PRESIDENT",
                          electionYear     |-> 2027,
                          streamNumber     |-> StreamOf[f.station],
                          captureTimestamp |-> f.time,
                          agentDeviceId    |-> device,
                          imageIndex       |-> 0],
            time     |-> f.time])

Nothing == [image |-> "none"]

Init ==
    /\ form = Nothing
    /\ verdict = "none"

\* captureFirstPage: the record is stored with its hash.
Capture(image, station, tenant, time) ==
    LET f == [image |-> image, station |-> station, tenant |-> tenant, time |-> time]
    IN  /\ form = Nothing
        /\ form' = [data |-> f, sha256Hash |-> computeCapsuleHash(f)]
        /\ UNCHANGED verdict

\* uploadCapsule sends the record as it is stored; step 3 of submitCapsule
\* verifies the hash.
Submit(device) ==
    /\ form # Nothing
    /\ verdict = "none"
    /\ verdict' = IF computeCompositeHash(form.data, device) = form.sha256Hash
                    THEN "accepted" ELSE "rejected"
    /\ UNCHANGED form

Next ==
    \/ \E i \in Images, s \in Stations, o \in Tenants, c \in Times : Capture(i, s, o, c)
    \/ \E d \in Devices : Submit(d)
    \/ verdict # "none" /\ UNCHANGED vars

Spec == Init /\ [][Next]_vars

\* What an agent photographed and nobody changed passes the integrity check:
\* phone and service compute the same hash.
GenuineIsAccepted == verdict # "rejected"

==============================================================================
