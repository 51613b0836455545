------------------------------ MODULE GeoFence ------------------------------
(***************************************************************************)
(* The geo-fence, as the phone (apps/agent-mobile/src/hooks/useGeofence.ts) *)
(* and the Evidence Service (services/evidence/src/geo) each judge it.     *)
(* Both compute the same great circle distance: it is a constant, in       *)
(* metres, and what is modelled is what they make of it.                   *)
(***************************************************************************)
EXTENDS Naturals

CONSTANTS
    Stations,     \* polling stations
    Mapped,       \* those whose coordinates the register has
    Places,       \* where an agent may be
    Distance,     \* from a place to a station
    NoFix,        \* no GPS position
    NoAssignment  \* no active assignment

ASSUME MappedAreStations == Mapped \subseteq Stations
ASSUME DistanceIsTotal == Distance \in [Places -> [Stations -> Nat]]

\* A position, and whether its accuracy is worse than 100 metres.
Fixes == [place : Places, vague : BOOLEAN]

GEOFENCE_WARN_METERS == 500
GEOFENCE_REJECT_METERS == 2000

\* Mutant: the phone warns at the same distance whatever the assignment says.
FixedRadius(assignment) == GEOFENCE_WARN_METERS

\* A radius of 0 is taken for none.
WarnRadius(assignment) ==
    IF assignment.radius = 0 THEN GEOFENCE_WARN_METERS ELSE assignment.radius

\* useGeofence, for a station the agent has selected.
PhoneVerdict(assignment, station, fix) ==
    IF assignment = NoAssignment \/ assignment.stations = {} THEN "UNASSIGNED"
    ELSE IF station \notin assignment.stations THEN "OUT_OF_RANGE"
    ELSE IF station \notin Mapped              THEN "NO_STATION_GPS"
    ELSE IF fix = NoFix                        THEN "NO_GPS"
    ELSE IF fix.vague                          THEN "WARNING"
    ELSE LET distance == Distance[fix.place][station]
         IN  IF distance <= WarnRadius(assignment) THEN "WITHIN_RANGE"
             ELSE IF distance <= GEOFENCE_REJECT_METERS THEN "WARNING"
             ELSE "OUT_OF_RANGE"

CanProceed(verdict) == verdict # "OUT_OF_RANGE"

\* Mutant: the limit above which a submission is refused is twice the radius.
DoubleRadius(radius) == 2 * radius

HardLimit(radius) == 4 * radius

\* validateCaptureLocation; how good the position is plays no part.
ServerVerdict(assignment, station, fix) ==
    IF \/ fix = NoFix \/ assignment = NoAssignment
       \/ station \notin assignment.stations \/ station \notin Mapped
      THEN "SKIPPED"
      ELSE LET distance == Distance[fix.place][station]
           IN  IF distance <= assignment.radius THEN "PASS"
               ELSE IF distance <= HardLimit(assignment.radius) THEN "WARNING"
               ELSE "REJECT"

=============================================================================
