------------------------------- MODULE BeaconSetup -------------------------------
(***************************************************************************)
(* BeaconSetupData.cpp and what a target makes of the result: the data of  *)
(* a target is a record of parallel vectors, one entry for each beacon.    *)
(* cleanAndValidate goes over them beacon by beacon, first as far as all   *)
(* the vectors reach, then over the uneven tails, and reports; the target  *)
(* and its LED identifier are built of the data whatever the report says.  *)
(*                                                                         *)
(* Beacons are numbered from one, as in the report.  A character of a      *)
(* pattern is 1 for "*", 0 for "." and 2 for any other; a location is      *)
(* "bogus" or says where it comes from; a direction is "zero" or set; a    *)
(* number keeps its sign.  Of the errors' texts the kind is kept, and of   *)
(* the lists what is in them.                                              *)
(***************************************************************************)
EXTENDS Integers, Sequences

\* Where a location or a direction comes from: "set" for the data of others than
\* the HDK.
Locations  == {"bogus", "built-in", "calibrated", "rear", "set"}
Directions == {"zero", "measured", "backwards", "set"}

\* The data of a target: vectors of any lengths.
TargetSetupData ==
  [patterns : Seq(Seq({0, 1, 2})), locations : Seq(Locations),
   emissionDirections : Seq(Directions),
   baseMeasurementVariances : Seq(Int), initialAutocalibrationErrors : Seq(Int),
   isFixed : Seq(BOOLEAN)]

VARIABLES
  given,                   \* history: the data as it was handed over
  d,                       \* the data, cleaned as far as it has been looked at
  next,                    \* the beacon looked at next
  m_patternLength,         \* 0 until the first enabled pattern
  errors,                  \* the summary: pairs of a beacon and a kind of error,
  disabledByPattern,       \* and sets of beacons
  disabledByEmptyPattern,
  validBeacons,
  target,                  \* "none", "built", "threw", or "outOfRange" if a vector
                           \* was read beyond its end or found of the wrong length
  d_patterns               \* its identifier: of each beacon the bits it is known by

checkerVars == <<next, m_patternLength, errors, disabledByPattern,
                 disabledByEmptyPattern, validBeacons>>
setupVars == <<given, d, checkerVars, target, d_patterns>>

-----------------------------------------------------------------------------
sizes(data) ==
  {Len(data.patterns), Len(data.locations), Len(data.emissionDirections),
   Len(data.baseMeasurementVariances), Len(data.initialAutocalibrationErrors),
   Len(data.isFixed)}
least(lengths)    == CHOOSE n \in lengths : \A m \in lengths : n <= m
greatest(lengths) == CHOOSE n \in lengths : \A m \in lengths : m <= n
minSize == least(sizes(d))
maxSize == greatest(sizes(d))

has(vector, i) == i \in DOMAIN vector

legal(pattern) == \A k \in DOMAIN pattern : pattern[k] # 2
enabled(pattern) == pattern # <<>> /\ legal(pattern)

BeaconSetupInit(data) ==
  /\ given = data /\ d = data
  /\ next = 1 /\ m_patternLength = 0
  /\ errors = {} /\ validBeacons = {}
  /\ disabledByPattern = {} /\ disabledByEmptyPattern = {}
  /\ target = "none" /\ d_patterns = <<>>

-----------------------------------------------------------------------------
(***************************************************************************)
(* The single checks: what is wrong with beacon i.                         *)
(***************************************************************************)
longerThan(i, length) == Len(d.patterns[i]) > length   \* mutant
otherThan(i, length) == Len(d.patterns[i]) # length

checkPatternLength(i, length) == IF otherThan(i, length) THEN {"length"} ELSE {}
checkLocationValidity(i)  == IF d.locations[i] = "bogus" THEN {"location"} ELSE {}
checkEmissionDirection(i) == IF d.emissionDirections[i] = "zero" THEN {"direction"} ELSE {}
checkMeasVariance(i) == IF d.baseMeasurementVariances[i] <= 0 THEN {"variance"} ELSE {}
checkAutocalibAlways(i) ==   \* mutant
  IF d.initialAutocalibrationErrors[i] <= 0 THEN {"autocalib"} ELSE {}
checkAutocalib(i) ==
  IF ~ d.isFixed[i] /\ d.initialAutocalibrationErrors[i] <= 0 THEN {"autocalib"} ELSE {}

\* A fixed beacon's error is normalized on the way.
normalized(i) ==
  IF d.isFixed[i] THEN [d EXCEPT !.initialAutocalibrationErrors[i] = 0] ELSE d

disable(i) ==
  IF d.patterns[i] = <<>>
    THEN /\ disabledByEmptyPattern' = disabledByEmptyPattern \cup {i}
         /\ UNCHANGED disabledByPattern
    ELSE /\ disabledByPattern' = disabledByPattern \cup {i}
         /\ UNCHANGED disabledByEmptyPattern

record(i, kinds) == errors' = errors \cup {<<i, kind>> : kind \in kinds}

(***************************************************************************)
(* One turn of the loop over the beacons that are in all vectors.          *)
(***************************************************************************)
CleanDisabled ==
  /\ next <= minSize /\ ~ enabled(d.patterns[next])
  /\ disable(next)
  /\ d' = [d EXCEPT !.patterns[next] = <<>>]
  /\ next' = next + 1
  /\ UNCHANGED <<given, m_patternLength, errors, validBeacons, target, d_patterns>>

firstLength(i) == IF m_patternLength = 0 THEN Len(d.patterns[i]) ELSE m_patternLength

CheckBeacon ==
  LET kinds == checkPatternLength(next, firstLength(next)) \cup checkLocationValidity(next)
                 \cup checkEmissionDirection(next) \cup checkMeasVariance(next)
                 \cup checkAutocalib(next)
  IN
  /\ next <= minSize /\ enabled(d.patterns[next])
  /\ m_patternLength' = firstLength(next)
  /\ record(next, kinds)
  /\ validBeacons' = IF kinds = {} THEN validBeacons \cup {next} ELSE validBeacons
  /\ d' = normalized(next)
  /\ next' = next + 1
  /\ UNCHANGED <<given, disabledByPattern, disabledByEmptyPattern, target, d_patterns>>

(***************************************************************************)
(* One turn of the loop over the tails.  Nothing there is valid; of a      *)
(* disabled beacon no more is looked at, and its pattern is left as it is. *)
(***************************************************************************)
TailDisabled ==
  /\ minSize < next /\ next <= maxSize
  /\ has(d.patterns, next) /\ ~ enabled(d.patterns[next])
  /\ disable(next)
  /\ record(next, {"mismatch"})
  /\ next' = next + 1
  /\ UNCHANGED <<given, d, m_patternLength, validBeacons, target, d_patterns>>

CheckTail ==
  LET autocalibrated == has(d.initialAutocalibrationErrors, next) /\ has(d.isFixed, next)
      check(vector, kinds) == IF has(vector, next) THEN kinds ELSE {}
  IN
  /\ minSize < next /\ next <= maxSize
  /\ has(d.patterns, next) => enabled(d.patterns[next])
  /\ record(next,
       {"mismatch"}
         \cup check(d.patterns, checkPatternLength(next, m_patternLength))
         \cup check(d.locations, checkLocationValidity(next))
         \cup check(d.emissionDirections, checkEmissionDirection(next))
         \cup check(d.baseMeasurementVariances, checkMeasVariance(next))
         \cup (IF autocalibrated THEN checkAutocalib(next) ELSE {}))
  /\ d' = IF autocalibrated THEN normalized(next) ELSE d
  /\ next' = next + 1
  /\ UNCHANGED <<given, m_patternLength, disabledByPattern, disabledByEmptyPattern,
                 validBeacons, target, d_patterns>>

validated == next > maxSize

-----------------------------------------------------------------------------
(***************************************************************************)
(* The target and its identifier.  The identifier takes the length of the  *)
(* first enabled pattern for all of them and throws at another one.        *)
(***************************************************************************)
numBeacons == Len(d.locations)

isFirstEnabled(i) ==
  enabled(d.patterns[i]) /\ \A j \in 1..(i - 1) : ~ enabled(d.patterns[j])

d_length ==
  IF \E i \in DOMAIN d.patterns : enabled(d.patterns[i])
    THEN Len(d.patterns[CHOOSE i \in DOMAIN d.patterns : isFirstEnabled(i)]) ELSE 0

identifierThrows ==
  \E i, j \in DOMAIN d.patterns :
    enabled(d.patterns[i]) /\ enabled(d.patterns[j]) /\ Len(d.patterns[i]) # Len(d.patterns[j])

(***************************************************************************)
(* The identifier stores each enabled pattern twice in a row but for the   *)
(* last character, so that every rotation is a substring.  A sequence of   *)
(* bits is taken for the first pattern that has it.                        *)
(***************************************************************************)
unwrapped(pattern) == pattern   \* mutant
wrapped(pattern) == SubSeq(pattern \o pattern, 1, 2 * Len(pattern) - 1)

windows(pattern) ==
  LET text == wrapped(pattern) IN
  {SubSeq(text, k, k + d_length - 1) : k \in 1..(Len(text) - d_length + 1)}

identifier ==
  [i \in DOMAIN d.patterns |-> IF enabled(d.patterns[i]) THEN windows(d.patterns[i]) ELSE {}]

recognized(bits) == {i \in DOMAIN d_patterns : bits \in d_patterns[i]}

\* Each beacon of the target is made of a location and an autocalibration error,
\* before the identifier is made; the other vectors are asserted to be as long
\* at the end.
sameLengths ==
  /\ numBeacons = Len(d.baseMeasurementVariances)
  /\ numBeacons = Len(d.isFixed)
  /\ numBeacons = Len(d.emissionDirections)

outcome ==
  IF numBeacons > Len(d.initialAutocalibrationErrors) THEN "outOfRange"
  ELSE IF identifierThrows THEN "threw"
  ELSE IF ~ sameLengths THEN "outOfRange" ELSE "built"

BuildTarget ==
  /\ validated /\ target = "none"
  /\ target' = outcome
  /\ d_patterns' = IF target' = "built" THEN identifier ELSE <<>>
  /\ UNCHANGED <<given, d, checkerVars>>

BeaconSetupNext ==
  CleanDisabled \/ CheckBeacon \/ TailDisabled \/ CheckTail \/ BuildTarget

-----------------------------------------------------------------------------
(***************************************************************************)
(* What well-formed data is, said of the data as it was handed over.       *)
(***************************************************************************)
WellFormedBeacon(data, i) ==
  /\ data.locations[i] # "bogus"
  /\ data.emissionDirections[i] # "zero"
  /\ data.baseMeasurementVariances[i] > 0
  /\ data.isFixed[i] \/ data.initialAutocalibrationErrors[i] > 0

WellFormed(data) ==
  /\ \A m, n \in sizes(data) : m = n
  /\ \A i \in DOMAIN data.patterns :
       enabled(data.patterns[i]) => WellFormedBeacon(data, i)
  /\ \A i, j \in DOMAIN data.patterns :
       enabled(data.patterns[i]) /\ enabled(data.patterns[j])
         => Len(data.patterns[i]) = Len(data.patterns[j])

\* The report has errors if and only if the data, as it was handed over, is not
\* well-formed: neither the order of the checks nor the cleaning done between
\* them hides an error or makes one up (BeaconSetupData.cpp 96-166).
ErrorsAreExact == validated => (errors = {} <=> WellFormed(given))

\* Data reported without an error makes a target: nothing is read beyond the end
\* of a vector, the identifier does not throw, every pattern it knows belongs to
\* a beacon the target has, and those are the beacons reported valid.
CleanIsBuildable ==
  validated /\ errors = {} =>
    /\ target \in {"none", "built"}
    /\ validBeacons = {i \in 1..numBeacons : enabled(d.patterns[i])}
    /\ \A i \in DOMAIN d.patterns : enabled(d.patterns[i]) => i <= numBeacons
    /\ \A i \in validBeacons : d.isFixed[i] <=> d.initialAutocalibrationErrors[i] = 0

(***************************************************************************)
(* The inductive invariant behind them.  The cleaning touches disabled     *)
(* patterns and the errors of fixed beacons only; and as long as there is  *)
(* no error, the beacons checked are well-formed and alike in length.      *)
(***************************************************************************)
DataKept ==
  /\ given \in TargetSetupData /\ d \in TargetSetupData
  /\ d.locations = given.locations /\ d.emissionDirections = given.emissionDirections
  /\ d.baseMeasurementVariances = given.baseMeasurementVariances
  /\ d.isFixed = given.isFixed
  /\ Len(d.patterns) = Len(given.patterns)
  /\ \A i \in DOMAIN given.patterns :
       /\ enabled(given.patterns[i]) \/ i >= next => d.patterns[i] = given.patterns[i]
       /\ enabled(d.patterns[i]) => enabled(given.patterns[i])
  /\ Len(d.initialAutocalibrationErrors) = Len(given.initialAutocalibrationErrors)
  /\ \A i \in DOMAIN given.initialAutocalibrationErrors :
       \/ has(given.isFixed, i) /\ given.isFixed[i]
       \/ d.initialAutocalibrationErrors[i] = given.initialAutocalibrationErrors[i]

checked(i) == i \in 1..minSize /\ i < next /\ enabled(given.patterns[i])

faultless(i) == WellFormedBeacon(given, i) /\ Len(given.patterns[i]) = m_patternLength

ReportKept ==
  /\ next \in 1..(maxSize + 1) /\ m_patternLength \in Nat
  /\ next > minSize + 1 => errors # {}
  /\ errors = {} => \A i \in 1..minSize : checked(i) => faultless(i)
  /\ next <= minSize + 1 /\ (\A i \in 1..minSize : checked(i) => faultless(i))
       => errors = {}
  /\ m_patternLength = 0 => \A i \in 1..minSize : ~ checked(i)
  /\ m_patternLength # 0 =>
       \E i \in 1..minSize : checked(i) /\ Len(given.patterns[i]) = m_patternLength
  /\ errors = {} => validBeacons = {i \in 1..minSize : checked(i)}
  /\ \A i \in 1..minSize :
       checked(i) /\ given.isFixed[i] => d.initialAutocalibrationErrors[i] = 0

TargetKept == target # "none" => validated /\ target = outcome

CleanInv == DataKept /\ ReportKept /\ TargetKept
=============================================================================
