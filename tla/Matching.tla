-------------------------------- MODULE Matching --------------------------------
(***************************************************************************)
(* The scores by which workers and jobs are matched, and the weights that  *)
(* the administrator gives them.  A score of the code is a number of       *)
(* thousandths here, and a weight, a number from 0 to 1, one of            *)
(* hundredths.  What compares two texts is the cosine of their embeddings, *)
(* from -1 to 1 and not cut off at 0, and 0 for benefits without an        *)
(* embedding.  A behaviour compares one worker with one job.               *)
(***************************************************************************)
EXTENDS Integers

CONSTANTS
    Profiles,       \* workers to compare
    Offers,         \* jobs to compare them with
    Similarities,   \* of two texts: 1 - (a <=> b) in the query
    Updates,        \* what the administrator may set: functions on some of the keys
    Unknown         \* a field that is null

Maybe(S) == S \cup {Unknown}
Weights == {"SKILL", "BENEFIT", "SALARY", "LOCATION", "SHIFT", "GENDER", "AGE"}
ConfigKeys == Weights \cup {"MIN_SCORE"}

OfferFields == {"occupation", "sector", "salaryMin", "salaryMax", "place", "shift", "gender",
                "ageMin", "ageMax", "boosted"}

\* An offer has an occupation; salaries and ages are not negative.
ASSUME MatchingAssumption ==
    /\ \A w \in Profiles : w.salary \in Maybe(Nat) /\ w.age \in Maybe(Nat)
    /\ \A j \in Offers :
          /\ DOMAIN j = OfferFields /\ j.occupation # Unknown
          /\ j.salaryMin \in Maybe(Nat) /\ j.salaryMax \in Maybe(Nat)
          /\ j.ageMin \in Maybe(Nat) /\ j.ageMax \in Maybe(Nat)
          /\ j.boosted \in BOOLEAN
    /\ Similarities \subseteq -1000 .. 1000
    /\ \A values \in Updates :
          DOMAIN values \subseteq ConfigKeys /\ \A k \in DOMAIN values : values[k] \in Int

VARIABLES
    profile, offer,
    configs,        \* MatchingConfig.value of each key
    wholeUpdates    \* every update has set all of the weights

matchingVars == <<profile, offer, configs, wholeUpdates>>

-----------------------------------------------------------------------------
One == 1000
AtLeast0(n) == IF n < 0 THEN 0 ELSE n
AtMostOne(n) == IF n > One THEN One ELSE n

SalaryScore(expected, lo, hi) ==
    IF expected = Unknown \/ (lo = Unknown /\ hi = Unknown) THEN One \div 2
    ELSE IF lo # Unknown /\ expected < lo THEN AtLeast0(One - ((lo - expected) * One) \div lo)
    ELSE IF hi # Unknown /\ expected > hi THEN AtLeast0(One - ((expected - hi) * One) \div expected)
    ELSE One

\* A place is a region, a province and a district of it.
ProvinceProximity(p, q) ==
    IF p.province = q.province THEN One ELSE IF p.region = q.region THEN One \div 5 ELSE 0
LocationScore(p, q) ==
    IF p = Unknown \/ q = Unknown THEN One \div 2
    ELSE IF ProvinceProximity(p, q) = One
         THEN IF p.district = q.district /\ p.district # Unknown THEN One ELSE One \div 2
         ELSE ProvinceProximity(p, q)

GenderScore(gender, required) ==
    IF required = Unknown THEN One ELSE IF gender = Unknown THEN One \div 2
    ELSE IF gender = required THEN One ELSE 0
AgeScore(age, lo, hi) ==
    IF lo = Unknown /\ hi = Unknown THEN One ELSE IF age = Unknown THEN One \div 2
    ELSE IF (lo = Unknown \/ age >= lo) /\ (hi = Unknown \/ age <= hi) THEN One ELSE 0
ShiftScore(shift, required) ==
    IF shift = Unknown \/ required = Unknown THEN One \div 2
    ELSE IF shift \in {"FLEXIBLE", required} THEN One ELSE 0

\* The similarity of the texts counts within a tier that the occupation sets.
RefinedSkillScore(w, j, skill) ==
    IF w.occupation = j.occupation THEN 800 + skill \div 5
    ELSE IF w.sector = j.sector THEN 200 + (skill * 3) \div 10
    ELSE skill \div 10

ScoreComponents(w, j, skill, benefit) ==
    [SKILL |-> RefinedSkillScore(w, j, skill), BENEFIT |-> benefit,
     SALARY |-> SalaryScore(w.salary, j.salaryMin, j.salaryMax),
     LOCATION |-> LocationScore(w.place, j.place),
     SHIFT |-> ShiftScore(w.shift, j.shift),
     GENDER |-> GenderScore(w.gender, j.gender),
     AGE |-> AgeScore(w.age, j.ageMin, j.ageMax)]

WeightedSum(scores) ==
    configs["SKILL"] * scores["SKILL"] + configs["BENEFIT"] * scores["BENEFIT"]
      + configs["SALARY"] * scores["SALARY"] + configs["LOCATION"] * scores["LOCATION"]
      + configs["SHIFT"] * scores["SHIFT"] + configs["GENDER"] * scores["GENDER"]
      + configs["AGE"] * scores["AGE"]
FinalScore(scores) == (WeightedSum(scores) + 50) \div 100      \* Math.round

\* getMatchedJobs, which favours a boosted job, and getSuggestedWorkers.
BoostUncapped(score) == score + One \div 10                       \* mutant
Boosted(score) == AtMostOne(score + One \div 10)
MatchedJobScore(w, j, c, b) ==
    LET score == FinalScore(ScoreComponents(w, j, c, b)) IN IF j.boosted THEN Boosted(score) ELSE score
SuggestedWorkerScore(w, j, c, b) == FinalScore(ScoreComponents(w, j, c, b))
IsMatch(score) == score * 100 >= configs["MIN_SCORE"] * One

-----------------------------------------------------------------------------
Given(values, k) == IF k \in DOMAIN values THEN values[k] ELSE 0
TotalWeight(values) ==
    Given(values, "SKILL") + Given(values, "BENEFIT") + Given(values, "SALARY")
      + Given(values, "LOCATION") + Given(values, "SHIFT") + Given(values, "GENDER")
      + Given(values, "AGE")

SumsToOne(values) == DOMAIN values \cap Weights # {} => TotalWeight(values) = 100

\* updateConfigs: the weights that the request names must add up to one, and no
\* value may pass one.
AnyThreshold(values) == SumsToOne(values)                         \* mutant
Accepted(values) == SumsToOne(values) /\ \A k \in DOMAIN values : values[k] \in 0 .. 100

UpdateConfigs(values) ==
    /\ Accepted(values)
    /\ configs' = [k \in ConfigKeys |-> IF k \in DOMAIN values THEN values[k] ELSE configs[k]]
    /\ wholeUpdates' = (wholeUpdates /\ (DOMAIN values \cap Weights \in {{}, Weights}))
    /\ UNCHANGED <<profile, offer>>

MatchingInit ==
    /\ profile \in Profiles /\ offer \in Offers
    /\ configs = [SKILL |-> 40, BENEFIT |-> 20, SALARY |-> 15, LOCATION |-> 10, SHIFT |-> 5,
                  GENDER |-> 5, AGE |-> 5, MIN_SCORE |-> 50]
    /\ wholeUpdates = TRUE
MatchingNext == \E values \in Updates : UpdateConfigs(values)
MatchingSpec == MatchingInit /\ [][MatchingNext]_matchingVars

-----------------------------------------------------------------------------
MatchingTypeOK ==
    /\ profile \in Profiles /\ offer \in Offers
    /\ configs \in [ConfigKeys -> 0 .. 100]
    /\ wholeUpdates \in BOOLEAN

\* While every update has set all the weights (updateConfigs checks the sum of
\* those that the request names, not of those that are stored), no score passes
\* one and a boost costs no job a match.  With one and the same similarity of the
\* benefits a worker is never scored lower for a job of his occupation than for
\* one that differs in the occupation alone, however unlike the texts of the
\* first and however alike those of the second.
ScoresCompare ==
    \A c, b \in Similarities :
        LET w == profile  j == offer
            jobScore == MatchedJobScore(w, j, c, b)
            workerScore == SuggestedWorkerScore(w, j, c, b)
            elsewhere == [j EXCEPT !.occupation = Unknown]
        IN
        /\ wholeUpdates => jobScore <= One /\ workerScore <= One
        /\ wholeUpdates /\ IsMatch(workerScore) => IsMatch(jobScore)
        /\ w.occupation = j.occupation =>
              \A d \in Similarities :
                 workerScore >= SuggestedWorkerScore(w, elsewhere, d, b)
=============================================================================
