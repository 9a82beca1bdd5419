-------------------------------- MODULE MCOffice --------------------------------
(* Small instances of the parts of Office.                                 *)
EXTENDS Office, TLC

\* The two calls of a part are alike: no part chooses between them, and the run
\* checks no liveness.
CallsAlike == Permutations(SessionCalls)

Hanoi(district) == [region |-> "North", province |-> "Hanoi", district |-> district]
Saigon == [region |-> "South", province |-> "Saigon", district |-> "First"]

MCProfiles ==
    {[occupation |-> job, sector |-> "S1", salary |-> salary, place |-> place,
      shift |-> shift, gender |-> "F", age |-> 20] :
        job \in {"O1", "O2"}, salary \in {8, 30, Unknown},
        place \in {Hanoi("Ba Dinh"), Saigon}, shift \in {"FLEXIBLE", "NIGHT"}}
MCOffers ==
    {[occupation |-> "O1", sector |-> "S1", salaryMin |-> 10, salaryMax |-> max, place |-> place,
      shift |-> "DAY", gender |-> "F", ageMin |-> 18, ageMax |-> Unknown, boosted |-> boosted] :
        max \in {20, Unknown}, place \in {Hanoi("Ba Dinh"), Hanoi("Hoan Kiem"), Unknown},
        boosted \in BOOLEAN}

\* An edit that deletes the reports, and one that makes the author's own.
MCNestedReports == {[w \in Reviewers |-> "none"], [w \in Reviewers |-> "PENDING"]}

\* Opposite texts and equal ones: every score lies between theirs.
MCSimilarities == {-1000, 1000}

\* All the weights with the threshold; two of them, which leaves the others as
\* they are; and a threshold that is refused.
MCUpdates ==
    {[SKILL |-> 100, BENEFIT |-> 0, SALARY |-> 0, LOCATION |-> 0, SHIFT |-> 0, GENDER |-> 0,
      AGE |-> 0, MIN_SCORE |-> 60],
     [SKILL |-> 10, BENEFIT |-> 30, SALARY |-> 20, LOCATION |-> 20, SHIFT |-> 10, GENDER |-> 5,
      AGE |-> 5],
     [SKILL |-> 50, BENEFIT |-> 50], [SALARY |-> 50, LOCATION |-> 50],
     [MIN_SCORE |-> 90], [MIN_SCORE |-> 110]}
=============================================================================
