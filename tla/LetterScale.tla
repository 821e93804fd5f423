----------------------------- MODULE LetterScale -----------------------------
(***************************************************************************)
(* The AAU undergraduate scale: the cut-off table that turns a weighted    *)
(* total into a letter (grading/letter_scale.py) and the 4.0-scale points  *)
(* of a letter (grade_points.py).  A total is a natural number of percent; *)
(* points are in hundredths, so 375 is the 3.75 of an A-.                  *)
(***************************************************************************)
EXTENDS Integers, Sequences

\* letter_scale.py _LETTER_CUTOFFS: lower bound (inclusive) and letter, high
\* to low; the first row that matches is the answer.
LETTER_CUTOFFS ==
    << <<90, "A+">>, <<83, "A">>,  <<80, "A-">>, <<75, "B+">>, <<68, "B">>,
       <<65, "B-">>, <<60, "C+">>, <<50, "C">>,  <<45, "C-">>, <<40, "D">>,
       <<0, "F">> >>

NumericLetters ==
    {"A+", "A", "A-", "B+", "B", "B-", "C+", "C", "C-", "D", "F"}

\* The marks recorded by other paths: Incomplete, No Grade, Withdrawn, ...
AdministrativeMarks == {"I", "NG", "W", "DO", "P"}

letter_for_numeric(numeric_score) ==
    IF numeric_score >= 100 THEN "A+"
    ELSE IF numeric_score < 0 THEN "F"
    ELSE LETTER_CUTOFFS[CHOOSE i \in 1..Len(LETTER_CUTOFFS) :
            /\ numeric_score >= LETTER_CUTOFFS[i][1]
            /\ \A j \in 1..(i - 1) : numeric_score < LETTER_CUTOFFS[j][1]][2]

\* grade_points.py GRADE_POINTS, in hundredths.
GRADE_POINTS ==
    [l \in NumericLetters |->
        CASE l \in {"A+", "A"} -> 400
          [] l = "A-" -> 375  [] l = "B+" -> 350  [] l = "B" -> 300
          [] l = "B-" -> 275  [] l = "C+" -> 250  [] l = "C" -> 200
          [] l = "C-" -> 175  [] l = "D"  -> 100  [] l = "F" -> 0]

counts_toward_cgpa(letter) == letter \in DOMAIN GRADE_POINTS

is_passing(letter) == letter \in NumericLetters \ {"F"}
=============================================================================
