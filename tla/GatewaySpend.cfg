\* One transfer started three times in a tab that may be reloaded once.
SPECIFICATION Spec
CONSTANTS
    s1 = s1  s2 = s2  s3 = s3
    Salts = {s1, s2, s3}
    MaxReloads = 1
    NoSalt = NoSalt
SYMMETRY Symmetry
INVARIANTS TypeOK OneSubmission AnswerIsTrue
CHECK_DEADLOCK FALSE
