\* Two calls of enroll at a time, three secrets.
SPECIFICATION Spec
CONSTANTS
    Calls = {c1, c2}
    Secrets = {s1, s2, s3}
    NoSecret = NoSecret
SYMMETRY Interchangeable
INVARIANTS TypeOK EnrolledHasSecret DataStaysReadable
