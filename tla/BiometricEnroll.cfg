\* One call of enroll at a time, on the second of which the prompt is cancelled.
SPECIFICATION Spec
CONSTANTS
    Calls = {c1}
    Secrets = {s1, s2}
    NoSecret = NoSecret
PROPERTY NeverRegenerated
