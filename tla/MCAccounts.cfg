SPECIFICATION Spec
CONSTANTS
    Requests = {r1, r2, r3}
    Tokens = {t1, t2, t3}
    Codes = {c1}
    Secrets = {s1, s2}
    Recovery = {k1}
    None = None
SYMMETRY Symmetry
INVARIANTS
    TypeOK
    EndedSessionsStayEnded
    EnabledIsConfirmed
PROPERTIES
    OffOnlyByDisable
