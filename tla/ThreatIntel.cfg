SPECIFICATION Spec
CONSTANTS
    h1 = h1
    h2 = h2
    h3 = h3
    r1 = r1
    r2 = r2
    None = None
    Hashes = {h1, h2, h3}
    Withdrawn = {h3}
    Unmapped = {}
    RuleOf <- TwoTemplates
    Postures = {"enforced", "absent"}
    FirstPolicies <- NothingYet
    Replacements <- DormantOne
    Revisions <- OneRevision
    Calls = {t1, t2}
INVARIANTS
    TypeOK
    PublishedAsShown
    EnforcedWasUpheld
PROPERTIES
    OnlyStaleReopens
SYMMETRY Interchangeable
