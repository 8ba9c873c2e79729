SPECIFICATION Spec
CONSTANTS
    s1 = s1
    s2 = s2
    n1 = n1
    n2 = n2
    r1 = r1
    MaxInFlight = 3
    MaxMishaps = 1
    None = None
    Scenarios = {s1, s2}
    Names = {n1, n2}
    Suffixes = 3
    Runs = {r1}
    ScenarioOf <- MCScenarioOf
    Outcomes = {"passed"}
    TypedTexts = {"junk"}
    MaxActs = 1
    MaxEdits = 1
INVARIANTS
    TypeOK
    SlugsDistinct
    ShownVerdictStands
    FormAddressesARow
PROPERTIES
    FormSurvives
