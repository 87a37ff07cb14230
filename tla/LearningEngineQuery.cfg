SPECIFICATION Spec
CONSTANTS
    Subjects = {user, mars}
    Predicates = {likes, corrected_to}
    UserName = user
    CorrectedTo = corrected_to
    Objects <- MCObjects
    Loaded <- MCLoaded
    Offered = {2, 3}
    MaxFacts = 3
    MaxBoots = 2
INVARIANTS
    AnswersAboutSubject
CHECK_DEADLOCK FALSE
