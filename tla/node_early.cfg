\* The driver was started with --validate-attachment.
CONSTANTS
    Targets = {t1, t2}
    Staging = staging
    Calls = {c1, c2}
    ValidateAttachment = TRUE
    MaxAbandoned = 0
    MaxFormats = 3
    MaxSize = 2
SPECIFICATION Spec
SYMMETRY Symmetry
PROPERTIES ExistingDataSurvives
