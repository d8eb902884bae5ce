CONSTANTS
    Handlers <- MCHandlers
    Tags = {"tag:k8s", "tag:prod"}
    MaxLength = 3
    MaxName = 3
SPECIFICATION Spec
INVARIANTS LastOnesCount AskedIsServed TagsEqualAsSets
INVARIANTS CredentialsAgree NamesAreOfTheCRD
\* The lists are full.
CHECK_DEADLOCK FALSE
