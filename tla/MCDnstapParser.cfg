SPECIFICATION Spec
CONSTANTS
    Texts <- MCTexts
    MaxDocuments = 3
PROPERTY
    EventsAreMeant
