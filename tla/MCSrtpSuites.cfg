CONSTANTS
    MaxOffer <- MCMaxOffer
SPECIFICATION Spec
INVARIANTS
    TypeOK
    NegotiatedSuiteOffered
    SuiteInvariant
    SuiteTablesMatchSpec
