CONSTANTS
    NumWords = 4
    Lines <- MCLines
    Device = "dev"
    Tags = {1, 2}
    Value = {0, 1}
    Initial = 0
    Offers <- MCOffers
SPECIFICATION FairSpec
INVARIANTS TypeOK InOrder RespondsToIssuer WholeBursts
PROPERTY Answered
