SPECIFICATION Spec
CONSTANTS
    shop = shop
    lab = lab
    Unparsable = Unparsable
    Namespaces = {shop, lab}
    QuotaKeys <- MCQuotaKeys
    Annotations <- Names
    Values <- MCValues
    Minute = 1
    Day = 1440
    MaxDuration = 20160
    MaxEdits = 3
SYMMETRY Symmetry
INVARIANTS SizingReady MostSpecificWins OwnMinimum OptOutOnly WarnedExactly
