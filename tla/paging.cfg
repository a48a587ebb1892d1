\* Lists of up to ten items in pages of up to four, two items removed.
CONSTANTS
    Listings <- Usual
    DefaultVolumesPageSize = 2
    PageCap = 4
    DefaultPerPage = 3
    Matching = {1, 4, 5, 9}
    MaxItems = 10
    MaxRemovals = 2
SPECIFICATION Spec
INVARIANTS Inv InOrderOnce
PROPERTIES LossIsBounded
