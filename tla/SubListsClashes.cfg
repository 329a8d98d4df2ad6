CONSTANTS
    MaxLists = 20
SPECIFICATION Spec
INVARIANTS
    MoreListsFewerClashes
