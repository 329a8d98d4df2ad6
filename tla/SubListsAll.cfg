CONSTANTS
    MaxLists = 20
SPECIFICATION Spec
INVARIANTS
    KeyHasList
