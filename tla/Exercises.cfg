SPECIFICATION Spec
CONSTANTS
    MaxSize = 5
    Values = {1, 2, 3}
    Vectors <- MCVectors
    Numbers <- MCNumbers
    Matrices <- MCMatrices
    Targets <- Values
    Lengths <- MCLengths
    Trees <- MCTrees
    Strings <- MCStrings
INVARIANTS
    SortsSort
    AnswersRight
PROPERTY
    ExercisesEnd
