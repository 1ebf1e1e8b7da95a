CONSTANTS
    NoKey = NoKey
    Nothing = Nothing
    Missing = Missing
    Torn = Torn
    Weights <- MCWeights
    Cards <- MCCards
    Goldens <- MCGoldens
    Images = {"i1", "i2"}
    Present = {"i1"}
    Preprocessings = {"service", "other"}
    ServicePreprocessing = "service"
    Names <- MCNames
    NumClasses <- MCNumClasses
    Outputs <- MCOutputs
    Answers <- MCAnswers
    Trees <- MCTrees
    Values <- MCValues
    Depth <- MCDepth
    Keys <- MCKeys
    ShaKeys <- MCShaKeys
    NameKeys <- MCNameKeys
    Dataset = "dataset"
    Classes = "classes"
    Artifact = "artifact"
    Sha = "sha256"
    Blank = Blank
    TopK = 2
    Tolerance = 1
    MaxEdits = 2
SPECIFICATION Spec
INVARIANTS
    ServedIsNamed
    GoldenHoldsInService
    PassedLoads
    RegeneratedPasses
    FirstIsFound
