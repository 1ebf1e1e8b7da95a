------------------------------- MODULE Release -------------------------------
(***************************************************************************)
(* The release of a classifier: its weights (classifier.pt), the model     *)
(* card and the file of golden answers, all in the repository's directory, *)
(* which the containers mount.  A maintainer may replace any of them at    *)
(* any time.  Three programs read them:                                    *)
(*   - a worker, which builds a predictor for each job                     *)
(*     (app/classifier/inference),                                         *)
(*   - the golden test of CI (app/classifier/eval/golden.py), and          *)
(*   - the tool that writes the golden answers anew                        *)
(*     (app/classifier/eval/regenerate_golden_expected.py).                *)
(*                                                                         *)
(* Each reads the card, then hashes the weights, then reads the weights    *)
(* again to load them.  They do not look for the same things in the files: *)
(* the test reads the SHA-256 of one field of the card, the number of      *)
(* classes and the preprocessing of its own files; the worker the first    *)
(* SHA-256 of the card, the number of class names, and a preprocessing     *)
(* fixed in the code.  The SHA-256 of a file of weights is the file.       *)
(* What is found in a card is in ModelCard.                                *)
(***************************************************************************)
EXTENDS Integers, Sequences, ModelCard

CONSTANTS
    Weights, Cards, Goldens, \* the files a maintainer may put there
    Images, Present,         \* the golden images, and those in their directory
    Preprocessings, ServicePreprocessing,
    Names,       \* w -> the class names in the file, or Nothing
    NumClasses,  \* w -> the number of classes it says it has, or Nothing
    Outputs,     \* w -> the classes its state dict is for; Nothing without one
    Answers,     \* <<w, preprocessing, image>> -> the classes by rank, and the
                 \* confidence in the first
    Trees,       \* c -> what the card is as a value of JSON
    TopK,        \* 5
    Tolerance,   \* of the confidence
    Missing, Torn,
    MaxEdits

Expectations == [id : Nat, confidence : Int]

\* A golden file has an item for some of the images.
GoldenFiles ==
    [sha : Weights, preprocessing : Preprocessings,
     items : [Images -> Expectations \cup {Nothing}]]

ItemsOf(g) == {i \in Images : g.items[i] # Nothing}

ASSUME FilesAssumption ==
    /\ Goldens \subseteq GoldenFiles
    /\ Missing \notin Weights \cup Cards
    /\ Missing \notin GoldenFiles
    /\ Torn \notin GoldenFiles
    /\ Torn # Missing
    /\ Nothing \notin Nat
    /\ Nothing \notin Expectations
    /\ {Nothing, Blank} \cap Weights = {}
ASSUME WeightsAssumption ==
    /\ Names \in [Weights -> Seq(STRING) \cup {Nothing}]
    /\ NumClasses \in [Weights -> Nat \cup {Nothing}]
    /\ Outputs \in [Weights -> Nat \cup {Nothing}]
    /\ TopK \in Nat \ {0}
    /\ Tolerance \in Nat
    /\ ServicePreprocessing \in Preprocessings
\* A model ranks its classes, and gives the first of them with its confidence.
ASSUME AnswersAssumption ==
    \A w \in Weights, p \in Preprocessings, i \in Images :
        Outputs[w] \in Nat /\ Outputs[w] >= TopK =>
            /\ Answers[<<w, p, i>>].confidence \in Int
            /\ Answers[<<w, p, i>>].top \in [1..TopK -> 1..Outputs[w]]
ASSUME CardsAssumption ==
    /\ Trees \in [Cards -> Values]
    /\ Missing \notin {v.text : v \in Values} \cup {Nothing}
ASSUME BoundAssumption == MaxEdits \in Nat

\* What the worker and the scripts find in a card, or Nothing.
ExpectedSha == [c \in Cards |-> GetExpectedSha(Trees[c])]
ArtifactSha == [c \in Cards |-> ArtifactShaOf(Trees[c])]
CardNames == [c \in Cards |-> GetClassNames(Trees[c])]

VARIABLES
    weights, card, golden,           \* the files
    at, wCard, wSha, wModel,         \* the worker and its predictor
    tool, stage, tCard, tGolden, tSha, tModel,  \* the test or the tool
    calm,      \* history: the programs since whose begin nothing was replaced
    swapped,   \* history: those whose weights were, between hash and load
    stamped,   \* history: the golden file was written by a run of the tool
               \* since whose begin nothing was replaced
    edits      \* history: the number of replacements

fileVars == <<weights, card, golden>>
workerVars == <<at, wCard, wSha, wModel>>
toolVars == <<tool, stage, tCard, tGolden, tSha, tModel>>
historyVars == <<calm, swapped, stamped, edits>>
vars == <<fileVars, workerVars, toolVars, historyVars>>

Programs == {"worker", "tool"}

TypeOK ==
    /\ weights \in Weights \cup {Missing}
    /\ card \in Cards \cup {Missing}
    /\ golden \in GoldenFiles \cup {Missing, Torn}
    /\ at \in {"idle", "carded", "hashed", "ready", "refused"}
    /\ wCard \in Cards \cup {Missing}
    /\ wSha \in Weights \cup {Missing}
    /\ wModel \in Weights \cup {Missing}
    /\ tool \in {"golden", "regenerate"}
    /\ stage \in {"idle", "read", "hashed", "loaded", "passed", "failed", "writing", "done"}
    /\ tCard \in Cards \cup {Missing}
    /\ tGolden \in GoldenFiles \cup {Missing, Torn}
    /\ tSha \in Weights \cup {Missing}
    /\ tModel \in Weights \cup {Missing}
    /\ calm \subseteq Programs
    /\ swapped \subseteq Programs
    /\ stamped \in BOOLEAN
    /\ edits \in 0..MaxEdits

Init ==
    /\ weights \in Weights \cup {Missing}
    /\ card \in Cards \cup {Missing}
    /\ golden \in Goldens \cup {Missing}
    /\ at = "idle" /\ wCard = Missing /\ wSha = Missing /\ wModel = Missing
    /\ tool = "golden" /\ stage = "idle"
    /\ tCard = Missing /\ tGolden = Missing /\ tSha = Missing /\ tModel = Missing
    /\ calm = {} /\ swapped = {} /\ stamped = FALSE /\ edits = 0

-----------------------------------------------------------------------------
(* The maintainer.                                                         *)

Edit ==
    /\ edits < MaxEdits
    /\ edits' = edits + 1
    /\ calm' = {}
    /\ stamped' = FALSE
    /\ UNCHANGED <<workerVars, toolVars>>

ReplaceWeights ==
    /\ Edit
    /\ weights' \in (Weights \cup {Missing}) \ {weights}
    /\ swapped' = swapped \cup (IF at = "hashed" THEN {"worker"} ELSE {})
                          \cup (IF stage = "hashed" THEN {"tool"} ELSE {})
    /\ UNCHANGED <<card, golden>>

ReplaceCard ==
    /\ Edit
    /\ card' \in (Cards \cup {Missing}) \ {card}
    /\ UNCHANGED <<weights, golden, swapped>>

ReplaceGolden ==
    /\ Edit
    /\ golden' \in (Goldens \cup {Missing}) \ {golden}
    /\ UNCHANGED <<weights, card, swapped>>

-----------------------------------------------------------------------------
(* The worker.                                                             *)

\* The predictor of another job: both files are there, and the card has a
\* SHA-256.
ReadCard ==
    /\ at \in {"idle", "ready", "refused"}
    /\ IF weights # Missing /\ card # Missing /\ ExpectedSha[card] # Nothing
       THEN at' = "carded" /\ wCard' = card
       ELSE at' = "refused" /\ wCard' = Missing
    /\ wSha' = Missing
    /\ wModel' = Missing
    /\ calm' = calm \cup {"worker"}
    /\ swapped' = swapped \ {"worker"}
    /\ UNCHANGED <<fileVars, toolVars, stamped, edits>>

\* Mutant: the weights are trusted.
HashTrusted ==
    /\ at = "carded"
    /\ wSha' = IF ExpectedSha[wCard] \in Weights THEN ExpectedSha[wCard] ELSE weights
    /\ at' = IF wSha' = ExpectedSha[wCard] THEN "hashed" ELSE "refused"
    /\ UNCHANGED <<fileVars, wCard, wModel, toolVars, historyVars>>

\* validate_model_artifact.
HashWeights ==
    /\ at = "carded"
    /\ wSha' = weights
    /\ at' = IF weights = ExpectedSha[wCard] THEN "hashed" ELSE "refused"
    /\ UNCHANGED <<fileVars, wCard, wModel, toolVars, historyVars>>

\* Mutant: the names of the card are preferred.
ClassNamesOfCard(w, c) == IF CardNames[c] = Nothing THEN Names[w] ELSE CardNames[c]

\* _resolve_class_names.
ClassNames(w, c) == IF Names[w] = Nothing THEN CardNames[c] ELSE Names[w]

\* The state dict must fit a model with as many classes as there are names.
Loads(w, c) ==
    /\ w # Missing
    /\ ClassNames(w, c) # Nothing
    /\ Outputs[w] = Len(ClassNames(w, c))

LoadWeights ==
    /\ at = "hashed"
    /\ wModel' = weights
    /\ at' = IF Loads(weights, wCard) THEN "ready" ELSE "refused"
    /\ UNCHANGED <<fileVars, wCard, wSha, toolVars, historyVars>>

\* What the worker finds in an image it can read; five names are required.
Serves == at = "ready" /\ Len(ClassNames(wModel, wCard)) >= TopK

Served(image) ==
    LET answer == Answers[<<wModel, ServicePreprocessing, image>>]
    IN [id |-> answer.top[1], label |-> ClassNames(wModel, wCard)[answer.top[1]],
        confidence |-> answer.confidence]

\* The job is over, or the worker is stopped.
EndJob ==
    /\ at # "idle"
    /\ at' = "idle"
    /\ wCard' = Missing
    /\ wSha' = Missing
    /\ wModel' = Missing
    /\ UNCHANGED <<fileVars, toolVars, historyVars>>

-----------------------------------------------------------------------------
(* The golden test and the tool that writes the golden answers.            *)

ReadFiles ==
    /\ stage \in {"idle", "passed", "failed", "done"}
    /\ tool' \in {"golden", "regenerate"}
    /\ IF Missing \notin {weights, card, golden} /\ golden # Torn
       THEN stage' = "read" /\ tCard' = card /\ tGolden' = golden
       ELSE stage' = "failed" /\ tCard' = Missing /\ tGolden' = Missing
    /\ tSha' = Missing
    /\ tModel' = Missing
    /\ calm' = calm \cup {"tool"}
    /\ swapped' = swapped \ {"tool"}
    /\ UNCHANGED <<fileVars, workerVars, stamped, edits>>

HashTool ==
    /\ stage = "read"
    /\ tSha' = weights
    /\ stage' = IF weights = ArtifactSha[tCard] /\ weights = tGolden.sha
                THEN "hashed" ELSE "failed"
    /\ UNCHANGED <<fileVars, workerVars, tool, tCard, tGolden, tModel, historyVars>>

\* A checkpoint with its class names, and as many classes as it says.
Replayable(w) ==
    /\ w # Missing
    /\ Names[w] # Nothing
    /\ NumClasses[w] # Nothing
    /\ Outputs[w] = NumClasses[w]

LoadTool ==
    /\ stage = "hashed"
    /\ tModel' = weights
    /\ stage' = IF Replayable(weights) THEN "loaded" ELSE "failed"
    /\ UNCHANGED <<fileVars, workerVars, tool, tCard, tGolden, tSha, historyVars>>

\* predict_one raises without an image, five classes, or a name for each of
\* the five first.
Predicts(w, g, image) ==
    /\ image \in Present
    /\ Outputs[w] >= TopK
    /\ \A k \in 1..TopK :
           Answers[<<w, g.preprocessing, image>>].top[k] \in 1..Len(Names[w])

Predicted(w, g, image) ==
    LET answer == Answers[<<w, g.preprocessing, image>>]
    IN [id |-> answer.top[1], confidence |-> answer.confidence]

Close(a, b) == a - b <= Tolerance /\ b - a <= Tolerance

\* Mutant: only the class is compared.
MatchesId(w, g, image) ==
    Predicts(w, g, image) /\ Predicted(w, g, image).id = g.items[image].id

Matches(w, g, image) ==
    /\ Predicts(w, g, image)
    /\ Predicted(w, g, image).id = g.items[image].id
    /\ Close(Predicted(w, g, image).confidence, g.items[image].confidence)

\* The golden test: no image may fail.
Compare ==
    /\ tool = "golden"
    /\ stage = "loaded"
    /\ stage' = IF \A i \in ItemsOf(tGolden) : Matches(tModel, tGolden, i)
                THEN "passed" ELSE "failed"
    /\ UNCHANGED <<fileVars, workerVars, tool, tCard, tGolden, tSha, tModel, historyVars>>

\* Mutant: an image that cannot be read is passed over.
RecomputeSome ==
    /\ tool = "regenerate"
    /\ stage = "loaded"
    /\ stage' = "writing"
    /\ tGolden' = [tGolden EXCEPT !.items =
           [i \in Images |->
               IF i \in ItemsOf(tGolden) /\ Predicts(tModel, tGolden, i) THEN Predicted(tModel, tGolden, i)
               ELSE tGolden.items[i]]]
    /\ golden' = Torn
    /\ stamped' = FALSE
    /\ UNCHANGED <<weights, card, workerVars, tool, tCard, tSha, tModel, calm, swapped, edits>>

\* All answers are computed anew, and the file is opened for writing, which
\* empties it.
Recompute ==
    /\ tool = "regenerate"
    /\ stage = "loaded"
    /\ \A i \in ItemsOf(tGolden) : Predicts(tModel, tGolden, i)
    /\ stage' = "writing"
    /\ tGolden' = [tGolden EXCEPT !.items =
           [i \in Images |->
               IF i \in ItemsOf(tGolden) THEN Predicted(tModel, tGolden, i) ELSE Nothing]]
    /\ golden' = Torn
    /\ stamped' = FALSE
    /\ UNCHANGED <<weights, card, workerVars, tool, tCard, tSha, tModel, calm, swapped, edits>>

RecomputeRaises ==
    /\ tool = "regenerate"
    /\ stage = "loaded"
    /\ \E i \in ItemsOf(tGolden) : ~Predicts(tModel, tGolden, i)
    /\ stage' = "failed"
    /\ UNCHANGED <<fileVars, workerVars, tool, tCard, tGolden, tSha, tModel, historyVars>>

\* The whole file is written.  One that was put in its place meanwhile stays,
\* or is written into.
WriteBack ==
    /\ stage = "writing"
    /\ golden' \in IF golden = Torn THEN {tGolden} ELSE {golden, Torn}
    /\ stage' = "done"
    /\ stamped' = ("tool" \in calm)
    /\ UNCHANGED <<weights, card, workerVars, tool, tCard, tGolden, tSha, tModel,
                   calm, swapped, edits>>

\* The test or the tool is stopped.
Kill ==
    /\ stage \in {"read", "hashed", "loaded", "writing"}
    /\ stage' = "idle"
    /\ UNCHANGED <<fileVars, workerVars, tool, tCard, tGolden, tSha, tModel, historyVars>>

Next ==
    \/ ReplaceWeights
    \/ ReplaceCard
    \/ ReplaceGolden
    \/ ReadCard
    \/ HashWeights
    \/ LoadWeights
    \/ EndJob
    \/ ReadFiles
    \/ HashTool
    \/ LoadTool
    \/ Compare
    \/ Recompute
    \/ RecomputeRaises
    \/ WriteBack
    \/ Kill

Spec == Init /\ [][Next]_vars
-----------------------------------------------------------------------------
\* The SHA-256 the predictions of a worker carry is that of the weights that
\* made them, unless the weights were replaced between its two readings.
ServedIsNamed == at = "ready" /\ "worker" \notin swapped => wModel = wSha

\* What the golden test has passed is what users get: a worker that serves
\* weights of the same SHA-256 gives, for every golden image, the class and
\* the confidence the golden file expects and the label the weights have for
\* that class, whatever card it read, when the golden file's preprocessing
\* is the service's.
GoldenHoldsInService ==
    /\ stage = "passed" /\ at = "ready" /\ wSha = tSha
    /\ swapped = {}
    /\ tGolden.preprocessing = ServicePreprocessing
    => \A i \in ItemsOf(tGolden) :
           /\ Serves
           /\ Served(i).id = tGolden.items[i].id
           /\ Served(i).label = Names[tSha][tGolden.items[i].id]
           /\ Close(Served(i).confidence, tGolden.items[i].confidence)

\* A release that passes the golden test is refused by the worker for two
\* reasons only: the first SHA-256 in its card is not the artifact's, or its
\* weights have more or fewer names than classes.
PassedLoads ==
    stage = "passed" /\ at = "refused" /\ calm = Programs =>
        ExpectedSha[card] # weights \/ Len(Names[weights]) # Outputs[weights]

\* Golden answers written by the tool pass the test, as long as nothing is
\* replaced.
RegeneratedPasses ==
    stamped /\ tool = "golden" /\ "tool" \in calm => stage # "failed"

\* What a worker takes for its SHA-256 is what stands first in its card, and
\* no value is misread: _find_first_string_key finds a dict's own strings
\* before those below it, an empty one hiding the rest of its dict.
FirstIsFound ==
    /\ wCard # Missing => ExpectedSha[wCard] = FirstHit(Trees[wCard])
    /\ Misread = {}

-----------------------------------------------------------------------------
(* The inductive invariant.                                                *)

\* The files with which a worker would serve, and the test would pass.
Accepted(w, c) ==
    w # Missing /\ c # Missing /\ w = ExpectedSha[c] /\ Loads(w, c)

Passes(w, c, g) ==
    /\ Missing \notin {w, c, g} /\ g # Torn
    /\ w = ArtifactSha[c] /\ w = g.sha
    /\ Replayable(w)
    /\ \A i \in ItemsOf(g) : Matches(w, g, i)

\* What the worker knows at each of its steps...
WorkerKnows ==
    /\ at \in {"carded", "hashed", "ready"} => wCard # Missing
    /\ at \in {"hashed", "ready"} => wSha = ExpectedSha[wCard] /\ wSha # Missing
    /\ at = "hashed" /\ "worker" \notin swapped => weights = wSha
    /\ at = "ready" => Loads(wModel, wCard) /\ ("worker" \notin swapped => wModel = wSha)

\* ... and what is still so when nothing was replaced.
WorkerCalm ==
    "worker" \in calm =>
        /\ at \in {"carded", "hashed", "ready"} => wCard = card
        /\ at = "carded" => weights # Missing
        /\ at \in {"hashed", "ready"} => wSha = weights
        /\ at = "ready" => wModel = weights
        /\ at = "refused" => ~Accepted(weights, card)

\* The same of the test and the tool.
ToolKnows ==
    /\ stage \in {"read", "hashed", "loaded", "passed", "writing"} =>
           tCard # Missing /\ tGolden \notin {Missing, Torn}
    /\ stage \in {"hashed", "loaded", "passed", "writing"} =>
           tSha = ArtifactSha[tCard] /\ tSha = tGolden.sha /\ tSha # Missing
    /\ stage = "hashed" /\ "tool" \notin swapped => weights = tSha
    /\ stage \in {"loaded", "passed", "writing"} =>
           Replayable(tModel) /\ ("tool" \notin swapped => tModel = tSha)
    /\ stage \in {"passed", "writing"} =>
           \A i \in ItemsOf(tGolden) : Matches(tModel, tGolden, i)
    /\ stage = "writing" => tool = "regenerate"

ToolCalm ==
    "tool" \in calm =>
        /\ stage \in {"read", "hashed", "loaded", "passed", "writing"} => tCard = card
        /\ stage \in {"read", "hashed", "loaded", "passed"} => tGolden = golden
        /\ stage \in {"hashed", "loaded", "passed", "writing"} => tSha = weights
        /\ stage \in {"loaded", "passed", "writing"} => tModel = weights
        /\ stage = "writing" => golden = Torn
        /\ stage = "failed" /\ tool = "golden" => ~Passes(weights, card, golden)

StampedPasses == stamped => Passes(weights, card, golden)

IInv ==
    /\ TypeOK
    /\ WorkerKnows
    /\ WorkerCalm
    /\ ToolKnows
    /\ ToolCalm
    /\ StampedPasses
=============================================================================
