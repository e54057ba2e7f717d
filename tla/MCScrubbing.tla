----------------------------- MODULE MCScrubbing -----------------------------
(* The three state machines of scrubbing, with the same values and fakes: a  *)
(* behaviour is one of a session map in use by itself, of the engine with a  *)
(* map of its own, or of the registrations and their fakes.  By itself the   *)
(* map is used for P, T and U; P and U can share a fake, and U's factory is  *)
(* not deterministic.                                                        *)
EXTENDS MCEngine, MCRecognition, SessionMap

VARIABLE part  \* what the behaviour is about

MCFakesOf ==
    ("P" :> {<<"x", "y">>}) @@ ("U" :> {<<"x", "y">>, <<"y">>}) @@ ("T" :> {<<"b", "x">>})
    @@ ("Q" :> {}) @@ ("V" :> {})

ScrubbingInit == part \in {"map", "engine", "fakes"} /\ Init /\ EngineInit /\ RecognitionInit

ScrubbingNext ==
    /\ \/ part = "map" /\ Next /\ UNCHANGED <<engineVars, recognitionVars>>
       \/ part = "engine" /\ EngineNext /\ UNCHANGED <<vars, recognitionVars>>
       \/ part = "fakes" /\ RecognitionNext /\ UNCHANGED <<vars, engineVars>>
    /\ UNCHANGED part

ScrubbingSpec ==
    ScrubbingInit /\ [][ScrubbingNext]_<<part, vars, engineVars, recognitionVars>>
=============================================================================
