----------------------------- MODULE MCPipeline -----------------------------
(* TLC instances of Pipeline.                                              *)
EXTENDS Pipeline, TLC

CONSTANTS r1, c1, c2, c3, x1, x2, x3, x4, x5, spec, ext

(* c1 and c2 serve a format each, nobody serves "swagger", and c3 names no *)
(* dialect.                                                                *)
MCFormat == {"openapi", "smithy", "swagger"}
OneFormat == {"openapi"}
MCServes == c1 :> {"openapi"} @@ c2 :> {"smithy"} \cap Format @@ c3 :> {None}
MCLimit == c1 :> 1 @@ c2 :> 2 @@ c3 :> 0

AllLists == {<< >>, <<c1>>, <<c2, c1>>, <<c1, c1>>, <<c1, c3>>}
OneList == {<<c1>>}

Default == [disabled |-> {}, failOn |-> "error", verify |-> FALSE, channels |-> 0,
            undecoded |-> {}]
AnyOptions ==
    {[Default EXCEPT !.failOn = f, !.channels = n, !.undecoded = u, !.disabled = s] :
        f \in {"error", "odd"}, n \in {0, 2}, u \in {{}, {c1}}, s \in {{}, {"validate"}}}
VerifyOrNot == {[Default EXCEPT !.verify = b] : b \in BOOLEAN}

FewPasses == {<< >>, <<"validate">>, <<"validate", "validate">>, <<None>>}
OneOrTwo == {<<"names">>, <<"names", "validate">>}

MCIndex == -1..2
F(sev, src, file) == {[sev |-> sev, src |-> src, file |-> file]}

MCTables == {<<spec>>, <<spec, ext>>, <<ext, spec>>}
DetectTables == {<<spec>>, <<ext>>}
DetectReports ==
    {{}, F("error", 0, spec), F("info", 0, spec), F("error", 1, ext), F("odd", -1, None)}
FewReports == {{}, F("error", 0, spec), F("info", 1, ext), F("warning", 1, spec)}
TwoReports == {{}, F("error", 0, spec)}

(* With two passes, one run, over a spec or a document handed in; with one, *)
(* two runs at once over that document, whose stages say less.             *)
HandedIn ==
    heap = [x \in Ref |-> IF x \in Given
                          THEN [stamped |-> TRUE, sources |-> <<spec>>,
                                diags |-> {}, sound |-> TRUE]
                          ELSE None]
Few(d) == d = None \/ (d.sources = <<spec>> /\ d.diags \in TwoReports)
Scenario ==
    IF Len(passes) = 2
    THEN \A r \in Run \ {r1} : pc[r] = "idle" /\ ~cancelled[r]
    ELSE /\ \A x \in Ref : Few(heap[x])
         /\ \A r \in Run : size[r] = 0 /\ said[r] \cup found[r] \subseteq UNION TwoReports
StagesInit == HandedIn /\ Init
StagesSpec == StagesInit /\ [][Next /\ Scenario']_vars
=============================================================================
