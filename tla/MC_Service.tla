----------------------------- MODULE MC_Service -----------------------------
(***************************************************************************)
(* Extraction, Access and FieldProfiles on small instances.  They share no  *)
(* state: a behaviour is a scene of one of them, chosen at the start, and   *)
(* the others stay at rest.                                                 *)
(***************************************************************************)
EXTENDS Extraction, Access, FieldProfiles, TLC

VARIABLE scene      \* which part of the service this behaviour is about

vars == <<scene, extractionVars, accessVars, profileVars>>

-----------------------------------------------------------------------------
(* Documents.                                                              *)

Goods(id, amount) == [goods |-> TRUE, id |-> id, proves |-> TRUE, amount |-> amount]
Unproved(id, amount) == [Goods(id, amount) EXCEPT !.proves = FALSE]
Fragment(id) == [goods |-> FALSE, id |-> id, proves |-> FALSE, amount |-> 0]
Page(header, lines) == [header |-> header, lines |-> lines]
Printed(role, total, pages) ==
    [role |-> role, layout |-> "vendor", total |-> total, mislabelled |-> FALSE, pages |-> pages]
Invoice(total, pages) == Printed("INVOICE", total, pages)
Packing(total, pages) == Printed("PACKING_LIST", total, pages)

\* No header anywhere: every page is the model's.
ThreePages == <<Page(FALSE, <<Unproved(1, 10), Unproved(2, 10)>>),
                Page(FALSE, <<Unproved(3, 10)>>), Page(FALSE, <<Unproved(4, 10)>>)>>
Nameless == <<Page(FALSE, <<Unproved(0, 10)>>), Page(FALSE, <<Unproved(0, 10), Unproved(0, 10)>>)>>
TwoPages == <<Page(FALSE, <<Unproved(1, 10)>>), Page(FALSE, <<Unproved(2, 10)>>)>>
\* The parser owns the first page, and the model reads what it left.
Residue == <<Page(TRUE, <<Goods(1, 10), Goods(2, 10)>>), Page(FALSE, <<Unproved(3, 10)>>)>>
WithFragment == <<Page(FALSE, <<Unproved(1, 10), Fragment(1), Unproved(2, 10)>>)>>
Whole == <<Page(TRUE, <<Goods(1, 10), Goods(2, 10)>>)>>
Headerless == <<Page(FALSE, <<Goods(1, 10), Goods(2, 10)>>)>>

One(doc) == [d \in {"d1"} |-> doc]
Two(a, b) == [d \in {"d1", "d2"} |-> IF d = "d1" THEN a ELSE b]
Mislabelled(doc) == [doc EXCEPT !.mislabelled = TRUE]

Case(documents, behaves) == [documents |-> documents, behaves |-> behaves]
Cases == {
    Case(One(Invoice(40, ThreePages)), {"whole", "drop", "context"}),
    Case(One(Invoice(30, Nameless)), {"whole", "blank", "garbled"}),
    Case(One(Invoice(20, TwoPages)), {"borrow", "repeat", "drop"}),
    Case(One(Invoice(40, <<Page(FALSE, <<Unproved(1, 10), Unproved(2, 10), Unproved(3, 10)>>)>>)),
         {"whole", "drop", "blank"}),
    Case(Two(Packing(20, TwoPages), Invoice(10, <<Page(FALSE, <<Unproved(1, 10)>>)>>)),
         {"whole", "blank", "transient"}),
    Case(Two(Packing(40, ThreePages), Invoice(40, ThreePages)), {"whole", "transient"}),
    Case(One(Packing(40, ThreePages)), {"whole", "drop", "refused"}),
    Case(One(Invoice(30, Residue)), {"whole", "context", "borrow"}),
    Case(One(Packing(30, Residue)), {"whole", "blank"}),
    Case(One(Invoice(90, Whole)), {"whole", "drop"}),
    Case(One(Mislabelled(Packing(20, Whole))), {"whole", "transient", "refused"}),
    Case(Two(Invoice(20, Whole), Invoice(20, Headerless)), {"whole", "drop"}),
    Case(One(Invoice(20, WithFragment)), {"whole", "invent", "drop"}),
    Case(One(Invoice(40, ThreePages \o TwoPages)), {"whole"}) }

-----------------------------------------------------------------------------
(* Scenes of Access: "a" extracts, "b" administers.                        *)

Kinds == [s \in {"login", "signup", "reset"} |-> {s}] @@
         ("account" :> {"extract", "admin"}) @@ ("answers" :> {"signup", "reset"})
Scenes == DOMAIN Kinds
NotSignedIn == [a \in Accounts |-> 0]

AccessSceneInit ==
    \/ scene = "login" /\ AccessAtRest(NotSignedIn, {"b"}, {})
    \/ scene \in {"signup", "reset", "answers"} /\ AccessAtRest(NotSignedIn, {}, {})
    \/ scene = "account" /\ AccessAtRest([a \in Accounts |-> SessionTicks], {}, {"b"})

MaxSpent == 4
\* What a scene leaves out, and the bound an unlimited account needs.
InScene ==
    /\ \A r \in Requests : doing'[r].kind \in Kinds[scene] \cup {"none"}
    /\ \A r \in Requests :
         CASE scene = "account" -> doing'[r].kind = "extract" => doing'[r].who = "a"
           [] scene = "login" -> <<doing'[r].client, doing'[r].who>> \in
                                   {<<"c1", "a">>, <<"c2", "b">>, <<"none", "none">>}
                                 /\ events' <= 3
           [] scene = "answers" -> doing'[r].client \in {"c1", "none"}
           [] OTHER             -> doing'[r].who \in {"s", "none"}
    /\ cap'["b"] = Unset /\ spent'["a"] <= MaxSpent
    /\ scene # "account" => admins' = admins
    /\ IF scene = "answers"
       THEN now' = 0 /\ events' = 0 /\ Cardinality(told') <= 2
       ELSE \A t \in told' : t.condition = "ok" /\ t.whose = "stranger"

-----------------------------------------------------------------------------
(* Jobs of one vendor: five items each, unless one is enough.               *)

Item(printed, entered) == [printed |-> printed, entered |-> entered]
Printing(code) == Item(code, "")
MCVendored == {
    <<Printing("CN")>>, <<Printing("DE")>>,
    <<Printing("")>>,                                       \* only the proposal
    <<Item("CN", "DE")>>,                                   \* corrected
    <<Printing("CN"), Printing("CN"), Printing("CN"), Printing("CN"), Item("CN", "DE")>>,
    <<Printing("DE"), Printing("DE"), Printing("DE"), Printing("DE"), Printing("")>> }

-----------------------------------------------------------------------------
ExtractionRests == ExtractionAtRest([d \in {} |-> 0], {})
AccessRests == AccessAtRest(NotSignedIn, {}, {})

Init ==
    \/ /\ scene = "extraction"
       /\ \E case \in Cases : ExtractionAtRest(case.documents, case.behaves)
       /\ AccessRests /\ ProfilesAtRest
    \/ AccessSceneInit /\ ExtractionRests /\ ProfilesAtRest
    \/ scene = "profiles" /\ ProfilesAtRest /\ ExtractionRests /\ AccessRests

Extracts(step) == scene = "extraction" /\ step /\ UNCHANGED <<scene, accessVars, profileVars>>

Next ==
    \/ Extracts(ExtractionNext)
    \/ scene \in Scenes /\ AccessNext /\ InScene /\ UNCHANGED <<scene, extractionVars, profileVars>>
    \/ scene = "profiles" /\ ProfilesNext /\ UNCHANGED <<scene, extractionVars, accessVars>>

MostPages == 0..5
Fairness ==
    \A d \in Docs :
        /\ WF_vars(Extracts(DocumentStep(d)))
        /\ \A w \in MostPages : WF_vars(Extracts(WindowRuns(d, w)))
Spec == Init /\ [][Next]_vars /\ Fairness

-----------------------------------------------------------------------------
(* The constants.                                                          *)

MCWindowPages == ("INVOICE" :> 2) @@ ("PACKING_LIST" :> 2)
Rule(max, within) == [max |-> max, within |-> within]
MCRules == ("login" :> {Rule(2, 2)}) @@
           ("signup" :> {Rule(1, 1), Rule(2, 2)}) @@ ("reset" :> {Rule(1, 1), Rule(2, 2)})
MCRetention == ("login" :> 2) @@ ("signup" :> 2) @@ ("reset" :> 2)
=============================================================================
