----------------------------- MODULE SdkModels -----------------------------
(***************************************************************************)
(* generatesdk: from the operations of an API it collects the models that   *)
(* they reach and emits one const per model, then one function per          *)
(* operation. A const names other consts in its own initialiser, so their   *)
(* order decides whether the generated file loads at all.                   *)
(*                                                                         *)
(* A field refers to a model plainly (X), wrapped once (list[X], X | None)  *)
(* or deep (list[X] | None): the collection sees the first two, the         *)
(* rendering all three, and adds what it meets to the list it is walking.   *)
(***************************************************************************)
EXTENDS Naturals, Sequences, FiniteSets, SequencesExt

CONSTANTS
  Classes,    \* the models: numbers, each referring to lower ones only
  Fns,        \* the names of client functions
  MaxCalls,   \* bound on the operations of the API
  None

Wraps == {"plain", "wrapped", "deep"}
Pairs == {p \in Classes \X Classes : p[2] < p[1]}

VARIABLES
  fields,   \* the fields of each model: pairs [to, wrap]
  models,   \* _ModelSet: [done, order]
  adding,   \* the calls of add that are under way, each inside the one before
            \* it: [of, refs], a class and those of its references that are
            \* still to be visited; of = None for who asks for them all
  calls,    \* the functions so far: [fn, response, payload]
  skipped,  \* the functions not written, having no response model
  emitted,  \* the consts rendered so far, in their order
  stage     \* "declare", "walk", "render", "written", "failed" (CommandError)

sdkVars == <<fields, models, adding, calls, skipped, emitted, stage>>

Init ==
  /\ fields = [c \in Classes |-> {}]
  /\ models = [done |-> {}, order |-> <<>>] /\ adding = <<>>
  /\ calls = <<>> /\ skipped = {} /\ emitted = <<>>
  /\ stage = "declare"

\* The code of the application: what the models refer to.
Declare ==
  /\ stage = "declare"
  /\ \E wrap \in [Pairs -> Wraps \cup {None}] :
       fields' = [c \in Classes |-> {[to |-> p[2], wrap |-> wrap[p]] :
                    p \in {q \in Pairs : q[1] = c /\ wrap[q] # None}}]
  /\ stage' = "walk"
  /\ UNCHANGED <<models, adding, calls, skipped, emitted>>

\* Fault: only a field that is a model itself counts.
PlainRefs(c) == {f.to : f \in {g \in fields[c] : g.wrap = "plain"}}

\* _model_refs, one level into the annotation.
ModelRefs(c) == {f.to : f \in {g \in fields[c] : g.wrap \in {"plain", "wrapped"}}}

Asked(refs) == [of |-> None, refs |-> refs]

\* One reference of the innermost class is behind it. The order of the fields
\* is any.
Visited(r) == [adding EXCEPT ![Len(adding)].refs = @ \ {r}]

\* _ModelSet.add of a class whose name is done. (The check for two classes of
\* one name stands behind this return.)
Skip ==
  /\ adding # <<>>
  /\ \E r \in Last(adding).refs \cap models.done : adding' = Visited(r)
  /\ UNCHANGED <<fields, models, calls, skipped, emitted, stage>>

\* Of one that is not: it is done from here on, and its references come first.
Enter ==
  /\ adding # <<>>
  /\ \E r \in Last(adding).refs \ models.done :
       /\ models' = [models EXCEPT !.done = @ \cup {r}]
       /\ adding' = Append(Visited(r), [of |-> r, refs |-> ModelRefs(r)])
  /\ UNCHANGED <<fields, calls, skipped, emitted, stage>>

\* Then it is appended, and add returns.
Leave ==
  /\ adding # <<>> /\ Last(adding).refs = {}
  /\ models' = IF Last(adding).of = None THEN models
               ELSE [models EXCEPT !.order = Append(@, Last(adding).of)]
  /\ adding' = Front(adding)
  /\ UNCHANGED <<fields, calls, skipped, emitted, stage>>

FnNames == skipped \cup {calls[k].fn : k \in DOMAIN calls}

\* add_call: a name that is taken, if only by a function that was skipped, or
\* a second payload model, ends it all.
AddCall(fn, response, payload) ==
  /\ stage = "walk" /\ adding = <<>> /\ Len(calls) + Cardinality(skipped) < MaxCalls
  /\ IF fn \in FnNames \/ (response # None /\ Len(payload) > 1)
     THEN stage' = "failed" /\ UNCHANGED <<adding, calls, skipped>>
     ELSE IF response = None
     THEN skipped' = skipped \cup {fn} /\ UNCHANGED <<adding, calls, stage>>
     ELSE /\ adding' = <<Asked(ToSet(payload)), Asked({response})>>
          /\ calls' = Append(calls, [fn |-> fn, response |-> response, payload |-> payload])
          /\ UNCHANGED <<skipped, stage>>
  /\ UNCHANGED <<fields, models, emitted>>

StartRender ==
  /\ stage = "walk" /\ adding = <<>>
  /\ stage' = "render"
  /\ UNCHANGED <<fields, models, adding, calls, skipped, emitted>>

\* The models whose names _zod_expr writes, however deep, and adds.
Met(c) == {f.to : f \in fields[c]}

\* One model of render's loop: _zod_expr adds the models of its fields to the
\* very list that the loop runs over.
Emit ==
  /\ stage = "render" /\ adding = <<>> /\ Len(emitted) < Len(models.order)
  /\ LET c == models.order[Len(emitted) + 1]
     IN  /\ adding' = <<Asked(Met(c))>>
         /\ emitted' = Append(emitted, c)
  /\ UNCHANGED <<fields, models, calls, skipped, stage>>

\* The functions follow, and the file is written as a whole.
Write ==
  /\ stage = "render" /\ adding = <<>> /\ Len(emitted) = Len(models.order)
  /\ stage' = "written"
  /\ UNCHANGED <<fields, models, adding, calls, skipped, emitted>>

Payloads == {<<>>} \cup [1..1 -> Classes] \cup [1..2 -> {1}]

Next ==
  \/ Declare
  \/ (\E fn \in Fns, r \in Classes \cup {None}, p \in Payloads : AddCall(fn, r, p))
  \/ Skip \/ Enter \/ Leave
  \/ StartRender \/ Emit \/ Write

Spec == Init /\ [][Next]_sdkVars

-----------------------------------------------------------------------------
(* Property *)

\* The file loads: each model that a function or a const names is declared,
\* once, and before the const that names it - but for the deep references,
\* which are only met when that const is on its way ("dependencies come
\* first", generatesdk.py, is not true of those).
DependenciesFirst ==
  /\ stage = "written" =>
       /\ IsInjective(emitted)
       /\ \A k \in DOMAIN calls :
            {calls[k].response} \cup ToSet(calls[k].payload) \subseteq ToSet(emitted)
       /\ \A c \in ToSet(emitted) : Met(c) \subseteq ToSet(emitted)
  /\ \A k \in DOMAIN emitted : \A f \in fields[emitted[k]] :
       f.wrap # "deep" => \E j \in 1..k - 1 : emitted[j] = f.to

=============================================================================
